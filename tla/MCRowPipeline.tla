----------------------------- MODULE MCRowPipeline -----------------------------
(* The instances TLC checks of RowPipeline. *)
EXTENDS RowPipeline
=============================================================================
