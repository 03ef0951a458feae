------------------------------ MODULE MCSessions ------------------------------
(* The instances TLC checks of Sessions. *)
EXTENDS Sessions
=============================================================================
