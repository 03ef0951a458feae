--------------------------- MODULE MCFrontendPolling ---------------------------
(* The instances TLC checks of FrontendPolling. *)
EXTENDS FrontendPolling
=============================================================================
