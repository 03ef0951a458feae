---------------------------- MODULE MCJobLifecycle ----------------------------
(* The instances TLC checks of JobLifecycle. *)
EXTENDS JobLifecycle, TLC

CONSTANTS j1, j2, r1, r2

\* One request of two files; two requests of one file each.
TwoFiles == r1 :> <<j1, j2>>
TwoRequests == (r1 :> <<j1>>) @@ (r2 :> <<j2>>)
=============================================================================
