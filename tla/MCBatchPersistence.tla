-------------------------- MODULE MCBatchPersistence --------------------------
(* The instances TLC checks of BatchPersistence. *)
EXTENDS BatchPersistence, TLC

CONSTANTS i1, i2, i3, d1, d2

\* One file; two files, each with its own document; and a third attempt, the
\* second processing of the job of d1 after a crash or a failure.
OneFile == i1 :> d1
TwoFiles == (i1 :> d1) @@ (i2 :> d2)
ThreeAttempts == TwoFiles @@ (i3 :> d1)

TwoBatches == i1 :> 2
TwoAndOne == (i1 :> 2) @@ (i2 :> 1)
TwoOfThree == (i1 :> 1) @@ (i2 :> 1) @@ (i3 :> 0)
=============================================================================
