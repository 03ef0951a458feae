------------------------------- MODULE JobStatus -------------------------------
(***************************************************************************)
(* The life of a job as a client polling GET /api/jobs/:id may see it, with *)
(* no queue, no process and no crash: a job is created, started (again, after *)
(* a failed attempt or a crash), hands rows over to be stored while it     *)
(* runs, and fails or completes.  Completed is final, failed is not.       *)
(* Neither says what was stored: a job may complete whose file had no row  *)
(* to hand over, or whose rows the persistence lost.                       *)
(***************************************************************************)
EXTENDS Naturals

CONSTANTS Job, Tabular
VARIABLES status, handed
vars == <<status, handed>>

Init ==
  /\ status = [j \in Job |-> "none"]
  /\ handed = [j \in Job |-> 0]

Move(j, from, to) ==
  /\ status[j] \in from
  /\ status' = [status EXCEPT ![j] = to]
  /\ UNCHANGED handed

Create(j) == Move(j, {"none"}, "queued")
Start(j) == Move(j, {"queued", "failed", "running"}, "running")
Fail(j) == Move(j, {"queued", "running", "failed"}, "failed")
Complete(j) == Move(j, {"running"}, "completed")

HandOver(j) ==
  /\ j \in Tabular
  /\ status[j] = "running"
  /\ handed' = [handed EXCEPT ![j] = @ + 1]
  /\ UNCHANGED status

Next == \E j \in Job : Create(j) \/ Start(j) \/ Fail(j) \/ Complete(j) \/ HandOver(j)

Spec == Init /\ [][Next]_vars
=============================================================================
