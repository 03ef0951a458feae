----------------------------- MODULE BatchDelivery -----------------------------
(***************************************************************************)
(* What the persistence queue promises, without its workers and counters:  *)
(* a batch is accepted from a file that has not finished, and every        *)
(* delivery of an accepted batch commits its rows at most once, under the  *)
(* document of the file.  It does NOT promise that an accepted batch is    *)
(* ever delivered: drain() may remove it, and a failed transaction is      *)
(* swallowed.                                                              *)
(***************************************************************************)
EXTENDS Naturals

CONSTANTS Batch, File, FileOf(_), Document, DocumentOf

VARIABLES
  accepted,    \* the batches the queue has accepted
  redelivered, \* how often each batch was delivered again after a crash
  stored,      \* how many transactions committed its rows
  storedAs,    \* the documents the rows are stored under
  finished     \* the files whose drain() has returned

vars == <<accepted, redelivered, stored, storedAs, finished>>

Init ==
  /\ accepted = {}
  /\ redelivered = [b \in Batch |-> 0]
  /\ stored = [b \in Batch |-> 0]
  /\ storedAs = [b \in Batch |-> {}]
  /\ finished = {}

Accept(b) ==
  /\ b \notin accepted
  /\ FileOf(b) \notin finished
  /\ accepted' = accepted \union {b}
  /\ UNCHANGED <<redelivered, stored, storedAs, finished>>

Redeliver(b) ==
  /\ b \in accepted
  /\ redelivered' = [redelivered EXCEPT ![b] = @ + 1]
  /\ UNCHANGED <<accepted, stored, storedAs, finished>>

Store(b) ==
  /\ b \in accepted
  /\ stored[b] <= redelivered[b]
  /\ stored' = [stored EXCEPT ![b] = @ + 1]
  /\ storedAs' = [storedAs EXCEPT ![b] = {DocumentOf[FileOf(b)]}]
  /\ UNCHANGED <<accepted, redelivered, finished>>

Finish(f) ==
  /\ f \notin finished
  /\ finished' = finished \union {f}
  /\ UNCHANGED <<accepted, redelivered, stored, storedAs>>

Next ==
  \/ \E b \in Batch : Accept(b) \/ Redeliver(b) \/ Store(b)
  \/ \E f \in File : Finish(f)

Spec == Init /\ [][Next]_vars
=============================================================================
