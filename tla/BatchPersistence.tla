---------------------------- MODULE BatchPersistence ----------------------------
(***************************************************************************)
(* The asynchronous persistence of extracted rows                          *)
(* (src/backend/src/helpers/batch-persistence-queue.helper.ts).            *)
(*                                                                         *)
(* Every processing attempt of a file owns one BatchPersistenceQueue       *)
(* object, here an Instance: a BullMQ Queue, a BullMQ Worker and the       *)
(* private counter pendingCount.  All instances name the same Redis queue, *)
(* 'batch-persistence-queue', so the worker of one instance also takes the *)
(* batches of another, and Queue.drain() of one removes the waiting        *)
(* batches of all.                                                         *)
(*                                                                         *)
(* A batch is <<i, n>>: the n-th batch of rows that instance i enqueues.   *)
(***************************************************************************)
EXTENDS Integers, FiniteSets

CONSTANTS
  Instance,      \* the BatchPersistenceQueue objects created in a behaviour
  NoInstance,    \* "no worker has the batch"
  Document,      \* the documents
  DocumentOf,    \* the documentId each instance was constructed with
  Streaming,     \* the instances fed by handlers nobody awaits (CSV)
  BatchesOf,     \* bound: how many batches each instance enqueues
  MaxConcurrency,\* QueueConfig.maxConcurrency
  MaxQueueSize,  \* QueueConfig.maxQueueSize
  MaxCrashes,    \* bound: crashes of the process
  MaxStalled     \* BullMQ's maxStalledCount

ASSUME ConstantsAssumption ==
  /\ IsFiniteSet(Instance)
  /\ NoInstance \notin Instance
  /\ DocumentOf \in [Instance -> Document]
  /\ Streaming \subseteq Instance
  /\ BatchesOf \in [Instance -> Nat]
  /\ MaxConcurrency \in Nat \ {0}
  /\ MaxQueueSize \in Nat \ {0}
  /\ MaxCrashes \in Nat
  /\ MaxStalled \in Nat

Batch == UNION {{i} \X (1 .. BatchesOf[i]) : i \in Instance}
Owner(b) == b[1]

VARIABLES
  phase,         \* where the life of each instance stands
  pendingCount,  \* its private counter of batches not yet persisted
  call,          \* the enqueue() call that carries each batch
  job,           \* the state of each batch as a BullMQ job
  takenBy,       \* the instance whose worker has the batch
  saves,         \* transactions that committed the rows of the batch
  savedAs,       \* the documents those rows were written under
  stalls,        \* times BullMQ found the job stalled and requeued it
  crashes        \* crashes so far

vars == <<phase, pendingCount, call, job, takenBy, saves, savedAs, stalls, crashes>>

Phases == {"new", "open", "draining", "waiting", "closing", "closed", "dead"}
Calls  == {"idle", "backpressure", "adding", "added", "done", "refused", "unanswered", "cut"}
Jobs   == {"none", "waiting", "active", "returned", "completed", "removed", "failed"}

TypeOK ==
  /\ phase \in [Instance -> Phases]
  /\ pendingCount \in [Instance -> Nat]
  /\ call \in [Batch -> Calls]
  /\ job \in [Batch -> Jobs]
  /\ takenBy \in [Batch -> Instance \union {NoInstance}]
  /\ saves \in [Batch -> Nat]
  /\ savedAs \in [Batch -> SUBSET Document]
  /\ stalls \in [Batch -> Nat]
  /\ crashes \in Nat

Init ==
  /\ phase = [i \in Instance |-> "new"]
  /\ pendingCount = [i \in Instance |-> 0]
  /\ call = [b \in Batch |-> "idle"]
  /\ job = [b \in Batch |-> "none"]
  /\ takenBy = [b \in Batch |-> NoInstance]
  /\ saves = [b \in Batch |-> 0]
  /\ savedAs = [b \in Batch |-> {}]
  /\ stalls = [b \in Batch |-> 0]
  /\ crashes = 0

-----------------------------------------------------------------------------
(* An instance: initialize(), enqueue() and drain().                       *)

InFlight(i) == {b \in Batch : Owner(b) = i /\ call[b] \in {"backpressure", "adding", "added"}}

\* An enqueue() that throws ends its source: the attempt fails without a drain() or,
\* in a handler nobody awaits, the process ends.
GaveUp(i) == \E b \in Batch : Owner(b) = i /\ call[b] \in {"refused", "unanswered"}

\* The batches the worker of an instance is processing.
Held(i) == {b \in Batch : takenBy[b] = i /\ job[b] \in {"active", "returned"}}

\* The worker of an instance fetches jobs from initialize() to close().
Serving(i) == phase[i] \in {"open", "draining", "waiting"}

\* Queue and worker are created; the worker starts fetching at once.
Initialize(i) ==
  /\ phase[i] = "new"
  /\ phase' = [phase EXCEPT ![i] = "open"]
  /\ UNCHANGED <<pendingCount, call, job, takenBy, saves, savedAs, stalls, crashes>>

\* enqueue() up to its first await.  Batches are produced in order; only a
\* streaming source starts an enqueue() while an earlier one is in flight.
Enqueue(b) ==
  LET i == Owner(b) IN
  /\ phase[i] = "open"
  /\ call[b] = "idle"
  /\ \A n \in 1 .. (b[2] - 1) : call[<<i, n>>] # "idle"
  /\ i \notin Streaming => InFlight(i) = {}
  /\ ~ GaveUp(i)
  /\ call' = [call EXCEPT ![b] = IF pendingCount[i] >= MaxQueueSize
                                 THEN "backpressure" ELSE "adding"]
  /\ UNCHANGED <<phase, pendingCount, job, takenBy, saves, savedAs, stalls, crashes>>

\* waitForDrain() found the counter below 80% of the limit.
BackpressureOver(b) ==
  /\ call[b] = "backpressure"
  /\ 10 * pendingCount[Owner(b)] < 8 * MaxQueueSize
  /\ call' = [call EXCEPT ![b] = "adding"]
  /\ UNCHANGED <<phase, pendingCount, job, takenBy, saves, savedAs, stalls, crashes>>

\* Mutant of BackpressureTimeout: waitForDrain() has no deadline.
BackpressureForever(b) == call[b] = "backpressure" /\ UNCHANGED vars

\* waitForDrain() gave up after 60 s: "proceeding anyway".
BackpressureTimeout(b) ==
  /\ call[b] = "backpressure"
  /\ 10 * pendingCount[Owner(b)] >= 8 * MaxQueueSize
  /\ call' = [call EXCEPT ![b] = "adding"]
  /\ UNCHANGED <<phase, pendingCount, job, takenBy, saves, savedAs, stalls, crashes>>

\* queue.add reaches Redis.  The counter is not incremented yet.
AddLands(b) ==
  /\ call[b] = "adding"
  /\ phase[Owner(b)] \in {"open", "draining", "waiting"}
  /\ call' = [call EXCEPT ![b] = "added"]
  /\ job' = [job EXCEPT ![b] = "waiting"]
  /\ UNCHANGED <<phase, pendingCount, takenBy, saves, savedAs, stalls, crashes>>

\* queue.add rejects and has left nothing in Redis: an error of Redis, or a queue
\* that drain() has closed meanwhile.
AddRefused(b) ==
  /\ call[b] = "adding"
  /\ call' = [call EXCEPT ![b] = "refused"]
  /\ UNCHANGED <<phase, pendingCount, job, takenBy, saves, savedAs, stalls, crashes>>

\* The continuation of enqueue() after the await: pendingCount++.
CountPending(b) ==
  /\ call[b] = "added"
  /\ call' = [call EXCEPT ![b] = "done"]
  /\ pendingCount' = [pendingCount EXCEPT ![Owner(b)] = @ + 1]
  /\ UNCHANGED <<phase, job, takenBy, saves, savedAs, stalls, crashes>>

\* The answer to an add that landed is lost and queue.add rejects: enqueue() throws
\* before its pendingCount++, with the job in Redis.
AddUnanswered(b) ==
  /\ call[b] = "added"
  /\ call' = [call EXCEPT ![b] = "unanswered"]
  /\ UNCHANGED <<phase, pendingCount, job, takenBy, saves, savedAs, stalls, crashes>>

\* flush() calls drain().  A sequential source has awaited all its enqueues.
DrainStart(i) ==
  /\ phase[i] = "open"
  /\ i \notin Streaming => InFlight(i) = {}
  /\ ~ GaveUp(i)
  /\ phase' = [phase EXCEPT ![i] = "draining"]
  /\ UNCHANGED <<pendingCount, call, job, takenBy, saves, savedAs, stalls, crashes>>

\* Mutant of DrainLands: the queue is not emptied.
DrainLandsNothing(i) ==
  /\ phase[i] = "draining"
  /\ \A b \in Batch : Owner(b) = i => call[b] # "adding"
  /\ phase' = [phase EXCEPT ![i] = "waiting"]
  /\ UNCHANGED <<pendingCount, call, job, takenBy, saves, savedAs, stalls, crashes>>

\* queue.drain() in Redis: every waiting job of the shared queue is removed,
\* whoever enqueued it.  It is sent on the connection of the queue's own adds
\* and so lands after those already sent.
DrainLands(i) ==
  /\ phase[i] = "draining"
  /\ \A b \in Batch : Owner(b) = i => call[b] # "adding"
  /\ phase' = [phase EXCEPT ![i] = "waiting"]
  /\ job' = [b \in Batch |-> IF job[b] = "waiting" THEN "removed" ELSE job[b]]
  /\ UNCHANGED <<pendingCount, call, takenBy, saves, savedAs, stalls, crashes>>

\* waitForCompletion() saw pendingCount = 0; queue.close().
WaitDone(i) ==
  /\ phase[i] = "waiting"
  /\ pendingCount[i] = 0
  /\ phase' = [phase EXCEPT ![i] = "closing"]
  /\ UNCHANGED <<pendingCount, call, job, takenBy, saves, savedAs, stalls, crashes>>

\* waitForCompletion() gave up after 30 s and reset the counter; queue.close().
WaitTimeout(i) ==
  /\ phase[i] = "waiting"
  /\ pendingCount[i] > 0
  /\ phase' = [phase EXCEPT ![i] = "closing"]
  /\ pendingCount' = [pendingCount EXCEPT ![i] = 0]
  /\ UNCHANGED <<call, job, takenBy, saves, savedAs, stalls, crashes>>

\* worker.close() resolves when the worker has finished the jobs it holds.
WorkerClosed(i) ==
  /\ phase[i] = "closing"
  /\ Held(i) = {}
  /\ phase' = [phase EXCEPT ![i] = "closed"]
  /\ UNCHANGED <<pendingCount, call, job, takenBy, saves, savedAs, stalls, crashes>>

-----------------------------------------------------------------------------
(* A worker: the processor of worker i on any waiting batch b.             *)

\* Mutant of Take: a job whose lock expired before it was completed is taken too.
TakeUnlocked(i, b) ==
  /\ Serving(i)
  /\ job[b] \in {"waiting", "returned"}
  /\ Cardinality(Held(i)) < MaxConcurrency
  /\ job' = [job EXCEPT ![b] = "active"]
  /\ takenBy' = [takenBy EXCEPT ![b] = i]
  /\ UNCHANGED <<phase, pendingCount, call, saves, savedAs, stalls, crashes>>

Take(i, b) ==
  /\ Serving(i)
  /\ job[b] = "waiting"
  /\ Cardinality(Held(i)) < MaxConcurrency
  /\ job' = [job EXCEPT ![b] = "active"]
  /\ takenBy' = [takenBy EXCEPT ![b] = i]
  /\ UNCHANGED <<phase, pendingCount, call, saves, savedAs, stalls, crashes>>

\* Mutant of DocumentWritten: the processor uses this.documentId.
DocumentOfWorker(i, b) == DocumentOf[i]

\* The document the processor writes the rows under: job.data.documentId.
DocumentWritten(i, b) == DocumentOf[Owner(b)]

\* persistBatchWithTransaction commits all rows of the batch.
Save(i, b) ==
  /\ takenBy[b] = i
  /\ job[b] = "active"
  /\ phase[i] # "dead"
  /\ job' = [job EXCEPT ![b] = "returned"]
  /\ saves' = [saves EXCEPT ![b] = @ + 1]
  /\ savedAs' = [savedAs EXCEPT ![b] = @ \union {DocumentWritten(i, b)}]
  /\ UNCHANGED <<phase, pendingCount, call, takenBy, stalls, crashes>>

\* this.pendingCount is decremented but never below zero.
Decrement(n) == IF n > 0 THEN n - 1 ELSE 0

\* Mutant of SaveFails: the error path decrements the counter as well.
SaveFailsCounted(i, b) ==
  /\ takenBy[b] = i
  /\ job[b] = "active"
  /\ phase[i] # "dead"
  /\ job' = [job EXCEPT ![b] = "returned"]
  /\ pendingCount' = [pendingCount EXCEPT ![i] = Decrement(@)]
  /\ UNCHANGED <<phase, call, takenBy, saves, savedAs, stalls, crashes>>

\* The transaction rolls back; the error is caught and returned as a result,
\* so that the processor goes on as after a commit.
SaveFails(i, b) ==
  /\ takenBy[b] = i
  /\ job[b] = "active"
  /\ phase[i] # "dead"
  /\ job' = [job EXCEPT ![b] = "returned"]
  /\ UNCHANGED <<phase, pendingCount, call, takenBy, saves, savedAs, stalls, crashes>>

\* The processor returns: it decrements the counter of the instance that
\* processed the batch, and BullMQ removes the completed job.
Complete(i, b) ==
  /\ takenBy[b] = i
  /\ job[b] = "returned"
  /\ phase[i] # "dead"
  /\ job' = [job EXCEPT ![b] = "completed"]
  /\ takenBy' = [takenBy EXCEPT ![b] = NoInstance]
  /\ pendingCount' = [pendingCount EXCEPT ![i] = Decrement(@)]
  /\ UNCHANGED <<phase, call, saves, savedAs, stalls, crashes>>

-----------------------------------------------------------------------------
(* Crash of the process, and BullMQ's recovery of the jobs it held.        *)

Crash ==
  /\ crashes < MaxCrashes
  /\ \E i \in Instance : phase[i] \notin {"new", "closed", "dead"}
  /\ crashes' = crashes + 1
  /\ phase' = [i \in Instance |-> IF phase[i] \in {"new", "closed"} THEN phase[i] ELSE "dead"]
  /\ call' = [b \in Batch |-> IF call[b] \in {"backpressure", "adding", "added"}
                              THEN "cut" ELSE call[b]]
  /\ UNCHANGED <<pendingCount, job, takenBy, saves, savedAs, stalls>>

Orphaned(b) ==
  /\ job[b] \in {"active", "returned"}
  /\ phase[takenBy[b]] = "dead"

\* The stalled-job check of a live worker puts the job back to wait.
StalledRequeued(i, b) ==
  /\ Serving(i)
  /\ Orphaned(b)
  /\ stalls[b] < MaxStalled
  /\ job' = [job EXCEPT ![b] = "waiting"]
  /\ takenBy' = [takenBy EXCEPT ![b] = NoInstance]
  /\ stalls' = [stalls EXCEPT ![b] = @ + 1]
  /\ UNCHANGED <<phase, pendingCount, call, saves, savedAs, crashes>>

\* Mutant of StalledTooOften: one more stall than is ever counted.
StalledFarTooOften(i, b) ==
  /\ Serving(i)
  /\ Orphaned(b)
  /\ stalls[b] > MaxStalled
  /\ job' = [job EXCEPT ![b] = "failed"]
  /\ takenBy' = [takenBy EXCEPT ![b] = NoInstance]
  /\ pendingCount' = [pendingCount EXCEPT ![i] = Decrement(@)]
  /\ UNCHANGED <<phase, call, saves, savedAs, stalls, crashes>>

\* A job that stalled too often is failed by the worker that finds it, whose
\* 'failed' listener decrements the counter of its own instance.
StalledTooOften(i, b) ==
  /\ Serving(i)
  /\ Orphaned(b)
  /\ stalls[b] >= MaxStalled
  /\ job' = [job EXCEPT ![b] = "failed"]
  /\ takenBy' = [takenBy EXCEPT ![b] = NoInstance]
  /\ pendingCount' = [pendingCount EXCEPT ![i] = Decrement(@)]
  /\ UNCHANGED <<phase, call, saves, savedAs, stalls, crashes>>

-----------------------------------------------------------------------------
InstanceStep(i) ==
  \/ Initialize(i) \/ DrainStart(i) \/ DrainLands(i)
  \/ WaitDone(i) \/ WaitTimeout(i) \/ WorkerClosed(i)

CallStep(b) ==
  \/ Enqueue(b) \/ BackpressureOver(b) \/ BackpressureTimeout(b)
  \/ AddLands(b) \/ AddRefused(b) \/ CountPending(b) \/ AddUnanswered(b)

WorkerStep(i, b) ==
  \/ Take(i, b) \/ Save(i, b) \/ SaveFails(i, b) \/ Complete(i, b)
  \/ StalledRequeued(i, b) \/ StalledTooOften(i, b)

Next ==
  \/ \E i \in Instance : InstanceStep(i)
  \/ \E b \in Batch : CallStep(b)
  \/ \E i \in Instance, b \in Batch : WorkerStep(i, b)
  \/ Crash

Spec == Init /\ [][Next]_vars

\* Timers fire, Redis and Postgres answer, and an idle worker fetches: what
\* was started goes on.  Nothing makes a source enqueue or call drain().
Fairness ==
  /\ \A i \in Instance :
       /\ WF_vars(DrainLands(i))
       /\ WF_vars(WaitDone(i) \/ WaitTimeout(i))
       /\ WF_vars(WorkerClosed(i))
       /\ WF_vars(\E b \in Batch : Take(i, b))
  /\ \A b \in Batch :
       /\ WF_vars(BackpressureOver(b) \/ BackpressureTimeout(b))
       /\ WF_vars(AddLands(b) \/ AddRefused(b))
       /\ WF_vars(CountPending(b) \/ AddUnanswered(b))
       /\ WF_vars(\E i \in Instance : Save(i, b) \/ SaveFails(i, b))
       /\ WF_vars(\E i \in Instance : Complete(i, b))
       /\ WF_vars(\E i \in Instance : StalledRequeued(i, b) \/ StalledTooOften(i, b))

FairSpec == Spec /\ Fairness
-----------------------------------------------------------------------------
(* Safety.                                                                 *)

\* However many workers serve the shared queue, the rows of a batch are
\* committed once, plus at most once for every time the process died with the
\* batch in hand and BullMQ delivered it again (batch-persistence-queue.helper.ts
\* 74-97 with the worker's redelivery of stalled jobs).
SavedOncePerDelivery == \A b \in Batch : saves[b] <= 1 + stalls[b]

\* Rows are written under the document of the file they were read from, although
\* the worker of any other file may be the one that writes them: the processor
\* uses job.data.documentId and not this.documentId (lines 85-89).
RowsKeepTheirDocument ==
  \A b \in Batch : savedAs[b] \subseteq {DocumentOf[Owner(b)]}

Drained(i) == phase[i] \in {"waiting", "closing", "closed"}

\* Once the drain() of a file whose enqueues were awaited has emptied the queue,
\* no batch of that file is left behind in Redis for a worker that may never
\* come; only a batch that was in the hands of a crashed worker comes back.
NoLeftoverAfterDrain ==
  \A b \in Batch : Drained(Owner(b)) /\ Owner(b) \notin Streaming /\ stalls[b] = 0
                     => job[b] # "waiting"

Live(b) == job[b] \in {"waiting", "active", "returned"}

\* The counters added up: a mark for every count of every instance.
Pending == UNION {{i} \X (1 .. pendingCount[i]) : i \in Instance}

\* The batches the counters are to cover, and those that were processed or removed
\* before they were counted, or will never be.
Unfinished == {b \in Batch : call[b] = "done" /\ Live(b)}
Uncounted == {b \in Batch : call[b] \in {"added", "unanswered"} /\ ~ Live(b)}

\* The counters are decremented by whoever processes a batch, so one instance may
\* undercount, and a batch whose add was not answered is discounted without having
\* been counted.  Until an instance leaves waitForCompletion() (which may reset its
\* counter) the counters together miss at most one counted and unfinished batch for
\* every batch that left the queue uncounted (lines 92, 107, 142-148).
CountersCoverUnfinished ==
  crashes = 0 /\ (\A i \in Instance : phase[i] \notin {"closing", "closed"}) =>
    Cardinality(Unfinished) <= Cardinality(Pending) + Cardinality(Uncounted)

(* Liveness, under FairSpec.                                               *)

UnderWay ==
  \/ \E i \in Instance : phase[i] \in {"draining", "waiting", "closing"}
  \/ \E b \in Batch : call[b] \in {"backpressure", "adding", "added"}

\* drain() always returns, and so does every enqueue(), also when the counter they
\* watch can no longer fall because the batches it counts were removed from the queue or
\* processed by another instance's worker (lines 125-160, 185-219).  A source makes
\* finitely many calls, so all have ended when none is under way ever again.
CallsReturn == <>[](~ UnderWay)

SomeoneServes == \E i \in Instance : Serving(i)

\* A batch that was in the hands of a crashed worker is delivered again or failed
\* as long as some worker serves the queue, however often its workers die.
OrphanRecovered == \A b \in Batch : []<>(Orphaned(b) => ~ SomeoneServes)

(* The inductive invariant behind the safety properties.                   *)

\* A batch enters Redis with its caller's add and not before.
JobFollowsCall ==
  \A b \in Batch : call[b] \in {"idle", "backpressure", "adding"} => job[b] = "none"

\* A worker has a batch exactly while it is being processed or was when it died.
HeldWhileProcessed ==
  \A b \in Batch : takenBy[b] \in Instance <=> job[b] \in {"active", "returned"}

\* A delivery that has not reached the database still has its commit to spend.
CommitLeft ==
  \A b \in Batch : /\ saves[b] <= 1 + stalls[b]
                   /\ job[b] \in {"none", "waiting", "active"} => saves[b] <= stalls[b]

\* A sequential source is at rest while its drain() runs.
NoEnqueueDuringDrain ==
  \A b \in Batch : Owner(b) \notin Streaming /\ (Drained(Owner(b)) \/ phase[Owner(b)] = "draining")
                     => call[b] \notin {"backpressure", "adding", "added"}

IInv ==
  /\ TypeOK
  /\ JobFollowsCall
  /\ HeldWhileProcessed
  /\ CommitLeft
  /\ RowsKeepTheirDocument
  /\ NoEnqueueDuringDrain
  /\ NoLeftoverAfterDrain

(* The queue implements BatchDelivery: a batch is accepted when its add lands. *)

Delivery == INSTANCE BatchDelivery WITH
  File <- Instance,
  FileOf <- Owner,
  accepted <- {b \in Batch : job[b] # "none"},
  redelivered <- stalls,
  stored <- saves,
  storedAs <- savedAs,
  finished <- {i \in Instance : phase[i] = "closed"}

\* No interleaving of the instances, their workers and crashes does more to the
\* database than BatchDelivery allows; in particular no batch is accepted from a
\* file whose drain() has returned (lines 125-201).
ImplementsDelivery == Delivery!Spec

(* What specs/batch.persistence.queue.md says of the queue.                *)

\* "SCENARIO 10: No row loss occurs during async persistence" (line 463): when a
\* file's drain() has returned, every batch it enqueued has been processed.
NoRowLoss ==
  \A b \in Batch : phase[Owner(b)] = "closed" /\ call[b] = "done" => job[b] = "completed"
=============================================================================
