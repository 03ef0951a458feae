------------------------ MODULE BatchPersistenceProofs ------------------------
(***************************************************************************)
(* Proofs about BatchPersistence, for every set of instances and batches   *)
(* and every number of crashes.                                            *)
(***************************************************************************)
EXTENDS BatchPersistence, FiniteSetTheorems, TLAPS

\* A batch has an owner.
LEMMA OwnerInInstance == ASSUME NEW b \in Batch PROVE Owner(b) \in Instance
BY DEF Batch, Owner

\* The counter of pending batches never becomes negative.
LEMMA DecrementNat == ASSUME NEW n \in Nat PROVE Decrement(n) \in Nat
BY DEF Decrement

-----------------------------------------------------------------------------
(* Type correctness.                                                       *)

\* A freshly constructed queue is well typed.
LEMMA InitTypeOK == Init => TypeOK
BY DEF Init, TypeOK, Phases, Calls, Jobs

\* The steps of an instance (initialize, drain, waitForCompletion) keep the types.
LEMMA InstanceStepTypeOK ==
  ASSUME TypeOK, NEW i \in Instance, InstanceStep(i)
  PROVE  TypeOK'
<1>1. CASE Initialize(i)
  BY <1>1 DEF TypeOK, Phases, Initialize
<1>2. CASE DrainStart(i)
  BY <1>2 DEF TypeOK, Phases, DrainStart
<1>3. CASE DrainLands(i)
  BY <1>3 DEF TypeOK, Phases, Jobs, DrainLands
<1>4. CASE WaitDone(i)
  BY <1>4 DEF TypeOK, Phases, WaitDone
<1>5. CASE WaitTimeout(i)
  BY <1>5 DEF TypeOK, Phases, WaitTimeout
<1>6. CASE WorkerClosed(i)
  BY <1>6 DEF TypeOK, Phases, WorkerClosed
<1> QED
  BY <1>1, <1>2, <1>3, <1>4, <1>5, <1>6 DEF InstanceStep

\* The steps of an enqueue() call keep the types.
LEMMA CallStepTypeOK ==
  ASSUME TypeOK, NEW b \in Batch, CallStep(b)
  PROVE  TypeOK'
<1>1. CASE Enqueue(b)
  BY <1>1 DEF TypeOK, Calls, Enqueue
<1>2. CASE BackpressureOver(b) \/ BackpressureTimeout(b)
  BY <1>2 DEF TypeOK, Calls, BackpressureOver, BackpressureTimeout
<1>3. CASE AddLands(b)
  BY <1>3 DEF TypeOK, Calls, Jobs, AddLands
<1>4. CASE AddRefused(b)
  BY <1>4 DEF TypeOK, Calls, AddRefused
<1>5. CASE CountPending(b)
  BY <1>5, OwnerInInstance DEF TypeOK, Calls, CountPending
<1>6. CASE AddUnanswered(b)
  BY <1>6 DEF TypeOK, Calls, AddUnanswered
<1> QED
  BY <1>1, <1>2, <1>3, <1>4, <1>5, <1>6 DEF CallStep

\* The steps of a BullMQ worker keep the types.
LEMMA WorkerStepTypeOK ==
  ASSUME TypeOK, NEW i \in Instance, NEW b \in Batch, WorkerStep(i, b)
  PROVE  TypeOK'
<1>1. CASE Take(i, b)
  BY <1>1 DEF TypeOK, Jobs, Take
<1>2. CASE Save(i, b)
  <2>1. DocumentWritten(i, b) \in Document
    BY OwnerInInstance, ConstantsAssumption DEF DocumentWritten
  <2> QED
    BY <1>2, <2>1 DEF TypeOK, Jobs, Save
<1>3. CASE SaveFails(i, b)
  BY <1>3 DEF TypeOK, Jobs, SaveFails
<1>4. CASE Complete(i, b)
  BY <1>4, DecrementNat DEF TypeOK, Jobs, Complete
<1>5. CASE StalledRequeued(i, b)
  BY <1>5 DEF TypeOK, Jobs, StalledRequeued
<1>6. CASE StalledTooOften(i, b)
  BY <1>6, DecrementNat DEF TypeOK, Jobs, StalledTooOften
<1> QED
  BY <1>1, <1>2, <1>3, <1>4, <1>5, <1>6 DEF WorkerStep

\* The end of the process keeps the types.
LEMMA CrashTypeOK == TypeOK /\ Crash => TypeOK'
BY DEF TypeOK, Phases, Calls, Crash

\* Every step of the queue, and every stutter, keeps the types.
LEMMA NextTypeOK == TypeOK /\ [Next]_vars => TypeOK'
BY InstanceStepTypeOK, CallStepTypeOK, WorkerStepTypeOK, CrashTypeOK
   DEF Next, vars, TypeOK

\* Every variable keeps its type in every behaviour of the persistence queue.
THEOREM TypeCorrect == Spec => []TypeOK
BY InitTypeOK, NextTypeOK, PTL DEF Spec

-----------------------------------------------------------------------------
(* The inductive invariant.                                                *)

\* A freshly constructed queue satisfies the inductive invariant.
LEMMA InitIInv == Init => IInv
<1> SUFFICES ASSUME Init PROVE IInv
  OBVIOUS
<1>1. TypeOK
  BY InitTypeOK
<1>2. JobFollowsCall /\ NoEnqueueDuringDrain /\ NoLeftoverAfterDrain
  BY DEF Init, JobFollowsCall, NoEnqueueDuringDrain, NoLeftoverAfterDrain
<1>3. HeldWhileProcessed
  BY ConstantsAssumption DEF Init, HeldWhileProcessed
<1>4. CommitLeft /\ RowsKeepTheirDocument
  BY DEF Init, CommitLeft, RowsKeepTheirDocument
<1> QED
  BY <1>1, <1>2, <1>3, <1>4 DEF IInv

\* A step that leaves the batches in Redis and in the database alone keeps what
\* the invariant says of them.
LEMMA InstanceStepIInv ==
  ASSUME IInv, NEW i \in Instance, InstanceStep(i)
  PROVE  IInv'
<1> USE DEF IInv
<1>1. TypeOK'
  BY InstanceStepTypeOK
<1>2. JobFollowsCall'
  BY DEF TypeOK, JobFollowsCall, InstanceStep, Initialize, DrainStart, DrainLands,
         WaitDone, WaitTimeout, WorkerClosed
<1>3. HeldWhileProcessed'
  BY DEF TypeOK, HeldWhileProcessed, InstanceStep, Initialize, DrainStart, DrainLands,
         WaitDone, WaitTimeout, WorkerClosed
<1>4. CommitLeft'
  BY DEF TypeOK, CommitLeft, InstanceStep, Initialize, DrainStart, DrainLands,
         WaitDone, WaitTimeout, WorkerClosed
<1>5. RowsKeepTheirDocument'
  BY DEF RowsKeepTheirDocument, InstanceStep, Initialize, DrainStart, DrainLands,
         WaitDone, WaitTimeout, WorkerClosed
<1>6. NoEnqueueDuringDrain'
  <2> SUFFICES ASSUME NEW b \in Batch, Owner(b) \notin Streaming,
                      (Drained(Owner(b)) \/ phase[Owner(b)] = "draining")'
               PROVE  call'[b] \notin {"backpressure", "adding", "added"}
    BY DEF NoEnqueueDuringDrain
  <2>1. CASE DrainStart(i) /\ Owner(b) = i
    BY <2>1 DEF DrainStart, InFlight
  <2>2. CASE ~ (DrainStart(i) /\ Owner(b) = i)
    <3>1. Drained(Owner(b)) \/ phase[Owner(b)] = "draining"
      BY <2>2, OwnerInInstance
         DEF TypeOK, Drained, InstanceStep, Initialize, DrainStart, DrainLands,
             WaitDone, WaitTimeout, WorkerClosed
    <3>2. UNCHANGED call
      BY DEF InstanceStep, Initialize, DrainStart, DrainLands,
             WaitDone, WaitTimeout, WorkerClosed
    <3> QED
      BY <3>1, <3>2 DEF NoEnqueueDuringDrain
  <2> QED
    BY <2>1, <2>2
<1>7. NoLeftoverAfterDrain'
  <2> SUFFICES ASSUME NEW b \in Batch, Drained(Owner(b))', Owner(b) \notin Streaming,
                      stalls'[b] = 0
               PROVE  job'[b] # "waiting"
    BY DEF NoLeftoverAfterDrain
  <2>1. CASE DrainLands(i)
    BY <2>1 DEF DrainLands, TypeOK
  <2>2. CASE ~ DrainLands(i)
    <3>1. Drained(Owner(b)) /\ UNCHANGED <<job, stalls>>
      BY <2>2, OwnerInInstance
         DEF TypeOK, Drained, InstanceStep, Initialize, DrainStart, DrainLands,
             WaitDone, WaitTimeout, WorkerClosed
    <3> QED
      BY <3>1 DEF NoLeftoverAfterDrain
  <2> QED
    BY <2>1, <2>2
<1> QED
  BY <1>1, <1>2, <1>3, <1>4, <1>5, <1>6, <1>7

\* An enqueue() call keeps the inductive invariant, whatever flush() and drain()
\* of its file do meanwhile.
LEMMA CallStepIInv ==
  ASSUME IInv, NEW b \in Batch, CallStep(b)
  PROVE  IInv'
<1> USE DEF IInv
<1>1. TypeOK'
  BY CallStepTypeOK
<1>2. JobFollowsCall'
  BY DEF TypeOK, JobFollowsCall, CallStep, Enqueue, BackpressureOver, BackpressureTimeout,
         AddLands, AddRefused, CountPending, AddUnanswered
<1>3. HeldWhileProcessed'
  BY DEF TypeOK, JobFollowsCall, HeldWhileProcessed, CallStep, Enqueue, BackpressureOver,
         BackpressureTimeout, AddLands, AddRefused, CountPending, AddUnanswered
<1>4. CommitLeft'
  BY DEF TypeOK, JobFollowsCall, CommitLeft, CallStep, Enqueue, BackpressureOver,
         BackpressureTimeout, AddLands, AddRefused, CountPending, AddUnanswered
<1>5. RowsKeepTheirDocument'
  BY DEF RowsKeepTheirDocument, CallStep, Enqueue, BackpressureOver, BackpressureTimeout,
         AddLands, AddRefused, CountPending, AddUnanswered
<1>6. NoEnqueueDuringDrain'
  BY DEF TypeOK, Drained, NoEnqueueDuringDrain, CallStep, Enqueue, BackpressureOver,
         BackpressureTimeout, AddLands, AddRefused, CountPending, AddUnanswered
<1>7. NoLeftoverAfterDrain'
  BY DEF TypeOK, Drained, NoEnqueueDuringDrain, NoLeftoverAfterDrain, CallStep, Enqueue,
         BackpressureOver, BackpressureTimeout, AddLands, AddRefused, CountPending, AddUnanswered
<1> QED
  BY <1>1, <1>2, <1>3, <1>4, <1>5, <1>6, <1>7

\* A worker's take, commit, rollback and return keep the inductive invariant, and
\* so does BullMQ's handling of stalled jobs.
LEMMA WorkerStepIInv ==
  ASSUME IInv, NEW i \in Instance, NEW b \in Batch, WorkerStep(i, b)
  PROVE  IInv'
<1> USE DEF IInv
<1>1. TypeOK'
  BY WorkerStepTypeOK
<1>2. JobFollowsCall'
  BY DEF TypeOK, JobFollowsCall, WorkerStep, Take, Save, SaveFails, Complete,
         StalledRequeued, StalledTooOften, Orphaned
<1>3. HeldWhileProcessed'
  BY ConstantsAssumption
     DEF TypeOK, HeldWhileProcessed, WorkerStep, Take, Save, SaveFails, Complete,
         StalledRequeued, StalledTooOften
<1>4. CommitLeft'
  BY DEF TypeOK, CommitLeft, WorkerStep, Take, Save, SaveFails, Complete,
         StalledRequeued, StalledTooOften
<1>5. RowsKeepTheirDocument'
  BY DEF TypeOK, RowsKeepTheirDocument, DocumentWritten, WorkerStep, Take, Save, SaveFails,
         Complete, StalledRequeued, StalledTooOften
<1>6. NoEnqueueDuringDrain'
  BY DEF Drained, NoEnqueueDuringDrain, WorkerStep, Take, Save, SaveFails, Complete,
         StalledRequeued, StalledTooOften
<1>7. NoLeftoverAfterDrain'
  BY DEF TypeOK, Drained, NoLeftoverAfterDrain, WorkerStep, Take, Save, SaveFails, Complete,
         StalledRequeued, StalledTooOften
<1> QED
  BY <1>1, <1>2, <1>3, <1>4, <1>5, <1>6, <1>7

\* The end of the process keeps the inductive invariant.
LEMMA CrashIInv == IInv /\ Crash => IInv'
<1> SUFFICES ASSUME IInv, Crash PROVE IInv'
  OBVIOUS
<1> USE DEF IInv
<1>1. TypeOK'
  BY CrashTypeOK
<1>2. (JobFollowsCall /\ HeldWhileProcessed /\ CommitLeft /\ RowsKeepTheirDocument)'
  BY DEF TypeOK, JobFollowsCall, HeldWhileProcessed, CommitLeft, RowsKeepTheirDocument, Crash
<1>3. (NoEnqueueDuringDrain /\ NoLeftoverAfterDrain)'
  BY OwnerInInstance
     DEF TypeOK, Drained, NoEnqueueDuringDrain, NoLeftoverAfterDrain, Crash
<1> QED
  BY <1>1, <1>2, <1>3

\* A stutter keeps the inductive invariant.
LEMMA StutterIInv == IInv /\ UNCHANGED vars => IInv'
BY DEF IInv, TypeOK, JobFollowsCall, HeldWhileProcessed, CommitLeft, RowsKeepTheirDocument,
       NoEnqueueDuringDrain, NoLeftoverAfterDrain, Drained, vars

\* The inductive invariant is inductive.
LEMMA NextIInv == IInv /\ [Next]_vars => IInv'
BY InstanceStepIInv, CallStepIInv, WorkerStepIInv, CrashIInv, StutterIInv DEF Next

\* The inductive invariant holds in every behaviour of the persistence queue: the
\* states of calls, jobs, holders and commits always fit together.
THEOREM Invariance == Spec => []IInv
BY InitIInv, NextIInv, PTL DEF Spec

\* However workers, drains and crashes interleave, the rows of a batch are
\* committed at most once per delivery of its job.
THEOREM SavedOnce == Spec => []SavedOncePerDelivery
<1>1. IInv => SavedOncePerDelivery
  BY DEF IInv, CommitLeft, SavedOncePerDelivery
<1> QED
  BY <1>1, Invariance, PTL

\* Rows are always written under the document of the file that enqueued them,
\* whichever instance's worker writes them.
THEOREM DocumentKept == Spec => []RowsKeepTheirDocument
<1>1. IInv => RowsKeepTheirDocument
  BY DEF IInv
<1> QED
  BY <1>1, Invariance, PTL

\* A file whose enqueues are awaited leaves no batch waiting after its drain().
THEOREM NothingLeftOver == Spec => []NoLeftoverAfterDrain
<1>1. IInv => NoLeftoverAfterDrain
  BY DEF IInv
<1> QED
  BY <1>1, Invariance, PTL

-----------------------------------------------------------------------------
(* The counters.                                                           *)

\* As many marks as an instance has counts are finitely many, over all instances.
LEMMA MarksFinite ==
  ASSUME NEW n \in [Instance -> Nat]
  PROVE  IsFiniteSet(UNION {{i} \X (1 .. n[i]) : i \in Instance})
<1> DEFINE S == {{i} \X (1 .. n[i]) : i \in Instance}
           f == [i \in Instance |-> {i} \X (1 .. n[i])]
<1>1. ASSUME NEW i \in Instance PROVE IsFiniteSet({i} \X (1 .. n[i]))
  <2>1. 1 \in Int /\ n[i] \in Int
    OBVIOUS
  <2>2. IsFiniteSet(1 .. n[i])
    BY <2>1, FS_Interval
  <2>3. IsFiniteSet({i})
    BY FS_Singleton
  <2> QED
    BY <2>2, <2>3, FS_Product
<1>2. f \in Surjection(Instance, S)
  BY DEF Surjection
<1>3. IsFiniteSet(S)
  BY <1>2, FS_Surjection, ConstantsAssumption
<1> QED
  BY <1>1, <1>3, FS_UNION

\* Batches and counts are finitely many.
LEMMA CountedFinite ==
  ASSUME TypeOK
  PROVE  IsFiniteSet(Pending) /\ IsFiniteSet(Unfinished) /\ IsFiniteSet(Uncounted)
<1>1. IsFiniteSet(Pending)
  BY MarksFinite DEF TypeOK, Pending
<1>2. IsFiniteSet(Batch)
  BY MarksFinite, ConstantsAssumption DEF Batch
<1> QED
  BY <1>1, <1>2, FS_Subset DEF Unfinished, Uncounted

\* So their cardinalities are numbers.
LEMMA CountedNat ==
  ASSUME TypeOK
  PROVE  /\ Cardinality(Pending) \in Nat
         /\ Cardinality(Unfinished) \in Nat
         /\ Cardinality(Uncounted) \in Nat
BY CountedFinite, FS_CardinalityType

\* An increment adds one mark.
LEMMA CountUp ==
  ASSUME TypeOK, NEW i \in Instance, pendingCount' = [pendingCount EXCEPT ![i] = @ + 1]
  PROVE  Cardinality(Pending') = Cardinality(Pending) + 1
<1> DEFINE mark == <<i, pendingCount[i] + 1>>
<1>1. Pending' = Pending \union {mark} /\ mark \notin Pending
  BY DEF TypeOK, Pending
<1> QED
  BY <1>1, CountedFinite, FS_AddElement

\* A decrement takes at most one.
LEMMA CountDown ==
  ASSUME TypeOK, NEW i \in Instance, pendingCount' = [pendingCount EXCEPT ![i] = Decrement(@)]
  PROVE  Cardinality(Pending') >= Cardinality(Pending) - 1
<1> DEFINE mark == <<i, pendingCount[i]>>
<1>1. Pending' = Pending \ {mark}
  BY DEF TypeOK, Pending, Decrement
<1>2. Cardinality(Pending) \in Nat
  BY CountedNat
<1>3. CASE mark \in Pending
  <2>1. Cardinality(Pending \ {mark}) = Cardinality(Pending) - 1
    BY <1>3, CountedFinite, FS_RemoveElement
  <2> QED
    BY <1>1, <1>2, <2>1
<1>4. CASE mark \notin Pending
  <2>1. Pending' = Pending
    BY <1>1, <1>4
  <2>2. Cardinality(Pending') = Cardinality(Pending)
    BY <2>1
  <2> QED
    BY <1>2, <2>2
<1> QED
  BY <1>3, <1>4

\* What the counters have to cover does not grow while they and the uncounted
\* batches do not shrink: the cover is kept.
LEMMA CoverKept ==
  ASSUME TypeOK, TypeOK',
         Cardinality(Unfinished) <= Cardinality(Pending) + Cardinality(Uncounted),
         pendingCount' = pendingCount,
         Unfinished' \subseteq Unfinished, Uncounted \subseteq Uncounted'
  PROVE  Cardinality(Unfinished') <= Cardinality(Pending') + Cardinality(Uncounted')
<1>1. Pending' = Pending
  BY DEF Pending
<1>2. (IsFiniteSet(Uncounted))'
  BY CountedFinite, PTL
<1>3. Cardinality(Uncounted) <= Cardinality(Uncounted') /\ Cardinality(Uncounted') \in Nat
  BY <1>2, FS_Subset, FS_CardinalityType
<1>4. Cardinality(Unfinished') <= Cardinality(Unfinished) /\ Cardinality(Unfinished') \in Nat
  BY CountedFinite, FS_Subset, FS_CardinalityType
<1> QED
  BY <1>1, <1>3, <1>4, CountedNat

\* Before the first crash no instance is dead and no call was cut off, and a refused
\* add left nothing in Redis.
NothingLostYet ==
  /\ \A b \in Batch : call[b] = "refused" => job[b] = "none"
  /\ crashes = 0 => /\ \A i \in Instance : phase[i] # "dead"
                    /\ \A b \in Batch : call[b] # "cut"

\* A freshly constructed queue has lost nothing.
LEMMA InitNothingLostYet == Init => NothingLostYet
BY DEF Init, NothingLostYet

\* Only a crash loses anything.
LEMMA NextNothingLostYet == IInv /\ NothingLostYet /\ [Next]_vars => NothingLostYet'
<1> SUFFICES ASSUME IInv, NothingLostYet, [Next]_vars PROVE NothingLostYet'
  OBVIOUS
<1> USE DEF IInv, TypeOK, NothingLostYet
<1>1. ASSUME NEW i \in Instance, InstanceStep(i) PROVE NothingLostYet'
  BY <1>1 DEF InstanceStep, Initialize, DrainStart, DrainLands, WaitDone, WaitTimeout,
              WorkerClosed
<1>2. ASSUME NEW b \in Batch, CallStep(b) PROVE NothingLostYet'
  BY <1>2 DEF JobFollowsCall, CallStep, Enqueue, BackpressureOver, BackpressureTimeout,
              AddLands, AddRefused, CountPending, AddUnanswered
<1>3. ASSUME NEW i \in Instance, NEW b \in Batch, WorkerStep(i, b) PROVE NothingLostYet'
  BY <1>3 DEF WorkerStep, Take, Save, SaveFails, Complete, StalledRequeued, StalledTooOften,
              Orphaned
<1>4. CASE Crash
  BY <1>4 DEF Crash
<1>5. CASE UNCHANGED vars
  BY <1>5 DEF vars
<1> QED
  BY <1>1, <1>2, <1>3, <1>4, <1>5 DEF Next

\* The steps of an instance keep the cover: drain() only removes batches, and once
\* waitForCompletion() has ended nothing is claimed.
LEMMA InstanceStepCover ==
  ASSUME IInv, CountersCoverUnfinished, NEW i \in Instance, InstanceStep(i)
  PROVE  CountersCoverUnfinished'
<1> SUFFICES ASSUME (crashes = 0 /\ \A j \in Instance : phase[j] \notin {"closing", "closed"})'
             PROVE  Cardinality(Unfinished') <= Cardinality(Pending') + Cardinality(Uncounted')
  BY DEF CountersCoverUnfinished
<1>1. Initialize(i) \/ DrainStart(i) \/ DrainLands(i)
  BY DEF IInv, TypeOK, InstanceStep, WaitDone, WaitTimeout, WorkerClosed
<1>2. crashes = 0 /\ \A j \in Instance : phase[j] \notin {"closing", "closed"}
  BY <1>1 DEF IInv, TypeOK, Initialize, DrainStart, DrainLands
<1>3. Unfinished' \subseteq Unfinished /\ Uncounted \subseteq Uncounted'
  BY <1>1 DEF IInv, TypeOK, Unfinished, Uncounted, Live, Initialize, DrainStart, DrainLands
<1>4. pendingCount' = pendingCount
  BY <1>1 DEF Initialize, DrainStart, DrainLands
<1>5. TypeOK /\ TypeOK'
  BY InstanceStepTypeOK DEF IInv
<1> QED
  BY <1>2, <1>3, <1>4, <1>5, CoverKept DEF CountersCoverUnfinished

\* The increment covers a batch that is still unfinished; for one that was finished
\* before it was counted, the increment makes up for its leaving uncounted.
LEMMA CountPendingCover ==
  ASSUME TypeOK, TypeOK', NEW b \in Batch, CountPending(b),
         Cardinality(Unfinished) <= Cardinality(Pending) + Cardinality(Uncounted)
  PROVE  Cardinality(Unfinished') <= Cardinality(Pending') + Cardinality(Uncounted')
<1>1. Cardinality(Pending') = Cardinality(Pending) + 1
  BY CountUp, OwnerInInstance DEF CountPending
<1>2. CASE Live(b)
  <2>1. Unfinished' = Unfinished \union {b} /\ b \notin Unfinished /\ Uncounted' = Uncounted
    BY <1>2 DEF TypeOK, Unfinished, Uncounted, Live, CountPending
  <2>2. Cardinality(Unfinished') = Cardinality(Unfinished) + 1
    BY <2>1, CountedFinite, FS_AddElement
  <2> QED
    BY <1>1, <2>1, <2>2, CountedNat
<1>3. CASE ~ Live(b)
  <2>1. Unfinished' = Unfinished /\ Uncounted' = Uncounted \ {b} /\ b \in Uncounted
    BY <1>3 DEF TypeOK, Unfinished, Uncounted, Live, CountPending
  <2>2. Cardinality(Uncounted') = Cardinality(Uncounted) - 1
    BY <2>1, CountedFinite, FS_RemoveElement
  <2> QED
    BY <1>1, <2>1, <2>2, CountedNat
<1> QED
  BY <1>2, <1>3

\* The steps of an enqueue() call keep the cover.
LEMMA CallStepCover ==
  ASSUME IInv, CountersCoverUnfinished, NEW b \in Batch, CallStep(b)
  PROVE  CountersCoverUnfinished'
<1> SUFFICES ASSUME (crashes = 0 /\ \A j \in Instance : phase[j] \notin {"closing", "closed"})'
             PROVE  Cardinality(Unfinished') <= Cardinality(Pending') + Cardinality(Uncounted')
  BY DEF CountersCoverUnfinished
<1>1. Cardinality(Unfinished) <= Cardinality(Pending) + Cardinality(Uncounted)
  BY DEF CountersCoverUnfinished, CallStep, Enqueue, BackpressureOver, BackpressureTimeout,
         AddLands, AddRefused, CountPending, AddUnanswered
<1>2. TypeOK /\ TypeOK'
  BY CallStepTypeOK DEF IInv
<1>3. CASE CountPending(b)
  BY <1>1, <1>2, <1>3, CountPendingCover
<1>4. CASE ~ CountPending(b)
  <2>1. Unfinished' = Unfinished /\ Uncounted' = Uncounted
    BY <1>4 DEF IInv, TypeOK, Unfinished, Uncounted, Live, CallStep, Enqueue,
                BackpressureOver, BackpressureTimeout, AddLands, AddRefused, AddUnanswered
  <2>2. pendingCount' = pendingCount
    BY <1>4 DEF CallStep, Enqueue, BackpressureOver, BackpressureTimeout, AddLands, AddRefused, AddUnanswered
  <2> QED
    BY <1>1, <1>2, <2>1, <2>2, CoverKept
<1> QED
  BY <1>3, <1>4

\* Whichever instance's counter falls when a batch is finished: the batch either was
\* covered, or becomes one that left the queue uncounted.
LEMMA CompleteCover ==
  ASSUME IInv, NothingLostYet, crashes = 0, NEW i \in Instance, NEW b \in Batch, Complete(i, b),
         Cardinality(Unfinished) <= Cardinality(Pending) + Cardinality(Uncounted)
  PROVE  Cardinality(Unfinished') <= Cardinality(Pending') + Cardinality(Uncounted')
<1> USE DEF IInv
<1>1. Cardinality(Pending') >= Cardinality(Pending) - 1 /\ Cardinality(Pending') \in Nat
  <2>1. TypeOK'
    BY WorkerStepTypeOK DEF WorkerStep
  <2>2. (Cardinality(Pending) \in Nat)'
    BY <2>1, CountedNat, PTL
  <2> QED
    BY <2>2, CountDown DEF Complete
<1>2. call[b] \in {"added", "unanswered", "done"}
  BY DEF TypeOK, Calls, JobFollowsCall, NothingLostYet, Complete
<1>3. CASE call[b] = "done"
  <2>1. Unfinished' = Unfinished \ {b} /\ b \in Unfinished /\ Uncounted' = Uncounted
    BY <1>3 DEF TypeOK, Unfinished, Uncounted, Live, Complete
  <2>2. Cardinality(Unfinished') = Cardinality(Unfinished) - 1
    BY <2>1, CountedFinite, FS_RemoveElement
  <2> QED
    BY <1>1, <2>1, <2>2, CountedNat
<1>4. CASE call[b] \in {"added", "unanswered"}
  <2>1. Unfinished' = Unfinished /\ Uncounted' = Uncounted \union {b} /\ b \notin Uncounted
    BY <1>4 DEF TypeOK, Unfinished, Uncounted, Live, Complete
  <2>2. Cardinality(Uncounted') = Cardinality(Uncounted) + 1
    BY <2>1, CountedFinite, FS_AddElement
  <2> QED
    BY <1>1, <2>1, <2>2, CountedNat
<1> QED
  BY <1>2, <1>3, <1>4

\* The steps of a worker keep the cover; no job is stalled before the first crash.
LEMMA WorkerStepCover ==
  ASSUME IInv, NothingLostYet, CountersCoverUnfinished, NEW i \in Instance, NEW b \in Batch,
         WorkerStep(i, b)
  PROVE  CountersCoverUnfinished'
<1> SUFFICES ASSUME (crashes = 0 /\ \A j \in Instance : phase[j] \notin {"closing", "closed"})'
             PROVE  Cardinality(Unfinished') <= Cardinality(Pending') + Cardinality(Uncounted')
  BY DEF CountersCoverUnfinished
<1>1. crashes = 0 /\ \A j \in Instance : phase[j] \notin {"closing", "closed"}
  BY DEF WorkerStep, Take, Save, SaveFails, Complete, StalledRequeued, StalledTooOften
<1>2. Cardinality(Unfinished) <= Cardinality(Pending) + Cardinality(Uncounted)
  BY <1>1 DEF CountersCoverUnfinished
<1>3. ~ Orphaned(b)
  BY <1>1 DEF IInv, HeldWhileProcessed, NothingLostYet, Orphaned
<1>4. CASE Complete(i, b)
  BY <1>1, <1>2, <1>4, CompleteCover
<1>5. CASE Take(i, b) \/ Save(i, b) \/ SaveFails(i, b)
  <2>1. Unfinished' = Unfinished /\ Uncounted' = Uncounted
    BY <1>5 DEF IInv, TypeOK, Unfinished, Uncounted, Live, Take, Save, SaveFails
  <2>2. pendingCount' = pendingCount
    BY <1>5 DEF Take, Save, SaveFails
  <2>3. TypeOK /\ TypeOK'
    BY WorkerStepTypeOK DEF IInv
  <2> QED
    BY <1>2, <2>1, <2>2, <2>3, CoverKept
<1> QED
  BY <1>3, <1>4, <1>5 DEF WorkerStep, StalledRequeued, StalledTooOften

\* The cover is kept by every step and every stutter.
LEMMA NextCover ==
  IInv /\ NothingLostYet /\ CountersCoverUnfinished /\ [Next]_vars => CountersCoverUnfinished'
<1> SUFFICES ASSUME IInv, NothingLostYet, CountersCoverUnfinished, [Next]_vars
             PROVE  CountersCoverUnfinished'
  OBVIOUS
<1>1. CASE Crash
  <2>1. crashes' # 0
    BY <1>1 DEF IInv, TypeOK, Crash
  <2> QED
    BY <2>1 DEF CountersCoverUnfinished
<1>2. CASE UNCHANGED vars
  BY <1>2 DEF vars, CountersCoverUnfinished, Unfinished, Uncounted, Pending, Live
<1> QED
  BY <1>1, <1>2, InstanceStepCover, CallStepCover, WorkerStepCover DEF Next

\* A fresh queue has nothing to cover.
LEMMA InitCover == Init => CountersCoverUnfinished
<1> SUFFICES ASSUME Init PROVE CountersCoverUnfinished
  OBVIOUS
<1>1. Unfinished = {}
  BY DEF Init, Unfinished
<1>2. Cardinality(Unfinished) = 0
  BY <1>1, FS_EmptySet
<1> QED
  BY <1>2, InitTypeOK, CountedNat DEF CountersCoverUnfinished

\* Although a batch is counted by one instance and discounted by another, or counted
\* by none, the counters together miss at most one counted and unfinished batch for
\* every batch that left the queue uncounted, until the first instance leaves
\* waitForCompletion() or the process dies.
THEOREM CountersCover == Spec => []CountersCoverUnfinished
BY InitNothingLostYet, InitCover, NextNothingLostYet, NextCover, Invariance, PTL DEF Spec

-----------------------------------------------------------------------------
(* Refinement: every step of the queue is a step of BatchDelivery or leaves *)
(* its variables alone.                                                    *)

\* A freshly constructed queue is an initial state of BatchDelivery.
LEMMA InitRefines == Init => Delivery!Init
BY DEF Init, Delivery!Init

\* The add to Redis is BatchDelivery's acceptance of the batch.
LEMMA AddLandsRefines ==
  ASSUME IInv, NEW b \in Batch, AddLands(b)
  PROVE  Delivery!Accept(b)
<1>1. job[b] = "none" /\ phase[Owner(b)] # "closed"
  BY DEF IInv, JobFollowsCall, AddLands
<1>2. {c \in Batch : job[c] # "none"}' = {c \in Batch : job[c] # "none"} \union {b}
  BY DEF IInv, TypeOK, AddLands
<1> QED
  BY <1>1, <1>2 DEF Delivery!Accept, AddLands

\* The commit of a batch is BatchDelivery's Store.
LEMMA SaveRefines ==
  ASSUME IInv, NEW i \in Instance, NEW b \in Batch, Save(i, b)
  PROVE  Delivery!Store(b)
<1>1. saves[b] <= stalls[b]
  BY DEF IInv, CommitLeft, Save
<1>2. savedAs' = [savedAs EXCEPT ![b] = {DocumentOf[Owner(b)]}]
  BY DEF IInv, RowsKeepTheirDocument, DocumentWritten, Save
<1>3. {c \in Batch : job[c] # "none"}' = {c \in Batch : job[c] # "none"}
  BY DEF IInv, TypeOK, Save
<1> QED
  BY <1>1, <1>2, <1>3 DEF Delivery!Store, Save

\* BullMQ's return of a stalled job to the queue is BatchDelivery's Redeliver.
LEMMA StalledRequeuedRefines ==
  ASSUME IInv, NEW i \in Instance, NEW b \in Batch, StalledRequeued(i, b)
  PROVE  Delivery!Redeliver(b)
<1>1. {c \in Batch : job[c] # "none"}' = {c \in Batch : job[c] # "none"}
  BY DEF IInv, TypeOK, StalledRequeued, Orphaned
<1> QED
  BY <1>1 DEF Delivery!Redeliver, StalledRequeued, Orphaned

\* The end of drain() is BatchDelivery's end of the file.
LEMMA WorkerClosedRefines ==
  ASSUME IInv, NEW i \in Instance, WorkerClosed(i)
  PROVE  Delivery!Finish(i)
<1>1. {j \in Instance : phase[j] = "closed"}' = {j \in Instance : phase[j] = "closed"} \union {i}
  BY DEF IInv, TypeOK, WorkerClosed
<1> QED
  BY <1>1 DEF Delivery!Finish, WorkerClosed

\* The batches in Redis and the finished files are the same after the step.
SameBatchesAndFiles ==
  /\ {b \in Batch : job[b] # "none"}' = {b \in Batch : job[b] # "none"}
  /\ {i \in Instance : phase[i] = "closed"}' = {i \in Instance : phase[i] = "closed"}
  /\ UNCHANGED <<stalls, saves, savedAs>>

\* Every step of an instance is one of BatchDelivery or a stutter of it.
LEMMA InstanceStepRefines ==
  ASSUME IInv, NEW i \in Instance, InstanceStep(i)
  PROVE  [Delivery!Next]_Delivery!vars
<1>1. CASE WorkerClosed(i)
  BY <1>1, WorkerClosedRefines DEF Delivery!Next
<1>2. CASE Initialize(i) \/ DrainStart(i) \/ DrainLands(i) \/ WaitDone(i) \/ WaitTimeout(i)
  <2>1. SameBatchesAndFiles
    BY <1>2 DEF SameBatchesAndFiles, IInv, TypeOK, Initialize, DrainStart, DrainLands,
                WaitDone, WaitTimeout
  <2> QED
    BY <2>1 DEF SameBatchesAndFiles, Delivery!vars
<1> QED
  BY <1>1, <1>2 DEF InstanceStep

\* Every step of an enqueue() call is one of BatchDelivery or a stutter of it.
LEMMA CallStepRefines ==
  ASSUME IInv, NEW b \in Batch, CallStep(b)
  PROVE  [Delivery!Next]_Delivery!vars
<1>1. CASE AddLands(b)
  BY <1>1, AddLandsRefines DEF Delivery!Next
<1>2. CASE Enqueue(b) \/ BackpressureOver(b) \/ BackpressureTimeout(b) \/ AddRefused(b)
           \/ CountPending(b) \/ AddUnanswered(b)
  <2>1. SameBatchesAndFiles
    BY <1>2 DEF SameBatchesAndFiles, Enqueue, BackpressureOver, BackpressureTimeout,
                AddRefused, CountPending, AddUnanswered
  <2> QED
    BY <2>1 DEF SameBatchesAndFiles, Delivery!vars
<1> QED
  BY <1>1, <1>2 DEF CallStep

\* Every step of a worker is one of BatchDelivery or a stutter of it.
LEMMA WorkerStepRefines ==
  ASSUME IInv, NEW i \in Instance, NEW b \in Batch, WorkerStep(i, b)
  PROVE  [Delivery!Next]_Delivery!vars
<1>1. CASE Save(i, b)
  BY <1>1, SaveRefines DEF Delivery!Next
<1>2. CASE StalledRequeued(i, b)
  BY <1>2, StalledRequeuedRefines DEF Delivery!Next
<1>3. CASE Take(i, b) \/ SaveFails(i, b) \/ Complete(i, b) \/ StalledTooOften(i, b)
  <2>1. SameBatchesAndFiles
    BY <1>3 DEF SameBatchesAndFiles, IInv, TypeOK, Take, SaveFails, Complete,
                StalledTooOften, Orphaned
  <2> QED
    BY <2>1 DEF SameBatchesAndFiles, Delivery!vars
<1> QED
  BY <1>1, <1>2, <1>3 DEF WorkerStep

\* The end of the process changes nothing BatchDelivery sees.
LEMMA CrashRefines ==
  ASSUME IInv, Crash
  PROVE  [Delivery!Next]_Delivery!vars
<1>1. SameBatchesAndFiles
  BY DEF SameBatchesAndFiles, IInv, TypeOK, Crash
<1> QED
  BY <1>1 DEF SameBatchesAndFiles, Delivery!vars

\* Every step of the queue is a step of BatchDelivery or leaves its variables alone.
LEMMA NextRefines == IInv /\ [Next]_vars => [Delivery!Next]_Delivery!vars
<1> SUFFICES ASSUME IInv, [Next]_vars PROVE [Delivery!Next]_Delivery!vars
  OBVIOUS
<1>1. CASE Next
  BY <1>1, InstanceStepRefines, CallStepRefines, WorkerStepRefines, CrashRefines DEF Next
<1>2. CASE UNCHANGED vars
  BY <1>2 DEF vars, Delivery!vars
<1> QED
  BY <1>1, <1>2

\* The persistence queue, with its shared Redis queue, its counters and crashes,
\* implements BatchDelivery.
THEOREM Refinement == Spec => ImplementsDelivery
BY InitRefines, NextRefines, Invariance, PTL DEF Spec, ImplementsDelivery, Delivery!Spec
=============================================================================
