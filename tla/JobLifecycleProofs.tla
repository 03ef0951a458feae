-------------------------- MODULE JobLifecycleProofs --------------------------
(***************************************************************************)
(* Proofs about JobLifecycle, for every set of jobs and requests, every    *)
(* number of attempts, slots, crashes and deletions.                       *)
(***************************************************************************)
EXTENDS JobLifecycle, FiniteSetTheorems, TLAPS

-----------------------------------------------------------------------------
(* The invariant.                                                          *)

\* Where the dispatch of a request stands, and what that says of each of its files.
DispatchSoFar(r) ==
  /\ request[r].step = "new" => request[r].file = 1
  /\ request[r].step \in {"document", "row", "enqueue"} => request[r].file \in DOMAIN FilesOf[r]
  /\ \A n \in DOMAIN FilesOf[r] : LET j == FilesOf[r][n] IN
       /\ n < request[r].file \/ request[r].step = "ok" => bull[j] # "none"
       /\ n > request[r].file => bull[j] = "none" /\ status[j] = "none" /\ docsMade[j] = 0
       /\ n = request[r].file /\ request[r].step \in {"new", "document", "row", "enqueue"} =>
            /\ bull[j] = "none"
            /\ status[j] = "none" <=> request[r].step # "enqueue"
            /\ request[r].step \in {"new", "document"} => docsMade[j] = 0

\* A job is in BullMQ only when it has its row, in the hands of the worker only while it is
\* active, and written by a listener only when BullMQ has moved it.
InOrder(j) ==
  /\ bull[j] # "none" => status[j] # "none"
  /\ pc[j] # "idle" => bull[j] = "active"
  /\ okWrites[j] > 0 => bull[j] = "completed"
  /\ failWrites[j] > 0 => bull[j] # "none"
  /\ status[j] = "completed" => bull[j] = "completed"

Beyond == {"handing", "schema", "returned"}

\* What a job's documents are: one at most until its row points to it; and later, besides
\* the row's, no more than attempts can have left behind.  Between looking up the row and
\* linking a document the row points to none.
StraysSoFar(j) ==
  /\ status[j] = "none" => \A d \in documents : d[1] = j => d = <<j, 0>>
  /\ status[j] # "none" /\ bull[j] = "none" => Strays(j) = {}
  /\ pc[j] \in {"create", "link"} => rowDoc[j] = NoDoc
  /\ bull[j] # "none" =>
       Cardinality(Strays(j)) <= attemptsMade[j] + stalls[j]
         + (IF bull[j] = "failed" \/ (bull[j] = "active" /\ pc[j] \in {"link", "idle"})
            THEN 1 ELSE 0)

\* How often rows were handed over, by what can have made them be.
AttemptsSoFar(j) ==
  extractions[j] <= attemptsMade[j] + stalls[j]
    + (IF \/ bull[j] \in {"completed", "failed"}
          \/ bull[j] = "active" /\ pc[j] \in Beyond \union {"idle"} THEN 1 ELSE 0)

\* processJob's document is one of its own job, and the one the row is linked to unless it
\* was deleted.
Linked(j) ==
  /\ {docVar[j], rowDoc[j]} \subseteq ({j} \X Nat) \union {NoDoc}
  /\ pc[j] \in Beyond \union {"extract"} /\ docVar[j] \in documents => rowDoc[j] = docVar[j]

JInv ==
  /\ TypeOK
  /\ \A r \in Request : DispatchSoFar(r)
  /\ \A j \in Job : InOrder(j) /\ AttemptsSoFar(j) /\ Linked(j)

\* The file a dispatch stands at is a job.
LEMMA CurrentJob ==
  ASSUME NEW r \in Request, DispatchSoFar(r),
         request[r].step \in {"document", "row", "enqueue"}
  PROVE  Current(r) \in Job /\ request[r].file \in DOMAIN FilesOf[r]
BY ConstantsAssumption DEF DispatchSoFar, Current

-----------------------------------------------------------------------------
(* Type correctness.                                                       *)

\* The initial state has the types.
LEMMA InitTypeOK == Init => TypeOK
BY DEF Init, TypeOK, DispatchSteps, Statuses, BullStates, Steps

\* The steps of dispatchFiles keep the types.
LEMMA DispatchTypeOK ==
  ASSUME TypeOK, NEW r \in Request, DispatchSoFar(r), Dispatch(r)
  PROVE  TypeOK'
<1> USE DEF TypeOK, DispatchSteps, Statuses, BullStates, AtStep, GoTo,
            apiVars, dbVars, bullVars, workerVars, listenerVars, faultVars
<1>1. CASE Upload(r)
  BY <1>1 DEF Upload
<1>2. CASE DispatchDocument(r)
  BY <1>2, CurrentJob DEF DispatchDocument, Doc
<1>3. CASE DispatchRow(r)
  BY <1>3, CurrentJob DEF DispatchRow, Doc
<1>4. CASE DispatchEnqueue(r)
  <2>1. request' \in [Request -> [step : DispatchSteps, file : Nat]]
    <3>1. CASE request[r].file < Len(FilesOf[r])
      <4>1. request' = [request EXCEPT ![r] = [step |-> "document", file |-> request[r].file + 1]]
        BY <1>4, <3>1 DEF DispatchEnqueue
      <4> QED
        BY <4>1
    <3>2. CASE ~ request[r].file < Len(FilesOf[r])
      <4>1. request' = [request EXCEPT ![r] = [request[r] EXCEPT !.step = "ok"]]
        BY <1>4, <3>2 DEF DispatchEnqueue
      <4> QED
        BY <4>1
    <3> QED
      BY <3>1, <3>2
  <2> QED
    BY <1>4, <2>1, CurrentJob DEF DispatchEnqueue
<1>5. CASE DispatchUnanswered(r)
  BY <1>5, CurrentJob DEF DispatchUnanswered
<1>6. CASE DispatchFails(r)
  BY <1>6 DEF DispatchFails
<1> QED
  BY <1>1, <1>2, <1>3, <1>4, <1>5, <1>6 DEF Dispatch

\* The steps of processJob keep the types.
LEMMA ProcessTypeOK ==
  ASSUME TypeOK, NEW j \in Job, Take(j) \/ ProcessJob(j)
  PROVE  TypeOK'
<1> USE DEF TypeOK, Statuses, BullStates, Steps, Running, apiVars, dbVars, bullVars, workerVars,
            listenerVars, faultVars
<1>1. CASE Take(j)
  BY <1>1 DEF Take
<1>2. CASE MarkRunning(j) \/ LookUp(j) \/ LinkDocument(j)
  BY <1>2 DEF MarkRunning, LookUp, LinkDocument
<1>3. CASE CreateForExtraction(j)
  BY <1>3 DEF CreateForExtraction, Doc
<1>4. CASE HandOverRows(j) \/ Extracted(j) \/ UpdateSchema(j)
  BY <1>4 DEF HandOverRows, Extracted, UpdateSchema
<1>5. CASE Succeed(j)
  BY <1>5 DEF Succeed
<1>6. CASE AttemptFails(j)
  BY <1>6 DEF AttemptFails
<1> QED
  BY <1>1, <1>2, <1>3, <1>4, <1>5, <1>6 DEF ProcessJob

\* BullMQ, the listeners, the user and the process keep the types.
LEMMA OtherTypeOK ==
  ASSUME TypeOK,
         \/ \E d \in documents : DeleteDocument(d)
         \/ \E j \in Job : \/ Promote(j) \/ MarkCompleted(j) \/ SetError(j)
                           \/ StalledRequeued(j) \/ StalledTooOften(j)
         \/ Crash \/ Restart \/ UNCHANGED vars
  PROVE  TypeOK'
<1> USE DEF TypeOK, Statuses, BullStates, Steps, apiVars, dbVars, bullVars, workerVars,
            listenerVars, faultVars
<1>1. CASE \E d \in documents : DeleteDocument(d)
  BY <1>1 DEF DeleteDocument
<1>2. ASSUME NEW j \in Job, Promote(j) \/ StalledRequeued(j) \/ StalledTooOften(j)
      PROVE  TypeOK'
  <2>1. CASE Promote(j)
    BY <2>1 DEF Promote
  <2>2. CASE StalledRequeued(j)
    BY <2>2 DEF StalledRequeued
  <2>3. CASE StalledTooOften(j)
    BY <2>3 DEF StalledTooOften
  <2> QED
    BY <1>2, <2>1, <2>2, <2>3
<1>3. ASSUME NEW j \in Job, MarkCompleted(j) \/ SetError(j)
      PROVE  TypeOK'
  <2>1. CASE MarkCompleted(j)
    <3>1. okWrites[j] - 1 \in Nat
      BY <2>1 DEF MarkCompleted
    <3> QED
      BY <2>1, <3>1 DEF MarkCompleted
  <2>2. CASE SetError(j)
    <3>1. failWrites[j] - 1 \in Nat
      BY <2>2 DEF SetError
    <3> QED
      BY <2>2, <3>1 DEF SetError
  <2> QED
    BY <1>3, <2>1, <2>2
<1>4. CASE Crash
  <2>1. \A r \in Request : request'[r] \in [step : DispatchSteps, file : Nat]
    BY <1>4 DEF Crash, DispatchSteps
  <2>2. request' \in [Request -> [step : DispatchSteps, file : Nat]]
    BY <1>4, <2>1 DEF Crash
  <2>3. /\ pc' \in [Job -> Steps]
        /\ okWrites' \in [Job -> Nat] /\ failWrites' \in [Job -> Nat]
    BY <1>4 DEF Crash
  <2>4. crashes' \in Nat
    BY <1>4 DEF Crash
  <2>5. up' \in BOOLEAN
    BY <1>4, Zenon DEF Crash
  <2>6. UNCHANGED <<deletes, docVar, extractions, dbVars, bullVars>>
    BY <1>4 DEF Crash
  <2> QED
    BY <2>2, <2>3, <2>4, <2>5, <2>6
<1>5. CASE Restart \/ UNCHANGED vars
  BY <1>5 DEF Restart, vars
<1> QED
  BY <1>1, <1>2, <1>3, <1>4, <1>5

-----------------------------------------------------------------------------
(* The dispatch.                                                           *)

\* What the dispatch writes of a job.
Tables == <<bull, status, docsMade>>

\* A dispatch that takes a step leaves the files of the other requests alone.
LEMMA OtherRequests ==
  ASSUME TypeOK, NEW r \in Request, NEW s \in Request \ {r}, DispatchSoFar(s),
         request[r].file \in DOMAIN FilesOf[r], request'[s] = request[s],
         \A j \in Job \ {Current(r)} :
            bull'[j] = bull[j] /\ status'[j] = status[j] /\ docsMade'[j] = docsMade[j]
  PROVE  DispatchSoFar(s)'
<1>1. \A n \in DOMAIN FilesOf[s] : FilesOf[s][n] \in Job \ {Current(r)}
  BY ConstantsAssumption, FilesAreDistinct DEF Current
<1> QED
  BY <1>1 DEF DispatchSoFar

\* A step that creates neither a row nor a job and makes no document for a job that is not
\* in BullMQ is none of the dispatch.
Untouched(j) ==
  /\ bull'[j] = "none" <=> bull[j] = "none"
  /\ status'[j] = "none" <=> status[j] = "none"
  /\ bull[j] = "none" => docsMade'[j] = docsMade[j]

\* Such a step keeps how far a request's dispatch has come.
LEMMA DispatchFrame ==
  ASSUME NEW r \in Request, DispatchSoFar(r), request' = request, \A j \in Job : Untouched(j)
  PROVE  DispatchSoFar(r)'
<1>1. \A n \in DOMAIN FilesOf[r] : FilesOf[r][n] \in Job
  BY ConstantsAssumption
<1> QED
  BY <1>1 DEF DispatchSoFar, Untouched

\* Before the first upload nothing was dispatched or attempted.
LEMMA InitJInv == Init => JInv
<1> SUFFICES ASSUME Init PROVE JInv
  OBVIOUS
<1>1. TypeOK
  BY InitTypeOK
<1>2. ASSUME NEW r \in Request PROVE DispatchSoFar(r)
  <2>1. request[r] = [step |-> "new", file |-> 1]
    BY DEF Init
  <2>2. ASSUME NEW n \in DOMAIN FilesOf[r] PROVE FilesOf[r][n] \in Job /\ n \in Nat \ {0}
    BY ConstantsAssumption
  <2> QED
    BY <2>1, <2>2 DEF Init, DispatchSoFar
<1>3. ASSUME NEW j \in Job PROVE InOrder(j) /\ AttemptsSoFar(j) /\ Linked(j)
  BY DEF Init, InOrder, AttemptsSoFar, Linked, Beyond
<1> QED
  BY <1>1, <1>2, <1>3 DEF JInv

\* The request that is dispatched.
LEMMA OwnRequest ==
  ASSUME JInv, NEW r \in Request, Dispatch(r)
  PROVE  DispatchSoFar(r)'
<1> USE DEF AtStep, GoTo
<1>0. /\ TypeOK /\ DispatchSoFar(r)
      /\ \A n \in DOMAIN FilesOf[r] : FilesOf[r][n] \in Job /\ n \in 1 .. Len(FilesOf[r])
      /\ DOMAIN FilesOf[r] = 1 .. Len(FilesOf[r]) /\ Len(FilesOf[r]) \in Nat
  BY ConstantsAssumption DEF JInv
<1>1. CASE Upload(r)
  <2>1. request[r].file = 1 /\ 1 \in DOMAIN FilesOf[r]
    BY <1>0, <1>1 DEF DispatchSoFar, Upload
  <2>2. request'[r].file = 1 /\ request'[r].step \in {"document", "rejected"}
    BY <1>0, <1>1, <2>1 DEF TypeOK, Upload
  <2>3. UNCHANGED Tables
    BY <1>1 DEF Upload, Tables, dbVars, bullVars
  <2> QED
    BY <1>0, <1>1, <2>1, <2>2, <2>3 DEF DispatchSoFar, Upload, Tables
<1>2. CASE DispatchFails(r)
  <2>1. request'[r] = [request[r] EXCEPT !.step = "error"]
    BY <1>0, <1>2 DEF TypeOK, DispatchFails
  <2>2. UNCHANGED Tables
    BY <1>2 DEF DispatchFails, Tables, dbVars, bullVars
  <2> QED
    BY <1>0, <2>1, <2>2 DEF TypeOK, DispatchSoFar, Tables
<1>3. ASSUME DispatchDocument(r) \/ DispatchRow(r) \/ DispatchEnqueue(r) \/ DispatchUnanswered(r)
      PROVE  DispatchSoFar(r)'
  <2> DEFINE k == Current(r)
  <2>1. /\ request[r].step \in {"document", "row", "enqueue"}
        /\ request[r].file \in DOMAIN FilesOf[r] /\ k \in Job
    BY <1>0, <1>3, CurrentJob DEF DispatchDocument, DispatchRow, DispatchEnqueue, DispatchUnanswered
  <2>2. \A n \in DOMAIN FilesOf[r] : FilesOf[r][n] = k => n = request[r].file
    BY <2>1, FilesAreDistinct DEF Current
  <2>3. /\ request[r].file \in Nat /\ FilesOf[r][request[r].file] = k
        /\ bull[k] = "none" /\ (status[k] = "none" <=> request[r].step # "enqueue")
        /\ \A n \in DOMAIN FilesOf[r] :
             /\ n < request[r].file => bull[FilesOf[r][n]] # "none" /\ FilesOf[r][n] \in Job \ {k}
             /\ n > request[r].file =>
                  /\ FilesOf[r][n] \in Job \ {k}
                  /\ bull[FilesOf[r][n]] = "none" /\ status[FilesOf[r][n]] = "none"
                  /\ docsMade[FilesOf[r][n]] = 0
    BY <1>0, <2>1, <2>2 DEF TypeOK, DispatchSoFar, Current
  <2>4. CASE DispatchDocument(r)
    <3>1. /\ request'[r].step = "row" /\ request'[r].file = request[r].file
          /\ request[r].step = "document"
      BY <1>0, <2>4 DEF TypeOK, DispatchDocument
    <3>2. UNCHANGED <<bull, status>> /\ \A j \in Job \ {k} : docsMade'[j] = docsMade[j]
      BY <1>0, <2>4 DEF TypeOK, DispatchDocument, bullVars
    <3> QED
      BY <1>0, <2>1, <2>3, <3>1, <3>2 DEF DispatchSoFar
  <2>5. CASE DispatchRow(r)
    <3>1. request'[r].step = "enqueue" /\ request'[r].file = request[r].file
      BY <1>0, <2>5 DEF TypeOK, DispatchRow
    <3>2. /\ UNCHANGED <<bull, docsMade>> /\ status'[k] = "queued"
          /\ \A j \in Job \ {k} : status'[j] = status[j]
      BY <1>0, <2>1, <2>5 DEF TypeOK, DispatchRow, bullVars
    <3> QED
      BY <1>0, <2>1, <2>3, <3>1, <3>2 DEF DispatchSoFar
  <2>6. ASSUME DispatchEnqueue(r) \/ DispatchUnanswered(r) PROVE DispatchSoFar(r)'
    <3>1. /\ UNCHANGED <<status, docsMade>> /\ bull'[k] = "waiting"
          /\ \A j \in Job \ {k} : bull'[j] = bull[j]
      BY <1>0, <2>1, <2>6 DEF TypeOK, DispatchEnqueue, DispatchUnanswered, dbVars
    <3>2. request[r].step = "enqueue"
      BY <2>6 DEF DispatchEnqueue, DispatchUnanswered
    <3>3. CASE DispatchEnqueue(r) /\ request[r].file < Len(FilesOf[r])
      <4>1. request' = [request EXCEPT ![r] = [step |-> "document", file |-> request[r].file + 1]]
        BY <3>3 DEF DispatchEnqueue
      <4>2. request'[r].step = "document" /\ request'[r].file = request[r].file + 1
        BY <1>0, <4>1 DEF TypeOK
      <4>3. request'[r].file \in DOMAIN FilesOf[r]
        BY <1>0, <2>1, <2>3, <3>3, <4>2
      <4> QED
        BY <1>0, <2>1, <2>3, <3>1, <4>2, <4>3 DEF DispatchSoFar
    <3>4. CASE DispatchEnqueue(r) /\ ~ request[r].file < Len(FilesOf[r])
      <4>1. request' = [request EXCEPT ![r] = [request[r] EXCEPT !.step = "ok"]]
        BY <3>4 DEF DispatchEnqueue
      <4>2. request'[r].step = "ok" /\ request'[r].file = request[r].file
        BY <1>0, <4>1 DEF TypeOK
      <4>3. \A n \in DOMAIN FilesOf[r] : n <= request[r].file
        BY <1>0, <2>1, <2>3, <3>4
      <4> QED
        BY <1>0, <2>1, <2>3, <3>1, <4>2, <4>3 DEF DispatchSoFar
    <3>5. CASE DispatchUnanswered(r)
      <4>1. request'[r].step = "error" /\ request'[r].file = request[r].file
        BY <1>0, <3>5 DEF TypeOK, DispatchUnanswered
      <4> QED
        BY <1>0, <2>1, <2>3, <3>1, <4>1 DEF DispatchSoFar
    <3> QED
      BY <2>6, <3>3, <3>4, <3>5
  <2> QED
    BY <1>3, <2>3, <2>4, <2>5, <2>6
<1> QED
  BY <1>1, <1>2, <1>3 DEF Dispatch

\* A dispatch touches only the job of its current file, which nothing has been done for.
LEMMA DispatchJobs ==
  ASSUME JInv, NEW r \in Request, Dispatch(r), NEW j \in Job
  PROVE  (InOrder(j) /\ AttemptsSoFar(j) /\ Linked(j))'
<1> USE DEF AtStep, dbVars, bullVars, workerVars, listenerVars
<1>0. TypeOK /\ InOrder(j) /\ AttemptsSoFar(j) /\ Linked(j)
  BY DEF JInv
<1>1. CASE Upload(r) \/ DispatchFails(r)
  <2>1. UNCHANGED <<dbVars, bullVars, workerVars, listenerVars>>
    BY <1>1 DEF Upload, DispatchFails
  <2> QED
    BY <1>0, <2>1 DEF InOrder, AttemptsSoFar, Linked
<1>2. ASSUME DispatchDocument(r) \/ DispatchRow(r) \/ DispatchEnqueue(r) \/ DispatchUnanswered(r)
      PROVE  (InOrder(j) /\ AttemptsSoFar(j) /\ Linked(j))'
  <2> DEFINE k == Current(r)
  <2>1. request[r].step \in {"document", "row", "enqueue"} /\ DispatchSoFar(r)
    BY <1>2 DEF JInv, DispatchDocument, DispatchRow, DispatchEnqueue, DispatchUnanswered
  <2>2. k \in Job /\ bull[k] = "none" /\ (status[k] = "none" <=> request[r].step # "enqueue")
    <3>1. k \in Job /\ request[r].file \in DOMAIN FilesOf[r]
      BY <2>1, CurrentJob
    <3> QED
      BY <2>1, <3>1 DEF DispatchSoFar, Current
  <2>3. InOrder(k) /\ pc[k] = "idle" /\ okWrites[k] = 0 /\ failWrites[k] = 0
    BY <2>2 DEF JInv, TypeOK, InOrder
  <2>4. CASE DispatchDocument(r)
    <3>1. documents' = documents \union {<<k, docsMade[k]>>}
          /\ UNCHANGED <<status, rowDoc, bullVars, workerVars, listenerVars>>
      BY <2>4 DEF DispatchDocument
    <3>2. pc[j] # "idle" => docVar[j] # <<k, docsMade[k]>>
      <4>1. <<k, docsMade[k]>> \in Doc
        BY <1>0, <2>2 DEF TypeOK, Doc
      <4>2. <<k, docsMade[k]>> # NoDoc
        BY <4>1, ConstantsAssumption
      <4>3. pc[j] # "idle" => j # k
        BY <2>3
      <4>4. docVar[j] = NoDoc \/ \E n \in Nat : docVar[j] = <<j, n>>
        BY <1>0 DEF Linked
      <4> QED
        BY <4>2, <4>3, <4>4
    <3> QED
      BY <1>0, <3>1, <3>2 DEF InOrder, AttemptsSoFar, Linked, Beyond
  <2>5. CASE DispatchRow(r)
    <3>1. /\ status' = [status EXCEPT ![k] = "queued"]
          /\ rowDoc' = [rowDoc EXCEPT ![k] = <<k, 0>>]
          /\ UNCHANGED <<documents, bullVars, workerVars, listenerVars>>
      BY <2>5 DEF DispatchRow
    <3> QED
      BY <1>0, <2>2, <2>3, <3>1 DEF TypeOK, InOrder, AttemptsSoFar, Linked, Beyond
  <2>6. CASE DispatchEnqueue(r) \/ DispatchUnanswered(r)
    <3>1. /\ bull' = [bull EXCEPT ![k] = "waiting"] /\ status[k] # "none"
          /\ UNCHANGED <<attemptsMade, stalls, dbVars, workerVars, listenerVars>>
      BY <2>2, <2>6 DEF DispatchEnqueue, DispatchUnanswered
    <3> QED
      BY <1>0, <2>2, <2>3, <3>1 DEF TypeOK, InOrder, AttemptsSoFar, Linked, Beyond
  <2> QED
    BY <1>2, <2>4, <2>5, <2>6
<1> QED
  BY <1>1, <1>2 DEF Dispatch

\* dispatchFiles, one await at a time.
LEMMA DispatchJInv == ASSUME JInv, NEW r \in Request, Dispatch(r) PROVE JInv'
<1>1. TypeOK'
  BY DispatchTypeOK DEF JInv
<1>2. ASSUME NEW s \in Request PROVE DispatchSoFar(s)'
  <2>1. CASE s = r
    BY <2>1, OwnRequest
  <2>2. CASE s # r
    <3>1. CASE Upload(r) \/ DispatchFails(r)
      <4>1. request'[s] = request[s] /\ UNCHANGED <<bull, status, docsMade>>
        BY <2>2, <3>1 DEF JInv, TypeOK, Upload, DispatchFails, GoTo, dbVars, bullVars
      <4> QED
        BY <4>1 DEF JInv, DispatchSoFar
    <3>2. ASSUME ~ (Upload(r) \/ DispatchFails(r)) PROVE DispatchSoFar(s)'
      <4>1. request[r].step \in {"document", "row", "enqueue"}
        BY <3>2 DEF Dispatch, AtStep, DispatchDocument, DispatchRow, DispatchEnqueue,
                    DispatchUnanswered
      <4>2. Current(r) \in Job /\ request[r].file \in DOMAIN FilesOf[r]
        BY <4>1, CurrentJob DEF JInv
      <4>3. request'[s] = request[s]
        BY <2>2, <3>2 DEF JInv, TypeOK, Dispatch, GoTo, DispatchDocument, DispatchRow,
                          DispatchEnqueue, DispatchUnanswered
      <4>4. \A j \in Job \ {Current(r)} :
              bull'[j] = bull[j] /\ status'[j] = status[j] /\ docsMade'[j] = docsMade[j]
        BY <3>2, <4>2 DEF JInv, TypeOK, Dispatch, DispatchDocument, DispatchRow,
                          DispatchEnqueue, DispatchUnanswered, dbVars, bullVars
      <4> QED
        BY <2>2, <4>2, <4>3, <4>4, OtherRequests DEF JInv
    <3> QED
      BY <3>1, <3>2
  <2> QED
    BY <2>1, <2>2
<1> QED
  BY <1>1, <1>2, DispatchJobs DEF JInv

-----------------------------------------------------------------------------
(* The worker, BullMQ, the listeners.                                      *)

JobSoFar(j) == InOrder(j) /\ AttemptsSoFar(j) /\ Linked(j)

\* BullMQ gives the job to the worker, and the steps of processJob.
LEMMA ProcessJobs ==
  ASSUME JInv, NEW k \in Job, Take(k) \/ ProcessJob(k), NEW j \in Job
  PROVE  JobSoFar(j)'
<1> USE DEF JobSoFar, InOrder, AttemptsSoFar, Linked, Beyond, Running,
            dbVars, bullVars, workerVars, listenerVars
<1>0. /\ TypeOK /\ JobSoFar(j)
      /\ documents \subseteq Doc /\ docsMade \in [Job -> Nat]
      /\ bull \in [Job -> BullStates] /\ status \in [Job -> Statuses] /\ pc \in [Job -> Steps]
      /\ rowDoc \in [Job -> Doc \union {NoDoc}] /\ docVar \in [Job -> Doc \union {NoDoc}]
      /\ attemptsMade \in [Job -> Nat] /\ stalls \in [Job -> Nat] /\ extractions \in [Job -> Nat]
      /\ okWrites \in [Job -> Nat] /\ failWrites \in [Job -> Nat]
  BY DEF JInv, TypeOK
<1>1. CASE Take(k)
  BY <1>0, <1>1 DEF Take
<1>2. CASE MarkRunning(k)
  BY <1>0, <1>2 DEF MarkRunning
<1>3. CASE LookUp(k)
  BY <1>0, <1>3 DEF LookUp
<1>4. CASE CreateForExtraction(k)
  <2>1. /\ bull[k] = "active" /\ pc[k] = "create" /\ pc' = [pc EXCEPT ![k] = "link"]
        /\ documents' = documents \union {<<k, docsMade[k]>>}
        /\ docVar' = [docVar EXCEPT ![k] = <<k, docsMade[k]>>]
        /\ UNCHANGED <<status, rowDoc, extractions, bull, attemptsMade, stalls, okWrites, failWrites>>
    BY <1>4 DEF CreateForExtraction
  <2>2. docsMade[k] \in Nat /\ <<k, docsMade[k]>> \in Doc
    BY <1>0 DEF Doc
  <2>3. j # k => docVar[j] # <<k, docsMade[k]>>
    <3>1. <<k, docsMade[k]>> # NoDoc
      BY <2>2, ConstantsAssumption
    <3>2. docVar[j] = NoDoc \/ \E n \in Nat : docVar[j] = <<j, n>>
      BY <1>0
    <3> QED
      BY <3>1, <3>2
  <2>4. (InOrder(j) /\ AttemptsSoFar(j))'
    BY <1>0, <2>1
  <2>5. Linked(j)'
    <3>1. CASE j = k
      BY <1>0, <2>1, <2>2, <3>1
    <3>2. CASE j # k
      BY <1>0, <2>1, <2>3, <3>2
    <3> QED
      BY <3>1, <3>2
  <2> QED
    BY <2>4, <2>5
<1>5. CASE LinkDocument(k)
  BY <1>0, <1>5 DEF LinkDocument
<1>6. CASE HandOverRows(k)
  BY <1>0, <1>6 DEF HandOverRows
<1>7. CASE Extracted(k)
  BY <1>0, <1>7 DEF Extracted
<1>8. CASE UpdateSchema(k)
  BY <1>0, <1>8 DEF UpdateSchema
<1>9. CASE Succeed(k)
  BY <1>0, <1>9 DEF Succeed
<1>10. CASE AttemptFails(k)
  BY <1>0, <1>10 DEF AttemptFails
<1> QED
  BY <1>1, <1>2, <1>3, <1>4, <1>5, <1>6, <1>7, <1>8, <1>9, <1>10 DEF ProcessJob

\* BullMQ's moves and the listeners' writes.
LEMMA QueueJobs ==
  ASSUME JInv, NEW k \in Job, NEW j \in Job,
         Promote(k) \/ MarkCompleted(k) \/ SetError(k) \/ StalledRequeued(k) \/ StalledTooOften(k)
  PROVE  JobSoFar(j)'
<1> USE DEF JobSoFar, InOrder, AttemptsSoFar, Linked, Beyond,
            dbVars, bullVars, workerVars, listenerVars
<1>0. /\ JobSoFar(j)
      /\ bull \in [Job -> BullStates] /\ status \in [Job -> Statuses] /\ pc \in [Job -> Steps]
      /\ attemptsMade \in [Job -> Nat] /\ stalls \in [Job -> Nat] /\ extractions \in [Job -> Nat]
      /\ okWrites \in [Job -> Nat] /\ failWrites \in [Job -> Nat]
  BY DEF JInv, TypeOK
<1>1. CASE Promote(k)
  BY <1>0, <1>1 DEF Promote
<1>2. CASE MarkCompleted(k)
  BY <1>0, <1>2 DEF MarkCompleted
<1>3. CASE SetError(k)
  BY <1>0, <1>3 DEF SetError
<1>4. CASE StalledRequeued(k)
  BY <1>0, <1>4 DEF StalledRequeued, Stalled
<1>5. CASE StalledTooOften(k)
  BY <1>0, <1>5 DEF StalledTooOften, Stalled
<1> QED
  BY <1>1, <1>2, <1>3, <1>4, <1>5

\* None of these steps is one of a dispatch.
LEMMA QueueRequests ==
  ASSUME JInv, NEW k \in Job, NEW r \in Request,
         \/ Take(k) \/ ProcessJob(k)
         \/ Promote(k) \/ MarkCompleted(k) \/ SetError(k) \/ StalledRequeued(k) \/ StalledTooOften(k)
  PROVE  DispatchSoFar(r)'
<1> USE DEF dbVars, bullVars, apiVars, Running
<1>0. /\ \A j \in Job : InOrder(j)
      /\ bull \in [Job -> BullStates] /\ status \in [Job -> Statuses]
      /\ docsMade \in [Job -> Nat] /\ okWrites \in [Job -> Nat] /\ failWrites \in [Job -> Nat]
  BY DEF JInv, TypeOK
<1>1. ASSUME NEW j \in Job PROVE Untouched(j) /\ request' = request
  <2> USE DEF Untouched
  <2>1. CASE Take(k)
    BY <1>0, <2>1 DEF Take
  <2>2. CASE MarkRunning(k)
    BY <1>0, <2>2 DEF MarkRunning, InOrder
  <2>3. CASE LookUp(k) \/ LinkDocument(k) \/ HandOverRows(k) \/ Extracted(k) \/ UpdateSchema(k)
    BY <2>3 DEF LookUp, LinkDocument, HandOverRows, Extracted, UpdateSchema
  <2>4. CASE CreateForExtraction(k)
    BY <1>0, <2>4 DEF CreateForExtraction
  <2>5. CASE Succeed(k) \/ AttemptFails(k)
    BY <1>0, <2>5 DEF Succeed, AttemptFails
  <2>6. CASE Promote(k) \/ StalledRequeued(k) \/ StalledTooOften(k)
    BY <1>0, <2>6 DEF Promote, StalledRequeued, StalledTooOften, Stalled
  <2>7. CASE MarkCompleted(k) \/ SetError(k)
    BY <1>0, <2>7 DEF MarkCompleted, SetError, InOrder
  <2> QED
    BY <2>1, <2>2, <2>3, <2>4, <2>5, <2>6, <2>7 DEF ProcessJob
<1>2. DispatchSoFar(r)
  BY DEF JInv
<1> QED
  BY <1>1, <1>2, DispatchFrame

-----------------------------------------------------------------------------
(* The user and the process.                                               *)

\* The document of a running attempt may be deleted.
LEMMA DeleteJInv == ASSUME JInv, NEW d \in documents, DeleteDocument(d) PROVE JInv'
<1>1. TypeOK'
  BY OtherTypeOK DEF JInv
<1>2. UNCHANGED <<docsMade, status, bullVars, apiVars, workerVars, listenerVars>>
      /\ documents' = documents \ {d}
      /\ rowDoc' = [j \in Job |-> IF rowDoc[j] = d THEN NoDoc ELSE rowDoc[j]]
  BY DEF DeleteDocument
<1>3. ASSUME NEW r \in Request PROVE DispatchSoFar(r)'
  BY <1>2 DEF JInv, DispatchSoFar, apiVars, bullVars
<1>4. ASSUME NEW j \in Job PROVE JobSoFar(j)'
  <2>1. InOrder(j) /\ AttemptsSoFar(j) /\ Linked(j)
    BY DEF JInv
  <2> QED
    BY <1>2, <2>1 DEF JobSoFar, InOrder, AttemptsSoFar, Linked,
                      bullVars, workerVars, listenerVars
<1> QED
  BY <1>1, <1>3, <1>4 DEF JInv, JobSoFar

\* With the process die its requests, its attempts and the listeners' writes.
LEMMA CrashJInv == ASSUME JInv, Crash PROVE JInv'
<1>1. TypeOK'
  BY OtherTypeOK DEF JInv
<1>2. /\ UNCHANGED <<docVar, extractions, dbVars, bullVars>>
      /\ pc' = [j \in Job |-> "idle"]
      /\ okWrites' = [j \in Job |-> 0] /\ failWrites' = [j \in Job |-> 0]
  BY DEF Crash
<1>3. ASSUME NEW r \in Request PROVE DispatchSoFar(r)'
  <2>1. /\ request'[r].file = request[r].file
        /\ request'[r].step = IF request[r].step \in {"document", "row", "enqueue"}
                             THEN "error" ELSE request[r].step
    BY DEF Crash, JInv, TypeOK
  <2>2. DispatchSoFar(r) /\ UNCHANGED <<bull, status, docsMade>>
    BY <1>2 DEF JInv, dbVars, bullVars
  <2> QED
    BY <2>1, <2>2 DEF DispatchSoFar
<1>4. ASSUME NEW j \in Job PROVE JobSoFar(j)'
  <2>1. InOrder(j) /\ AttemptsSoFar(j) /\ Linked(j) /\ TypeOK
    BY DEF JInv
  <2> QED
    BY <1>2, <2>1 DEF TypeOK, JobSoFar, InOrder, AttemptsSoFar, Linked, Beyond,
                      dbVars, bullVars
<1> QED
  BY <1>1, <1>3, <1>4 DEF JInv, JobSoFar

\* The process is started again; or nothing happens.
LEMMA RestartJInv == ASSUME JInv, Restart \/ UNCHANGED vars PROVE JInv'
<1>1. TypeOK'
  BY OtherTypeOK DEF JInv
<1>2. UNCHANGED <<apiVars, dbVars, bullVars, workerVars, listenerVars>>
  BY DEF Restart, vars
<1> QED
  BY <1>1, <1>2 DEF JInv, DispatchSoFar, InOrder, AttemptsSoFar, Linked,
                    apiVars, dbVars, bullVars, workerVars, listenerVars

-----------------------------------------------------------------------------
(* The theorems.                                                           *)

\* The rows of processing_jobs, BullMQ's jobs, the running attempts and the requests fit
\* together in every reachable state.
THEOREM JobInvariance == Spec => []JInv
<1>1. ASSUME JInv, [Next]_vars PROVE JInv'
  <2>1. ASSUME NEW r \in Request, Dispatch(r) PROVE JInv'
    BY <1>1, <2>1, DispatchJInv
  <2>2. ASSUME NEW d \in documents, DeleteDocument(d) PROVE JInv'
    BY <1>1, <2>2, DeleteJInv
  <2>3. ASSUME NEW j \in Job, Take(j) \/ ProcessJob(j) PROVE JInv'
    <3>1. TypeOK'
      BY <1>1, <2>3, ProcessTypeOK DEF JInv
    <3> QED
      BY <1>1, <2>3, <3>1, ProcessJobs, QueueRequests DEF JInv, JobSoFar
  <2>4. ASSUME NEW j \in Job,
               \/ Promote(j) \/ MarkCompleted(j) \/ SetError(j)
               \/ StalledRequeued(j) \/ StalledTooOften(j)
        PROVE  JInv'
    <3>1. TypeOK'
      BY <1>1, <2>4, OtherTypeOK DEF JInv
    <3> QED
      BY <1>1, <2>4, <3>1, QueueJobs, QueueRequests DEF JInv, JobSoFar
  <2>5. CASE Crash \/ Restart \/ UNCHANGED vars
    BY <1>1, <2>5, CrashJInv, RestartJInv
  <2> QED
    BY <1>1, <2>1, <2>2, <2>3, <2>4, <2>5 DEF Next
<1> QED
  BY InitJInv, <1>1, PTL DEF Spec

\* Every column and every local variable keeps its type.
THEOREM JobTypeCorrect == Spec => []TypeOK
<1>1. JInv => TypeOK
  BY DEF JInv
<1> QED
  BY JobInvariance, <1>1, PTL

\* The rows of a file are handed over at most once for each thing that may make them be.
THEOREM HandedOverOnce == Spec => []HandedOverOncePerAttempt
<1>1. JInv => HandedOverOncePerAttempt
  BY DEF JInv, TypeOK, AttemptsSoFar, HandedOverOncePerAttempt
<1> QED
  BY JobInvariance, <1>1, PTL

\* An attempt works under the document the job's row is linked to.
THEOREM UnderLinkedDocument == Spec => []ExtractsUnderLinkedDocument
<1>1. JInv => ExtractsUnderLinkedDocument
  BY DEF JInv, Linked, Beyond, ExtractsUnderLinkedDocument
<1> QED
  BY JobInvariance, <1>1, PTL

\* Files are dispatched in order, and a request that fails leaves no trace of those behind
\* the file it failed at.
THEOREM InDispatchOrder == Spec => []DispatchedInOrder
<1>1. JInv => DispatchedInOrder
  BY DEF JInv, InOrder, DispatchSoFar, DispatchedInOrder
<1> QED
  BY JobInvariance, <1>1, PTL

-----------------------------------------------------------------------------
(* The documents no job points to.                                         *)

SInv == JInv /\ IsFiniteSet(documents) /\ \A j \in Job : StraysSoFar(j)

\* What is left behind is finite, and its number a number.
LEMMA StraysFinite ==
  ASSUME IsFiniteSet(documents), NEW j
  PROVE  IsFiniteSet(Strays(j)) /\ Cardinality(Strays(j)) \in Nat
BY FS_Subset, FS_CardinalityType DEF Strays

\* No document of a job is made, linked or deleted.
LEMMA SameStrays ==
  ASSUME UNCHANGED <<documents, rowDoc>>, NEW j PROVE Strays(j)' = Strays(j)
BY DEF Strays

\* Before the first upload there is no document.
LEMMA InitSInv == Init => SInv
<1> SUFFICES ASSUME Init PROVE SInv
  OBVIOUS
<1>1. ASSUME NEW j \in Job PROVE StraysSoFar(j)
  BY DEF Init, StraysSoFar, Strays
<1> QED
  BY <1>1, InitJInv, FS_EmptySet DEF Init, SInv

\* A dispatch makes one document for the job of its current file, and links it.
LEMMA DispatchStrays ==
  ASSUME SInv, NEW r \in Request, Dispatch(r), NEW j \in Job
  PROVE  StraysSoFar(j)' /\ IsFiniteSet(documents')
<1> USE DEF AtStep, dbVars, bullVars, workerVars
<1>0. TypeOK /\ InOrder(j) /\ StraysSoFar(j) /\ IsFiniteSet(documents)
  BY DEF SInv, JInv
<1>1. CASE Upload(r) \/ DispatchFails(r)
  <2>1. UNCHANGED <<dbVars, bullVars, workerVars>>
    BY <1>1 DEF Upload, DispatchFails
  <2> QED
    BY <1>0, <2>1, SameStrays DEF StraysSoFar
<1>2. ASSUME DispatchDocument(r) \/ DispatchRow(r) \/ DispatchEnqueue(r) \/ DispatchUnanswered(r)
      PROVE  StraysSoFar(j)' /\ IsFiniteSet(documents')
  <2> DEFINE k == Current(r)
  <2>1. request[r].step \in {"document", "row", "enqueue"} /\ DispatchSoFar(r)
    BY <1>2 DEF SInv, JInv, DispatchDocument, DispatchRow, DispatchEnqueue, DispatchUnanswered
  <2>2. /\ k \in Job /\ bull[k] = "none"
        /\ status[k] = "none" <=> request[r].step # "enqueue"
        /\ request[r].step = "document" => docsMade[k] = 0
    <3>1. k \in Job /\ request[r].file \in DOMAIN FilesOf[r]
      BY <2>1, CurrentJob
    <3> QED
      BY <2>1, <3>1 DEF DispatchSoFar, Current
  <2>3. StraysSoFar(k) /\ pc[k] = "idle"
    BY <2>2 DEF SInv, JInv, InOrder
  <2>4. CASE DispatchDocument(r)
    <3>1. documents' = documents \union {<<k, 0>>}
          /\ UNCHANGED <<status, rowDoc, bullVars, workerVars>>
      BY <2>2, <2>4 DEF DispatchDocument
    <3>2. IsFiniteSet(documents')
      BY <1>0, <3>1, FS_AddElement
    <3>3. CASE j = k
      BY <2>2, <2>3, <2>4, <3>1, <3>2, <3>3 DEF StraysSoFar, DispatchDocument
    <3>4. CASE j # k
      <4>1. Strays(j)' = Strays(j)
        BY <3>1, <3>4 DEF Strays
      <4> QED
        BY <1>0, <3>1, <3>2, <3>4, <4>1 DEF StraysSoFar
    <3> QED
      BY <3>3, <3>4
  <2>5. CASE DispatchRow(r)
    <3>1. /\ status' = [status EXCEPT ![k] = "queued"]
          /\ rowDoc' = [rowDoc EXCEPT ![k] = <<k, 0>>]
          /\ UNCHANGED <<documents, bullVars, workerVars>>
      BY <2>5 DEF DispatchRow
    <3>2. CASE j = k
      <4>1. \A d \in documents : d[1] = k => d = <<k, 0>>
        BY <2>2, <2>3, <2>5 DEF StraysSoFar, DispatchRow
      <4>2. rowDoc'[k] = <<k, 0>>
        BY <1>0, <2>2, <3>1 DEF TypeOK
      <4>3. Strays(j)' = {}
        BY <3>1, <3>2, <4>1, <4>2 DEF Strays
      <4> QED
        BY <1>0, <2>2, <2>3, <3>1, <3>2, <4>3 DEF TypeOK, StraysSoFar
    <3>3. CASE j # k
      <4>1. Strays(j)' = Strays(j)
        BY <1>0, <3>1, <3>3 DEF TypeOK, Strays
      <4> QED
        BY <1>0, <3>1, <3>3, <4>1 DEF TypeOK, StraysSoFar
    <3> QED
      BY <1>0, <3>1, <3>2, <3>3
  <2>6. CASE DispatchEnqueue(r) \/ DispatchUnanswered(r)
    <3>1. /\ bull' = [bull EXCEPT ![k] = "waiting"] /\ status[k] # "none"
          /\ UNCHANGED <<attemptsMade, stalls, dbVars, workerVars>>
      BY <2>2, <2>6 DEF DispatchEnqueue, DispatchUnanswered
    <3>2. Strays(j)' = Strays(j)
      BY <3>1, SameStrays
    <3>3. Strays(k) = {} /\ Cardinality(Strays(k)) = 0
      BY <2>2, <2>3, <3>1, FS_EmptySet DEF StraysSoFar
    <3>4. attemptsMade[j] \in Nat /\ stalls[j] \in Nat
      BY <1>0 DEF TypeOK
    <3>5. CASE j = k
      <4>1. bull'[k] = "waiting" /\ status'[k] # "none" /\ pc'[k] = "idle"
        BY <1>0, <2>2, <2>3, <3>1 DEF TypeOK
      <4>2. Cardinality(Strays(j)') = 0
        BY <3>2, <3>3, <3>5
      <4> QED
        BY <1>0, <3>1, <3>4, <3>5, <4>1, <4>2 DEF StraysSoFar
    <3>6. CASE j # k
      BY <1>0, <3>1, <3>2, <3>6 DEF TypeOK, StraysSoFar
    <3> QED
      BY <3>1, <3>5, <3>6, <1>0
  <2> QED
    BY <1>2, <2>4, <2>5, <2>6
<1> QED
  BY <1>1, <1>2 DEF Dispatch

\* An attempt makes one document at most, and links it in its next step.
LEMMA ProcessStrays ==
  ASSUME SInv, NEW k \in Job, Take(k) \/ ProcessJob(k), NEW j \in Job
  PROVE  StraysSoFar(j)' /\ IsFiniteSet(documents')
<1> USE DEF Running, dbVars, bullVars
<1>0. /\ TypeOK /\ InOrder(j) /\ InOrder(k) /\ Linked(k)
      /\ StraysSoFar(j) /\ StraysSoFar(k) /\ IsFiniteSet(documents)
      /\ documents \subseteq Doc /\ docsMade \in [Job -> Nat]
      /\ bull \in [Job -> BullStates] /\ status \in [Job -> Statuses] /\ pc \in [Job -> Steps]
      /\ rowDoc \in [Job -> Doc \union {NoDoc}]
      /\ attemptsMade \in [Job -> Nat] /\ stalls \in [Job -> Nat]
      /\ Cardinality(Strays(j)) \in Nat
  BY StraysFinite DEF SInv, JInv, TypeOK
<1>1. CASE CreateForExtraction(k)
  <2> DEFINE new == <<k, docsMade[k]>>
  <2>1. /\ bull[k] = "active" /\ pc[k] = "create" /\ pc' = [pc EXCEPT ![k] = "link"]
        /\ documents' = documents \union {new}
        /\ UNCHANGED <<status, rowDoc, bull, attemptsMade, stalls>>
    BY <1>1 DEF CreateForExtraction
  <2>2. IsFiniteSet(documents')
    BY <1>0, <2>1, FS_AddElement
  <2>3. CASE j = k
    <3>1. Strays(k)' \subseteq Strays(k) \union {new}
      BY <2>1 DEF Strays
    <3>2. /\ IsFiniteSet(Strays(k)) /\ IsFiniteSet(Strays(k) \union {new})
          /\ Cardinality(Strays(k) \union {new}) <= Cardinality(Strays(k)) + 1
          /\ Cardinality(Strays(k) \union {new}) \in Nat
      <4>1. IsFiniteSet(Strays(k)) /\ Cardinality(Strays(k)) \in Nat
        BY <1>0, StraysFinite
      <4>2. /\ IsFiniteSet(Strays(k) \union {new})
            /\ Cardinality(Strays(k) \union {new}) =
                 IF new \in Strays(k) THEN Cardinality(Strays(k)) ELSE Cardinality(Strays(k)) + 1
        BY <4>1, FS_AddElement
      <4> QED
        BY <4>1, <4>2
    <3>3. Cardinality(Strays(k)') <= Cardinality(Strays(k)) + 1 /\ Cardinality(Strays(k)') \in Nat
      BY <1>0, <2>3, <3>1, <3>2, FS_Subset, FS_CardinalityType
    <3>4. status[k] # "none" /\ rowDoc[k] = NoDoc
          /\ Cardinality(Strays(k)) <= attemptsMade[k] + stalls[k]
      BY <1>0, <2>1 DEF InOrder, StraysSoFar
    <3> QED
      BY <1>0, <2>1, <2>2, <2>3, <3>3, <3>4 DEF StraysSoFar
  <2>4. CASE j # k
    <3>1. Strays(j)' = Strays(j)
      BY <2>1, <2>4 DEF Strays
    <3> QED
      BY <1>0, <2>1, <2>2, <2>4, <3>1 DEF StraysSoFar
  <2> QED
    BY <2>3, <2>4
<1>2. CASE LinkDocument(k)
  <2>1. /\ bull[k] = "active" /\ pc[k] = "link" /\ pc' = [pc EXCEPT ![k] = "extract"]
        /\ docVar[k] \in documents /\ rowDoc' = [rowDoc EXCEPT ![k] = docVar[k]]
        /\ UNCHANGED <<documents, status, bull, attemptsMade, stalls>>
    BY <1>2 DEF LinkDocument
  <2>2. CASE j = k
    <3>1. rowDoc[k] = NoDoc /\ rowDoc'[k] = docVar[k] /\ status[k] # "none"
          /\ Cardinality(Strays(k)) <= attemptsMade[k] + stalls[k] + 1
      BY <1>0, <2>1 DEF InOrder, StraysSoFar
    <3>2. docVar[k] \in {k} \X Nat /\ docVar[k] # NoDoc
      BY <1>0, <2>1, ConstantsAssumption DEF Linked
    <3>3. docVar[k] \in Strays(k) /\ Strays(k)' = Strays(k) \ {docVar[k]}
      BY <1>0, <2>1, <3>1, <3>2, ConstantsAssumption DEF Strays
    <3>4. Cardinality(Strays(k)') = Cardinality(Strays(k)) - 1
      <4>1. IsFiniteSet(Strays(k))
        BY <1>0, StraysFinite
      <4>2. Cardinality(Strays(k) \ {docVar[k]}) = Cardinality(Strays(k)) - 1
        BY <3>3, <4>1, FS_RemoveElement
      <4> QED
        BY <3>3, <4>2
    <3> QED
      BY <1>0, <2>1, <2>2, <3>1, <3>4 DEF StraysSoFar
  <2>3. CASE j # k
    <3>1. Strays(j)' = Strays(j)
      BY <1>0, <2>1, <2>3 DEF Strays
    <3> QED
      BY <1>0, <2>1, <2>3, <3>1 DEF StraysSoFar
  <2> QED
    BY <1>0, <2>1, <2>2, <2>3
<1>3. ASSUME ~ (CreateForExtraction(k) \/ LinkDocument(k))
      PROVE  StraysSoFar(j)' /\ IsFiniteSet(documents')
  <2>1. UNCHANGED <<documents, rowDoc>>
    BY <1>3 DEF Take, ProcessJob, MarkRunning, LookUp, HandOverRows, Extracted, UpdateSchema,
                Succeed, AttemptFails
  <2>2. Strays(j)' = Strays(j)
    BY <2>1, SameStrays
  <2>3. CASE Take(k)
    BY <1>0, <2>1, <2>2, <2>3 DEF StraysSoFar, Take
  <2>4. CASE MarkRunning(k)
    BY <1>0, <2>1, <2>2, <2>4 DEF InOrder, StraysSoFar, MarkRunning
  <2>5. CASE LookUp(k)
    BY <1>0, <2>1, <2>2, <2>5 DEF StraysSoFar, LookUp
  <2>6. CASE HandOverRows(k) \/ Extracted(k) \/ UpdateSchema(k)
    BY <1>0, <2>1, <2>2, <2>6 DEF StraysSoFar, HandOverRows, Extracted, UpdateSchema
  <2>7. CASE Succeed(k)
    BY <1>0, <2>1, <2>2, <2>7 DEF StraysSoFar, Succeed
  <2>8. CASE AttemptFails(k)
    BY <1>0, <2>1, <2>2, <2>8 DEF StraysSoFar, AttemptFails
  <2> QED
    BY <1>0, <1>3, <2>1, <2>3, <2>4, <2>5, <2>6, <2>7, <2>8 DEF ProcessJob
<1> QED
  BY <1>1, <1>2, <1>3

\* BullMQ and the listeners touch no document; a stall is counted when it is noticed.
LEMMA QueueStrays ==
  ASSUME SInv, NEW k \in Job, NEW j \in Job,
         Promote(k) \/ MarkCompleted(k) \/ SetError(k) \/ StalledRequeued(k) \/ StalledTooOften(k)
  PROVE  StraysSoFar(j)' /\ IsFiniteSet(documents')
<1> USE DEF dbVars, bullVars, workerVars
<1>0. /\ InOrder(j) /\ StraysSoFar(j) /\ IsFiniteSet(documents)
      /\ bull \in [Job -> BullStates] /\ status \in [Job -> Statuses] /\ pc \in [Job -> Steps]
      /\ attemptsMade \in [Job -> Nat] /\ stalls \in [Job -> Nat]
      /\ okWrites \in [Job -> Nat] /\ failWrites \in [Job -> Nat]
      /\ Cardinality(Strays(j)) \in Nat
  BY StraysFinite DEF SInv, JInv, TypeOK
<1>1. UNCHANGED <<documents, rowDoc>>
  BY DEF Promote, MarkCompleted, SetError, StalledRequeued, StalledTooOften
<1>2. Strays(j)' = Strays(j)
  BY <1>1, SameStrays
<1>3. CASE Promote(k)
  BY <1>0, <1>1, <1>2, <1>3 DEF StraysSoFar, Promote
<1>4. CASE MarkCompleted(k)
  BY <1>0, <1>1, <1>2, <1>4 DEF InOrder, StraysSoFar, MarkCompleted
<1>5. CASE SetError(k)
  BY <1>0, <1>1, <1>2, <1>5 DEF InOrder, StraysSoFar, SetError
<1>6. CASE StalledRequeued(k)
  BY <1>0, <1>1, <1>2, <1>6 DEF StraysSoFar, StalledRequeued, Stalled
<1>7. CASE StalledTooOften(k)
  BY <1>0, <1>1, <1>2, <1>7 DEF StraysSoFar, StalledTooOften, Stalled
<1> QED
  BY <1>3, <1>4, <1>5, <1>6, <1>7

\* A document that is deleted was the row's or one left behind; an attempt that dies is
\* one whose job is found stalled.
LEMMA FaultStrays ==
  ASSUME SInv, NEW j \in Job,
         (\E d \in documents : DeleteDocument(d)) \/ Crash \/ Restart \/ UNCHANGED vars
  PROVE  StraysSoFar(j)' /\ IsFiniteSet(documents')
<1> USE DEF dbVars, bullVars, workerVars
<1>0. /\ TypeOK /\ StraysSoFar(j) /\ IsFiniteSet(documents) /\ Cardinality(Strays(j)) \in Nat
      /\ attemptsMade[j] \in Nat /\ stalls[j] \in Nat
  BY StraysFinite DEF SInv, JInv, TypeOK
<1>1. ASSUME NEW d \in documents, DeleteDocument(d)
      PROVE  StraysSoFar(j)' /\ IsFiniteSet(documents')
  <2>1. /\ documents' = documents \ {d}
        /\ rowDoc'[j] = IF rowDoc[j] = d THEN NoDoc ELSE rowDoc[j]
        /\ UNCHANGED <<status, bullVars, workerVars>>
    BY <1>1 DEF DeleteDocument
  <2>2. IsFiniteSet(documents')
    BY <1>0, <2>1, FS_Subset
  <2>3. Strays(j)' \subseteq Strays(j)
    BY <2>1 DEF Strays
  <2>4. Cardinality(Strays(j)') <= Cardinality(Strays(j)) /\ Cardinality(Strays(j)') \in Nat
    BY <1>0, <2>3, StraysFinite, FS_Subset, FS_CardinalityType
  <2>5. status[j] # "none" /\ bull[j] = "none" => Strays(j)' = {}
    BY <1>0, <2>3 DEF StraysSoFar
  <2> QED
    BY <1>0, <2>1, <2>2, <2>4, <2>5 DEF StraysSoFar
<1>2. CASE Crash
  <2>1. UNCHANGED <<dbVars, bullVars>> /\ pc' = [i \in Job |-> "idle"]
    BY <1>2 DEF Crash
  <2>2. Strays(j)' = Strays(j)
    BY <2>1, SameStrays
  <2> QED
    BY <1>0, <2>1, <2>2 DEF StraysSoFar
<1>3. CASE Restart \/ UNCHANGED vars
  <2>1. UNCHANGED <<dbVars, bullVars, workerVars>>
    BY <1>3 DEF Restart, vars
  <2> QED
    BY <1>0, <2>1, SameStrays DEF StraysSoFar
<1> QED
  BY <1>1, <1>2, <1>3

\* A job leaves at most one document that it does not point to for every attempt that ended
\* between making a document and linking it, however many users delete documents and
\* however often attempts fail or the process dies.
THEOREM StraysAreBounded == Spec => []OneStrayPerAttempt
<1>1. ASSUME SInv, JInv', [Next]_vars PROVE SInv'
  <2>1. ASSUME NEW j \in Job PROVE StraysSoFar(j)' /\ IsFiniteSet(documents')
    BY <1>1, DispatchStrays, ProcessStrays, QueueStrays, FaultStrays DEF Next
  <2>2. IsFiniteSet(documents')
    <3>1. CASE Job = {}
      <4>1. documents' = {}
        BY <1>1, <3>1 DEF JInv, TypeOK, Doc
      <4> QED
        BY <4>1, FS_EmptySet
    <3>2. CASE Job # {}
      BY <2>1, <3>2
    <3> QED
      BY <3>1, <3>2
  <2> QED
    BY <1>1, <2>1, <2>2 DEF SInv
<1>2. SInv => OneStrayPerAttempt
  <2> SUFFICES ASSUME SInv, NEW j \in Job, bull[j] # "none"
               PROVE  Cardinality(Strays(j)) <= attemptsMade[j] + stalls[j]
                        + (IF bull[j] \in {"active", "failed"} THEN 1 ELSE 0)
    BY DEF OneStrayPerAttempt
  <2>1. attemptsMade[j] \in Nat /\ stalls[j] \in Nat /\ Cardinality(Strays(j)) \in Nat
    BY StraysFinite DEF SInv, JInv, TypeOK
  <2> QED
    BY <2>1 DEF SInv, StraysSoFar
<1> QED
  BY InitSInv, JobInvariance, <1>1, <1>2, PTL DEF Spec

-----------------------------------------------------------------------------
(* With listeners whose UPDATE is over before the backoff is.              *)

\* A 'failed' write is outstanding only while the job is delayed or failed for good, so that
\* it meets no later attempt; hence the row of a running attempt reads running.  Without a
\* crash every other row has been written, or is about to be, by the listener it needs.
Prompt(j) ==
  /\ failWrites[j] > 0 => bull[j] \in {"delayed", "failed"}
  /\ pc[j] \notin {"idle", "start"} => status[j] = "running"
  /\ okWrites[j] > 0 => okWrites[j] = 1 /\ status[j] = "running"
  /\ crashes = 0 =>
       /\ bull[j] = "active" => pc[j] # "idle"
       /\ bull[j] = "completed" /\ okWrites[j] = 0 => status[j] = "completed"
       /\ bull[j] \in {"delayed", "failed"} /\ failWrites[j] = 0 => status[j] = "failed"

QInv == JInv /\ \A j \in Job : Prompt(j)

\* A job nobody made yet has no status to be late with.
LEMMA InitPrompt == ASSUME Init, NEW j \in Job PROVE Prompt(j)
BY DEF Init, Prompt

\* A dispatch touches only the job of its current file, which no listener knows.
LEMMA DispatchPrompt ==
  ASSUME QInv, NEW r \in Request, Dispatch(r), NEW j \in Job
  PROVE  Prompt(j)'
<1> USE DEF Prompt, dbVars, bullVars, workerVars, listenerVars, faultVars, AtStep
<1>0. TypeOK /\ Prompt(j)
  BY DEF QInv, JInv
<1>1. CASE Upload(r) \/ DispatchFails(r)
  BY <1>0, <1>1 DEF Upload, DispatchFails
<1>2. CASE DispatchDocument(r)
  BY <1>0, <1>2 DEF DispatchDocument
<1>3. ASSUME DispatchRow(r) \/ DispatchEnqueue(r) \/ DispatchUnanswered(r) PROVE Prompt(j)'
  <2> DEFINE k == Current(r)
  <2>1. request[r].step \in {"document", "row", "enqueue"} /\ DispatchSoFar(r)
    BY <1>3 DEF QInv, JInv, DispatchRow, DispatchEnqueue, DispatchUnanswered
  <2>2. k \in Job /\ bull[k] = "none"
    <3>1. k \in Job /\ request[r].file \in DOMAIN FilesOf[r]
      BY <2>1, CurrentJob
    <3> QED
      BY <2>1, <3>1 DEF DispatchSoFar, Current
  <2>3. pc[k] = "idle" /\ okWrites[k] = 0 /\ failWrites[k] = 0
    BY <2>2 DEF QInv, JInv, TypeOK, InOrder
  <2>4. CASE DispatchRow(r)
    <3>1. status' = [status EXCEPT ![k] = "queued"]
          /\ UNCHANGED <<crashes, bullVars, workerVars, listenerVars>>
      BY <2>4 DEF DispatchRow
    <3> QED
      BY <1>0, <2>2, <2>3, <3>1 DEF TypeOK
  <2>5. CASE DispatchEnqueue(r) \/ DispatchUnanswered(r)
    <3>1. bull' = [bull EXCEPT ![k] = "waiting"]
          /\ UNCHANGED <<crashes, dbVars, workerVars, listenerVars>>
      BY <2>5 DEF DispatchEnqueue, DispatchUnanswered
    <3> QED
      BY <1>0, <2>2, <2>3, <3>1 DEF TypeOK
  <2> QED
    BY <1>3, <2>4, <2>5
<1> QED
  BY <1>1, <1>2, <1>3 DEF Dispatch

\* The worker's steps.
LEMMA ProcessPrompt ==
  ASSUME QInv, NEW k \in Job, Take(k) \/ ProcessJob(k), NEW j \in Job
  PROVE  Prompt(j)'
<1> USE DEF Prompt, InOrder, Running, dbVars, bullVars, workerVars, listenerVars, faultVars
<1>0. /\ Prompt(j) /\ InOrder(j)
      /\ bull \in [Job -> BullStates] /\ status \in [Job -> Statuses] /\ pc \in [Job -> Steps]
      /\ okWrites \in [Job -> Nat] /\ failWrites \in [Job -> Nat]
  BY DEF QInv, JInv, TypeOK
<1>1. CASE Take(k)
  BY <1>0, <1>1 DEF Take
<1>2. CASE MarkRunning(k)
  BY <1>0, <1>2 DEF MarkRunning
<1>3. CASE LookUp(k)
  BY <1>0, <1>3 DEF LookUp
<1>4. CASE CreateForExtraction(k) \/ LinkDocument(k)
  BY <1>0, <1>4 DEF CreateForExtraction, LinkDocument
<1>5. CASE HandOverRows(k) \/ Extracted(k) \/ UpdateSchema(k)
  BY <1>0, <1>5 DEF HandOverRows, Extracted, UpdateSchema
<1>6. CASE Succeed(k)
  BY <1>0, <1>6 DEF Succeed
<1>7. CASE AttemptFails(k)
  BY <1>0, <1>7 DEF AttemptFails
<1> QED
  BY <1>1, <1>2, <1>3, <1>4, <1>5, <1>6, <1>7 DEF ProcessJob

\* BullMQ's moves and the listeners' writes; a delayed job waits for its 'failed' write.
LEMMA QueuePrompt ==
  ASSUME PromptListeners, QInv, NEW k \in Job, NEW j \in Job,
         Promote(k) \/ MarkCompleted(k) \/ SetError(k) \/ StalledRequeued(k) \/ StalledTooOften(k)
  PROVE  Prompt(j)'
<1> USE DEF Prompt, InOrder, dbVars, bullVars, workerVars, listenerVars, faultVars
<1>0. /\ Prompt(j) /\ InOrder(j)
      /\ bull \in [Job -> BullStates] /\ status \in [Job -> Statuses] /\ pc \in [Job -> Steps]
      /\ okWrites \in [Job -> Nat] /\ failWrites \in [Job -> Nat]
  BY DEF QInv, JInv, TypeOK
<1>1. CASE Promote(k)
  <2>1. failWrites[k] = 0
    BY <1>1 DEF Promote
  <2> QED
    BY <1>0, <1>1, <2>1 DEF Promote
<1>2. CASE MarkCompleted(k)
  BY <1>0, <1>2 DEF MarkCompleted
<1>3. CASE SetError(k)
  BY <1>0, <1>3 DEF SetError
<1>4. CASE StalledRequeued(k)
  BY <1>0, <1>4 DEF StalledRequeued, Stalled
<1>5. CASE StalledTooOften(k)
  BY <1>0, <1>5 DEF StalledTooOften, Stalled
<1> QED
  BY <1>1, <1>2, <1>3, <1>4, <1>5

\* The user and the process.
LEMMA FaultPrompt ==
  ASSUME QInv, NEW j \in Job,
         (\E d \in documents : DeleteDocument(d)) \/ Crash \/ Restart \/ UNCHANGED vars
  PROVE  Prompt(j)'
<1> USE DEF Prompt, dbVars, bullVars, workerVars, listenerVars, faultVars
<1>0. Prompt(j) /\ crashes \in Nat
  BY DEF QInv, JInv, TypeOK
<1>1. CASE \E d \in documents : DeleteDocument(d)
  BY <1>0, <1>1 DEF DeleteDocument
<1>2. CASE Crash
  <2>1. /\ crashes' # 0 /\ UNCHANGED <<status, bull>>
        /\ pc' = [i \in Job |-> "idle"]
        /\ okWrites' = [i \in Job |-> 0] /\ failWrites' = [i \in Job |-> 0]
    BY <1>0, <1>2 DEF Crash
  <2> QED
    BY <2>1
<1>3. CASE Restart \/ UNCHANGED vars
  BY <1>0, <1>3 DEF Restart, vars
<1> QED
  BY <1>1, <1>2, <1>3

\* The invariant of the rows and their listeners.
LEMMA PromptInvariance == ASSUME PromptListeners PROVE Spec => []QInv
<1>1. Init => QInv
  BY InitJInv, InitPrompt DEF QInv
<1>2. QInv /\ JInv' /\ [Next]_vars => QInv'
  BY DispatchPrompt, ProcessPrompt, QueuePrompt, FaultPrompt DEF QInv, Next
<1> QED
  BY <1>1, <1>2, JobInvariance, PTL DEF Spec

\* Whenever no listener has a write outstanding, the row of a job agrees with BullMQ.
THEOREM RestingIsTruthful == Spec => []RestingStatusIsTruthful
<1>1. CASE PromptListeners
  <2>1. QInv => RestingStatusIsTruthful
    BY DEF QInv, JInv, InOrder, Prompt, AtRest, RestingStatusIsTruthful
  <2> QED
    BY <1>1, <2>1, PromptInvariance, PTL
<1>2. CASE ~ PromptListeners
  <2>1. TypeOK => RestingStatusIsTruthful
    BY <1>2 DEF RestingStatusIsTruthful
  <2> QED
    BY <2>1, JobTypeCorrect, PTL
<1> QED
  BY <1>1, <1>2

\* What a polling client sees of a job is the life JobStatus describes.
THEOREM ClientView == ASSUME PromptListeners PROVE Spec => ImplementsJobStatus
<1>1. Init => View!Init
  BY DEF Init, View!Init
<1>2. ASSUME QInv, [Next]_vars PROVE [View!Next]_(View!vars)
  <2> USE DEF View!vars, dbVars, workerVars
  <2>1. ASSUME NEW r \in Request, Dispatch(r) PROVE [View!Next]_(View!vars)
    <3>1. CASE DispatchRow(r)
      <4>1. request[r].step = "row" /\ DispatchSoFar(r)
        BY <1>2, <3>1 DEF QInv, JInv, DispatchRow, AtStep
      <4>2. Current(r) \in Job /\ request[r].file \in DOMAIN FilesOf[r]
        BY <4>1, CurrentJob
      <4>3. status[Current(r)] = "none"
        BY <4>1, <4>2 DEF DispatchSoFar, Current
      <4>4. View!Create(Current(r))
        BY <3>1, <4>3 DEF View!Create, View!Move, DispatchRow
      <4> QED
        BY <4>2, <4>4 DEF View!Next
    <3>2. CASE ~ DispatchRow(r)
      BY <2>1, <3>2 DEF Dispatch, Upload, DispatchDocument, DispatchEnqueue, DispatchUnanswered,
                        DispatchFails
    <3> QED
      BY <3>1, <3>2
  <2>2. ASSUME NEW j \in Job, Take(j) \/ ProcessJob(j) PROVE [View!Next]_(View!vars)
    <3>1. TypeOK /\ InOrder(j) /\ Prompt(j)
      BY <1>2 DEF QInv, JInv
    <3>2. CASE MarkRunning(j)
      <4>1. View!Start(j)
        BY <3>1, <3>2 DEF TypeOK, Statuses, InOrder, MarkRunning, Running, View!Start, View!Move
      <4> QED
        BY <4>1 DEF View!Next
    <3>3. CASE HandOverRows(j)
      <4>1. View!HandOver(j)
        BY <3>1, <3>3 DEF Prompt, HandOverRows, Running, View!HandOver
      <4> QED
        BY <4>1 DEF View!Next
    <3>4. CASE ~ (MarkRunning(j) \/ HandOverRows(j))
      BY <2>2, <3>4 DEF Take, ProcessJob, LookUp, CreateForExtraction, LinkDocument, Extracted,
                        UpdateSchema, Succeed, AttemptFails
    <3> QED
      BY <3>2, <3>3, <3>4
  <2>3. ASSUME NEW j \in Job, MarkCompleted(j) PROVE [View!Next]_(View!vars)
    <3>1. TypeOK /\ InOrder(j) /\ Prompt(j)
      BY <1>2 DEF QInv, JInv
    <3>2. View!Complete(j)
      BY <2>3, <3>1 DEF InOrder, Prompt, MarkCompleted, View!Complete, View!Move
    <3> QED
      BY <3>2 DEF View!Next
  <2>4. ASSUME NEW j \in Job, SetError(j) PROVE [View!Next]_(View!vars)
    <3>1. TypeOK /\ InOrder(j) /\ Prompt(j)
      BY <1>2 DEF QInv, JInv
    <3>2. View!Fail(j)
      BY <2>4, <3>1 DEF TypeOK, Statuses, InOrder, Prompt, SetError, View!Fail, View!Move
    <3> QED
      BY <3>2 DEF View!Next
  <2>5. ASSUME NEW j \in Job, Promote(j) \/ StalledRequeued(j) \/ StalledTooOften(j)
        PROVE  UNCHANGED View!vars
    BY <2>5 DEF Promote, StalledRequeued, StalledTooOften
  <2>6. CASE (\E d \in documents : DeleteDocument(d)) \/ Crash \/ Restart \/ UNCHANGED vars
    BY <2>6 DEF DeleteDocument, Crash, Restart, vars
  <2> QED
    BY <1>2, <2>1, <2>2, <2>3, <2>4, <2>5, <2>6 DEF Next
<1> QED
  BY <1>1, <1>2, PromptInvariance, PTL DEF Spec, ImplementsJobStatus, View!Spec
=============================================================================
