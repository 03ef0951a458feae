----------------------------- MODULE JobLifecycle -----------------------------
(***************************************************************************)
(* From an upload to the end of its jobs: the dispatcher                   *)
(* (services/job-dispatcher.service.ts), the BullMQ queue                  *)
(* 'asset-extraction-queue' (queues/extraction.queue.ts), the worker       *)
(* (workers/extraction.worker.ts) and the rows they write in the tables    *)
(* documents and processing_jobs, all under src/backend/src.               *)
(*                                                                         *)
(* One process hosts the API and the worker.  The worker's 'completed' and *)
(* 'failed' listeners write the job's row after BullMQ has moved the job,  *)
(* and nothing waits for those writes.                                     *)
(***************************************************************************)
EXTENDS Integers, Sequences, FiniteSets

CONSTANTS
  Job,            \* one per uploaded file
  Request,        \* upload requests (POST /api/extract)
  FilesOf,        \* the files of each request, in the order of dispatch
  Acceptable,     \* the files that pass MultiFileValidationPipe
  Tabular,        \* the CSV files and spreadsheets with a row; the others are PDFs
  NoDoc,          \* a NULL document_id
  Attempts,       \* defaultJobOptions.attempts
  Concurrency,    \* WORKER_CONCURRENCY
  MaxStalled,     \* BullMQ's maxStalledCount
  MaxCrashes,     \* bound: crashes of the process
  MaxDeletes,     \* bound: documents a user deletes
  Unanswered,     \* bound: requests whose queue.add may lose its answer
  PromptListeners \* the listener's UPDATE is over before the retry's backoff is

Doc == Job \X Nat

ASSUME ConstantsAssumption ==
  /\ FilesOf \in [Request -> Seq(Job)]
  /\ Acceptable \subseteq Job
  /\ Tabular \subseteq Job
  /\ NoDoc \notin Doc
  /\ Attempts \in Nat \ {0}
  /\ Concurrency \in Nat \ {0}
  /\ MaxStalled \in Nat
  /\ MaxCrashes \in Nat
  /\ MaxDeletes \in Nat
  /\ Unanswered \subseteq Request
  /\ PromptListeners \in BOOLEAN

\* Each file belongs to one place of one request.
ASSUME FilesAreDistinct ==
  \A r, s \in Request : \A m \in DOMAIN FilesOf[r], n \in DOMAIN FilesOf[s] :
     FilesOf[r][m] = FilesOf[s][n] => r = s /\ m = n

VARIABLES
  up,           \* is the process running?
  crashes, deletes,
  request,      \* per request: where dispatchFiles stands, and at which file
  documents,    \* the rows of the table documents
  docsMade,     \* per job: documents ever created for it
  status,       \* per job: processing_jobs.status, "none" before the row exists
  rowDoc,       \* per job: processing_jobs.document_id
  errorSummary, \* per job: is processing_jobs.error_summary set?
  bull,         \* per job: its state in BullMQ
  attemptsMade, \* per job: failed attempts
  stalls,       \* per job: times it was found stalled
  pc,           \* per job: where processJob stands
  docVar,       \* per job: the local variable documentId of processJob
  extractions,  \* per job: attempts that handed rows to the persistence queue
  okWrites,     \* per job: 'completed' listeners whose UPDATE is outstanding
  failWrites    \* per job: 'failed' listeners whose UPDATE is outstanding

apiVars == <<request>>
dbVars == <<documents, docsMade, status, rowDoc, errorSummary>>
bullVars == <<bull, attemptsMade, stalls>>
workerVars == <<pc, docVar, extractions>>
listenerVars == <<okWrites, failWrites>>
faultVars == <<up, crashes, deletes>>
vars == <<apiVars, dbVars, bullVars, workerVars, listenerVars, faultVars>>

Statuses == {"none", "queued", "running", "completed", "failed"}
BullStates == {"none", "waiting", "active", "delayed", "completed", "failed"}
Steps == {"idle", "start", "lookup", "create", "link", "extract", "handing",
          "schema", "returned"}
DispatchSteps == {"new", "document", "row", "enqueue", "ok", "error", "rejected"}

TypeOK ==
  /\ up \in BOOLEAN
  /\ crashes \in Nat /\ deletes \in Nat
  /\ request \in [Request -> [step : DispatchSteps, file : Nat]]
  /\ documents \subseteq Doc
  /\ docsMade \in [Job -> Nat]
  /\ status \in [Job -> Statuses]
  /\ rowDoc \in [Job -> Doc \union {NoDoc}]
  /\ errorSummary \in [Job -> BOOLEAN]
  /\ bull \in [Job -> BullStates]
  /\ attemptsMade \in [Job -> Nat]
  /\ stalls \in [Job -> Nat]
  /\ pc \in [Job -> Steps]
  /\ docVar \in [Job -> Doc \union {NoDoc}]
  /\ extractions \in [Job -> Nat]
  /\ okWrites \in [Job -> Nat]
  /\ failWrites \in [Job -> Nat]

Init ==
  /\ up = TRUE
  /\ crashes = 0 /\ deletes = 0
  /\ request = [r \in Request |-> [step |-> "new", file |-> 1]]
  /\ documents = {}
  /\ docsMade = [j \in Job |-> 0]
  /\ status = [j \in Job |-> "none"]
  /\ rowDoc = [j \in Job |-> NoDoc]
  /\ errorSummary = [j \in Job |-> FALSE]
  /\ bull = [j \in Job |-> "none"]
  /\ attemptsMade = [j \in Job |-> 0]
  /\ stalls = [j \in Job |-> 0]
  /\ pc = [j \in Job |-> "idle"]
  /\ docVar = [j \in Job |-> NoDoc]
  /\ extractions = [j \in Job |-> 0]
  /\ okWrites = [j \in Job |-> 0]
  /\ failWrites = [j \in Job |-> 0]

-----------------------------------------------------------------------------
(* The upload: the validation pipe and dispatchFiles, one await at a time. *)

Current(r) == FilesOf[r][request[r].file]
AtStep(r, step) == up /\ request[r].step = step
GoTo(r, step) == request' = [request EXCEPT ![r].step = step]

\* The pipe accepts or rejects the request as a whole.
Upload(r) ==
  /\ AtStep(r, "new")
  /\ FilesOf[r] # <<>>
  /\ GoTo(r, IF \A n \in DOMAIN FilesOf[r] : FilesOf[r][n] \in Acceptable
             THEN "document" ELSE "rejected")
  /\ UNCHANGED <<dbVars, bullVars, workerVars, listenerVars, faultVars>>

\* Mutant of DispatchDocument: the job is enqueued before its row is created.
DispatchDocumentOnly(r) ==
  LET j == Current(r) IN
  /\ AtStep(r, "document")
  /\ documents' = documents \union {<<j, docsMade[j]>>}
  /\ docsMade' = [docsMade EXCEPT ![j] = @ + 1]
  /\ GoTo(r, "enqueue")
  /\ UNCHANGED <<status, rowDoc, errorSummary>>
  /\ UNCHANGED <<bullVars, workerVars, listenerVars, faultVars>>

DispatchDocument(r) ==
  LET j == Current(r) IN
  /\ AtStep(r, "document")
  /\ documents' = documents \union {<<j, docsMade[j]>>}
  /\ docsMade' = [docsMade EXCEPT ![j] = @ + 1]
  /\ GoTo(r, "row")
  /\ UNCHANGED <<status, rowDoc, errorSummary>>
  /\ UNCHANGED <<bullVars, workerVars, listenerVars, faultVars>>

\* The foreign key refuses the row when the document is gone already.
DispatchRow(r) ==
  LET j == Current(r) IN
  /\ AtStep(r, "row")
  /\ <<j, 0>> \in documents
  /\ status' = [status EXCEPT ![j] = "queued"]
  /\ rowDoc' = [rowDoc EXCEPT ![j] = <<j, 0>>]
  /\ GoTo(r, "enqueue")
  /\ UNCHANGED <<documents, docsMade, errorSummary>>
  /\ UNCHANGED <<bullVars, workerVars, listenerVars, faultVars>>

DispatchEnqueue(r) ==
  LET j == Current(r) IN
  /\ AtStep(r, "enqueue")
  /\ bull' = [bull EXCEPT ![j] = "waiting"]
  /\ request' = [request EXCEPT ![r] =
       IF @.file < Len(FilesOf[r]) THEN [step |-> "document", file |-> @.file + 1]
                                   ELSE [@ EXCEPT !.step = "ok"]]
  /\ UNCHANGED <<attemptsMade, stalls>>
  /\ UNCHANGED <<dbVars, workerVars, listenerVars, faultVars>>

\* queue.add lands in Redis but its answer is lost: the request ends as if it had not.
DispatchUnanswered(r) ==
  LET j == Current(r) IN
  /\ r \in Unanswered
  /\ AtStep(r, "enqueue")
  /\ bull' = [bull EXCEPT ![j] = "waiting"]
  /\ GoTo(r, "error")
  /\ UNCHANGED <<attemptsMade, stalls>>
  /\ UNCHANGED <<dbVars, workerVars, listenerVars, faultVars>>

\* Any await throws: QueueDispatchFailed for the whole request.  What was
\* written and enqueued before stays.
DispatchFails(r) ==
  /\ AtStep(r, "document") \/ AtStep(r, "row") \/ AtStep(r, "enqueue")
  /\ GoTo(r, "error")
  /\ UNCHANGED <<dbVars, bullVars, workerVars, listenerVars, faultVars>>

\* DELETE /api/documents/:id.  The foreign key sets processing_jobs.document_id
\* to NULL.
DeleteDocument(d) ==
  /\ up
  /\ deletes < MaxDeletes
  /\ d \in documents
  /\ documents' = documents \ {d}
  /\ rowDoc' = [j \in Job |-> IF rowDoc[j] = d THEN NoDoc ELSE rowDoc[j]]
  /\ deletes' = deletes + 1
  /\ UNCHANGED <<docsMade, status, errorSummary, up, crashes>>
  /\ UNCHANGED <<apiVars, bullVars, workerVars, listenerVars>>

-----------------------------------------------------------------------------
(* The worker: processJob, one await at a time.                            *)

Running(j, step) == up /\ bull[j] = "active" /\ pc[j] = step

\* BullMQ gives a waiting job to the worker.
Take(j) ==
  /\ up
  /\ bull[j] = "waiting"
  /\ Cardinality({k \in Job : pc[k] # "idle"}) < Concurrency
  /\ bull' = [bull EXCEPT ![j] = "active"]
  /\ pc' = [pc EXCEPT ![j] = "start"]
  /\ docVar' = [docVar EXCEPT ![j] = NoDoc]
  /\ UNCHANGED <<attemptsMade, stalls, extractions>>
  /\ UNCHANGED <<apiVars, dbVars, listenerVars, faultVars>>

\* Mutant of MarkRunning: a status the enum does not have.
MarkProcessing(j) ==
  /\ Running(j, "start")
  /\ status' = [status EXCEPT ![j] = "processing"]
  /\ pc' = [pc EXCEPT ![j] = "lookup"]
  /\ UNCHANGED <<documents, docsMade, rowDoc, errorSummary, docVar, extractions>>
  /\ UNCHANGED <<apiVars, bullVars, listenerVars, faultVars>>

\* Mutant of MarkRunning: only the first attempt marks the row.
MarkFirstRunning(j) ==
  /\ Running(j, "start")
  /\ status' = [status EXCEPT ![j] = IF @ = "queued" THEN "running" ELSE @]
  /\ pc' = [pc EXCEPT ![j] = "lookup"]
  /\ UNCHANGED <<documents, docsMade, rowDoc, errorSummary, docVar, extractions>>
  /\ UNCHANGED <<apiVars, bullVars, listenerVars, faultVars>>

MarkRunning(j) ==
  /\ Running(j, "start")
  /\ status' = [status EXCEPT ![j] = "running"]
  /\ pc' = [pc EXCEPT ![j] = "lookup"]
  /\ UNCHANGED <<documents, docsMade, rowDoc, errorSummary, docVar, extractions>>
  /\ UNCHANGED <<apiVars, bullVars, listenerVars, faultVars>>

\* Mutant of LookUp: a document is created for every attempt.
LookUpNothing(j) ==
  /\ Running(j, "lookup")
  /\ docVar' = [docVar EXCEPT ![j] = rowDoc[j]]
  /\ pc' = [pc EXCEPT ![j] = "create"]
  /\ UNCHANGED extractions
  /\ UNCHANGED <<apiVars, dbVars, bullVars, listenerVars, faultVars>>

LookUp(j) ==
  /\ Running(j, "lookup")
  /\ docVar' = [docVar EXCEPT ![j] = rowDoc[j]]
  /\ pc' = [pc EXCEPT ![j] = IF rowDoc[j] = NoDoc THEN "create" ELSE "extract"]
  /\ UNCHANGED extractions
  /\ UNCHANGED <<apiVars, dbVars, bullVars, listenerVars, faultVars>>

CreateForExtraction(j) ==
  LET d == <<j, docsMade[j]>> IN
  /\ Running(j, "create")
  /\ documents' = documents \union {d}
  /\ docsMade' = [docsMade EXCEPT ![j] = @ + 1]
  /\ docVar' = [docVar EXCEPT ![j] = d]
  /\ pc' = [pc EXCEPT ![j] = "link"]
  /\ UNCHANGED <<status, rowDoc, errorSummary, extractions>>
  /\ UNCHANGED <<apiVars, bullVars, listenerVars, faultVars>>

\* Mutant of LinkDocument: the new document is not linked to the job.
LinkNothing(j) ==
  /\ Running(j, "link")
  /\ docVar[j] \in documents
  /\ pc' = [pc EXCEPT ![j] = "extract"]
  /\ UNCHANGED <<docVar, extractions>>
  /\ UNCHANGED <<apiVars, dbVars, bullVars, listenerVars, faultVars>>

\* updateDocumentId; the foreign key refuses a document deleted meanwhile.
LinkDocument(j) ==
  /\ Running(j, "link")
  /\ docVar[j] \in documents
  /\ rowDoc' = [rowDoc EXCEPT ![j] = docVar[j]]
  /\ pc' = [pc EXCEPT ![j] = "extract"]
  /\ UNCHANGED <<documents, docsMade, status, errorSummary, docVar, extractions>>
  /\ UNCHANGED <<apiVars, bullVars, listenerVars, faultVars>>

\* strategy.extract hands the first rows of the file to the persistence queue, under
\* docVar; more may follow.  Whether and when they are stored is BatchPersistence.
HandOverRows(j) ==
  /\ Running(j, "extract")
  /\ j \in Tabular
  /\ extractions' = [extractions EXCEPT ![j] = @ + 1]
  /\ pc' = [pc EXCEPT ![j] = "handing"]
  /\ UNCHANGED docVar
  /\ UNCHANGED <<apiVars, dbVars, bullVars, listenerVars, faultVars>>

\* strategy.extract returns, also when it handed over nothing: no row was valid, or all went
\* to the LLM.  Only the counts and the schema of its result are looked at, and only a
\* PDF's has no schema.
Extracted(j) ==
  /\ Running(j, "extract") \/ Running(j, "handing")
  /\ pc' = [pc EXCEPT ![j] = IF j \in Tabular THEN "schema" ELSE "returned"]
  /\ UNCHANGED <<docVar, extractions>>
  /\ UNCHANGED <<apiVars, dbVars, bullVars, listenerVars, faultVars>>

\* Mutant of UpdateSchema: where the schema cannot be written the file is extracted again.
UpdateSchemaAgain(j) ==
  /\ Running(j, "schema")
  /\ pc' \in {[pc EXCEPT ![j] = step] : step \in {"extract", "returned"}}
  /\ UNCHANGED <<docVar, extractions>>
  /\ UNCHANGED <<apiVars, dbVars, bullVars, listenerVars, faultVars>>

UpdateSchema(j) ==
  /\ Running(j, "schema")
  /\ pc' = [pc EXCEPT ![j] = "returned"]
  /\ UNCHANGED <<docVar, extractions>>
  /\ UNCHANGED <<apiVars, dbVars, bullVars, listenerVars, faultVars>>

\* processJob returned: BullMQ completes the job and emits 'completed'.
Succeed(j) ==
  /\ Running(j, "returned")
  /\ bull' = [bull EXCEPT ![j] = "completed"]
  /\ pc' = [pc EXCEPT ![j] = "idle"]
  /\ okWrites' = [okWrites EXCEPT ![j] = @ + 1]
  /\ UNCHANGED <<attemptsMade, stalls, docVar, extractions, failWrites>>
  /\ UNCHANGED <<apiVars, dbVars, faultVars>>

\* An await of processJob threw, strategy.extract possibly after it had handed
\* rows over ("handing").  BullMQ delays the job for a retry or, at the last attempt, fails it;
\* it emits 'failed' either way.
AttemptFails(j) ==
  /\ \E step \in Steps \ {"idle", "returned"} : Running(j, step)
  /\ attemptsMade' = [attemptsMade EXCEPT ![j] = @ + 1]
  /\ bull' = [bull EXCEPT ![j] = IF attemptsMade[j] + 1 < Attempts THEN "delayed" ELSE "failed"]
  /\ pc' = [pc EXCEPT ![j] = "idle"]
  /\ failWrites' = [failWrites EXCEPT ![j] = @ + 1]
  /\ UNCHANGED <<stalls, docVar, extractions, okWrites>>
  /\ UNCHANGED <<apiVars, dbVars, faultVars>>

\* The backoff (2 s and more) is over.
Promote(j) ==
  /\ up
  /\ bull[j] = "delayed"
  /\ PromptListeners => failWrites[j] = 0
  /\ bull' = [bull EXCEPT ![j] = "waiting"]
  /\ UNCHANGED <<attemptsMade, stalls>>
  /\ UNCHANGED <<apiVars, dbVars, workerVars, listenerVars, faultVars>>

-----------------------------------------------------------------------------
(* The listeners' writes to processing_jobs.                               *)

\* Mutant of MarkCompleted: a row that holds an error is left alone.
MarkCompletedUnlessError(j) ==
  /\ up
  /\ okWrites[j] > 0
  /\ okWrites' = [okWrites EXCEPT ![j] = @ - 1]
  /\ status' = [status EXCEPT ![j] = IF errorSummary[j] THEN @ ELSE "completed"]
  /\ UNCHANGED <<documents, docsMade, rowDoc, errorSummary, failWrites>>
  /\ UNCHANGED <<apiVars, bullVars, workerVars, faultVars>>

MarkCompleted(j) ==
  /\ up
  /\ okWrites[j] > 0
  /\ okWrites' = [okWrites EXCEPT ![j] = @ - 1]
  /\ status' = [status EXCEPT ![j] = "completed"]
  /\ UNCHANGED <<documents, docsMade, rowDoc, errorSummary, failWrites>>
  /\ UNCHANGED <<apiVars, bullVars, workerVars, faultVars>>

SetError(j) ==
  /\ up
  /\ failWrites[j] > 0
  /\ failWrites' = [failWrites EXCEPT ![j] = @ - 1]
  /\ status' = [status EXCEPT ![j] = "failed"]
  /\ errorSummary' = [errorSummary EXCEPT ![j] = TRUE]
  /\ UNCHANGED <<documents, docsMade, rowDoc, okWrites>>
  /\ UNCHANGED <<apiVars, bullVars, workerVars, faultVars>>

-----------------------------------------------------------------------------
(* Crash, restart and BullMQ's recovery.                                   *)

\* The process dies: requests, attempts and outstanding listener writes with it.
\* (A listener's rejected UPDATE is an unhandled rejection and ends here too.)
Crash ==
  /\ up
  /\ crashes < MaxCrashes
  /\ up' = FALSE
  /\ crashes' = crashes + 1
  /\ request' = [r \in Request |->
       IF request[r].step \in {"document", "row", "enqueue"}
       THEN [request[r] EXCEPT !.step = "error"] ELSE request[r]]
  /\ pc' = [j \in Job |-> "idle"]
  /\ okWrites' = [j \in Job |-> 0]
  /\ failWrites' = [j \in Job |-> 0]
  /\ UNCHANGED <<deletes, docVar, extractions>>
  /\ UNCHANGED <<dbVars, bullVars>>

Restart ==
  /\ ~ up
  /\ up' = TRUE
  /\ UNCHANGED <<crashes, deletes>>
  /\ UNCHANGED <<apiVars, dbVars, bullVars, workerVars, listenerVars>>

Stalled(j) == up /\ bull[j] = "active" /\ pc[j] = "idle"

StalledRequeued(j) ==
  /\ Stalled(j)
  /\ stalls[j] < MaxStalled
  /\ bull' = [bull EXCEPT ![j] = "waiting"]
  /\ stalls' = [stalls EXCEPT ![j] = @ + 1]
  /\ UNCHANGED attemptsMade
  /\ UNCHANGED <<apiVars, dbVars, workerVars, listenerVars, faultVars>>

StalledTooOften(j) ==
  /\ Stalled(j)
  /\ stalls[j] >= MaxStalled
  /\ bull' = [bull EXCEPT ![j] = "failed"]
  /\ failWrites' = [failWrites EXCEPT ![j] = @ + 1]
  /\ UNCHANGED <<attemptsMade, stalls, okWrites>>
  /\ UNCHANGED <<apiVars, dbVars, workerVars, faultVars>>

-----------------------------------------------------------------------------
Dispatch(r) ==
  \/ Upload(r) \/ DispatchDocument(r) \/ DispatchRow(r) \/ DispatchEnqueue(r)
  \/ DispatchUnanswered(r) \/ DispatchFails(r)

ProcessJob(j) ==
  \/ MarkRunning(j) \/ LookUp(j) \/ CreateForExtraction(j) \/ LinkDocument(j)
  \/ HandOverRows(j) \/ Extracted(j) \/ UpdateSchema(j) \/ Succeed(j) \/ AttemptFails(j)

Next ==
  \/ \E r \in Request : Dispatch(r)
  \/ \E d \in documents : DeleteDocument(d)
  \/ \E j \in Job : \/ Take(j) \/ ProcessJob(j) \/ Promote(j)
                    \/ MarkCompleted(j) \/ SetError(j)
                    \/ StalledRequeued(j) \/ StalledTooOften(j)
  \/ Crash
  \/ Restart

Spec == Init /\ [][Next]_vars

\* Redis and Postgres answer, timers fire, and a crashed process is restarted.
Fairness ==
  /\ WF_vars(Restart)
  /\ \A j \in Job :
       /\ SF_vars(Take(j))
       /\ WF_vars(ProcessJob(j))
       /\ WF_vars(Promote(j))
       /\ WF_vars(MarkCompleted(j))
       /\ WF_vars(SetError(j))
       /\ WF_vars(StalledRequeued(j) \/ StalledTooOften(j))

FairSpec == Spec /\ Fairness

-----------------------------------------------------------------------------
(* Safety.                                                                 *)

AtRest(j) == okWrites[j] = 0 /\ failWrites[j] = 0

\* Whenever no listener has a write outstanding, the row of a job tells the truth
\* about its state in BullMQ, although the two are written by different handlers:
\* completed, failed and running mean what they say (extraction.worker.ts 42-62,
\* 91-94).  It needs the listener's UPDATE to be over before the backoff is, and
\* no crash, which loses the write.
RestingStatusIsTruthful ==
  PromptListeners /\ crashes = 0 => \A j \in Job : AtRest(j) =>
    /\ bull[j] = "completed" => status[j] = "completed"
    /\ bull[j] \in {"delayed", "failed"} => status[j] = "failed"
    /\ bull[j] = "active" /\ pc[j] # "start" => status[j] = "running"

\* A document of the job that the job's row does not point to.
Strays(j) == {d \in documents : d[1] = j /\ d # rowDoc[j]}

\* An attempt that finds the job's document deleted makes another one and links it an
\* await later.  Users may delete documents, attempts may fail and the process may die
\* between the two: documents no job points to are left behind, but never more than one for
\* each failed attempt, for each time the job was found stalled, and for one that is
\* running or whose end was not noticed yet (extraction.worker.ts 96-127).
OneStrayPerAttempt ==
  \A j \in Job : bull[j] # "none" =>
     Cardinality(Strays(j)) <= attemptsMade[j] + stalls[j]
                                 + (IF bull[j] \in {"active", "failed"} THEN 1 ELSE 0)

\* A retry hands the rows of its file over again and nothing removes those of the attempt
\* before; but no attempt does so twice: a file is handed over at most once for each failed
\* attempt, for each time the job was found stalled, and for the attempt that is running or
\* was the last (extraction.worker.ts 174, extraction.queue.ts 9-12).
HandedOverOncePerAttempt ==
  \A j \in Job :
     extractions[j] <= attemptsMade[j] + stalls[j]
                         + (IF bull[j] \in {"active", "completed", "failed"} THEN 1 ELSE 0)

\* Files are dispatched one after the other, and a request that fails, at whatever await, leaves
\* the files before that one queued and those behind it without any trace; a job is never
\* in BullMQ without its row (job-dispatcher.service.ts 52-107).
DispatchedInOrder ==
  /\ \A j \in Job : bull[j] # "none" => status[j] # "none"
  /\ \A r \in Request : \A n \in DOMAIN FilesOf[r] :
       LET j == FilesOf[r][n] IN
       /\ n < request[r].file \/ request[r].step = "ok" => bull[j] # "none"
       /\ n > request[r].file => bull[j] = "none" /\ status[j] = "none" /\ docsMade[j] = 0

\* Rows go under the document the job is linked to, unless a user deleted that
\* document while the attempt was running (extraction.worker.ts 96-135).
ExtractsUnderLinkedDocument ==
  \A j \in Job : pc[j] \in {"extract", "handing", "schema", "returned"} /\ docVar[j] \in documents
                   => rowDoc[j] = docVar[j]

\* What a polling client sees is the life JobStatus describes, also across crashes.
View == INSTANCE JobStatus WITH handed <- extractions
ImplementsJobStatus == View!Spec

(* Liveness, under FairSpec.                                               *)

\* Every job BullMQ accepts ends, although a worker serves one job at a time, attempts
\* fail and the process may die; and without a crash its row then agrees with BullMQ
\* for good.
JobSettles ==
  \A j \in Job : bull[j] = "waiting" ~>
     [](/\ bull[j] \in {"completed", "failed"}
        /\ crashes = 0 => status[j] = bull[j])
=============================================================================
