------------------------- MODULE FrontendPollingProofs -------------------------
(***************************************************************************)
(* Proofs about FrontendPolling, for every set of jobs and of mounts of    *)
(* the page and any number of requests in flight.                          *)
(***************************************************************************)
EXTENDS FrontendPolling, TLAPS

Created(j) == status[j] # "none"

\* Before the row of a job exists the browser knows nothing of it.
UnknownBeforeItExists ==
  \A j \in Job : ~ Created(j) =>
    /\ upload[j] \in {"none", "session"}
    /\ shown[j] = "absent"
    /\ \A n \in 1 .. MaxFlight : flight[<<j, n>>] = "idle"
    /\ \A m \in Mount : snapshot[m][j] = "absent"

\* "completed" is in the store or on its way there: in an upload's answer, in a status
\* request's answer, in what a fetch has read of the store.
OnTheWay(j) ==
  \/ shown[j] = "completed"
  \/ upload[j] = "completed"
  \/ \E n \in 1 .. MaxFlight : flight[<<j, n>>] = "completed"
  \/ \E m \in Mount : snapshot[m][j] = "completed"

CompletedIsKnown == \A j \in Job : OnTheWay(j) => status[j] = "completed"

PInv == TypeOK /\ UnknownBeforeItExists /\ CompletedIsKnown

\* Only an upload adds a session that a fetch has brought already: until it is over the store
\* has the session once at most.
OnceBeforeUpload == \A j \in Job : upload[j] # "done" => copies[j] <= 1

\* No step of the server changes the status of a completed job or removes a job.
LEMMA CompletedStays ==
  ASSUME TypeOK, ServerStep
  PROVE  /\ status' \in [Job -> {"none", "queued", "running", "completed", "failed"}]
         /\ handed' \in [Job -> 0 .. MaxHanded]
         /\ \A j \in Job : status[j] = "completed" => status'[j] = "completed"
         /\ \A j \in Job : Created(j) => Created(j)'
<1>1. PICK k \in Job :
        \/ Server!Create(k) \/ Server!Start(k) \/ Server!Fail(k)
        \/ Server!Complete(k) \/ Server!HandOver(k)
  BY DEF ServerStep, Server!Next
<1>2. CASE Server!HandOver(k)
  <2>1. handed[k] + 1 <= MaxHanded
    BY <1>2 DEF TypeOK, ServerStep, Server!HandOver
  <2> QED
    BY <1>2, <2>1, ConstantsAssumption DEF TypeOK, Created, Server!HandOver
<1>3. CASE Server!Create(k) \/ Server!Start(k) \/ Server!Fail(k) \/ Server!Complete(k)
  BY <1>3 DEF TypeOK, Created, Server!Create, Server!Start, Server!Fail, Server!Complete,
              Server!Move
<1> QED
  BY <1>1, <1>2, <1>3

\* The browser learns the status the server has, in the words of the page.
LEMMA AnswerIsTrue ==
  ASSUME TypeOK, NEW j \in Job, Created(j)
  PROVE  /\ mapJobStatus(status[j]) \in ShownStatuses
         /\ mapJobStatus(status[j]) = "completed" => status[j] = "completed"
BY DEF TypeOK, Created, mapJobStatus, ShownStatuses

-----------------------------------------------------------------------------
(* The invariant, by the actor that takes the step.                        *)

\* A browser with an empty store, and no job.
LEMMA InitPInv == Init => PInv
<1> SUFFICES ASSUME Init PROVE PInv
  OBVIOUS
<1>1. TypeOK
  BY ConstantsAssumption DEF Init, TypeOK, Server!Init
<1>2. UnknownBeforeItExists
  BY DEF Init, UnknownBeforeItExists, Flight
<1>3. CompletedIsKnown
  BY DEF Init, CompletedIsKnown, OnTheWay, Flight
<1> QED
  BY <1>1, <1>2, <1>3 DEF PInv

\* The server goes on.
LEMMA ServerPInv == ASSUME PInv, ServerStep PROVE PInv'
<1>1. TypeOK'
  BY CompletedStays DEF PInv, TypeOK, ServerStep, store, pageVars
<1>2. UnknownBeforeItExists'
  BY CompletedStays DEF PInv, UnknownBeforeItExists, ServerStep, store, pageVars
<1>3. CompletedIsKnown'
  BY CompletedStays DEF PInv, CompletedIsKnown, OnTheWay, ServerStep, store, pageVars
<1> QED
  BY <1>1, <1>2, <1>3 DEF PInv

\* The steps of handleExtract.
LEMMA UploadPInv ==
  ASSUME PInv, OnceBeforeUpload, NEW j \in Job,
         SessionCreated(j) \/ JobAccepted(j) \/ DocumentsAnswered(j) \/ AddJob(j)
  PROVE  PInv'
<1> USE DEF PInv, server, store, pageVars, Created
<1>1. CASE SessionCreated(j)
  <2>1. TypeOK'
    BY <1>1 DEF TypeOK, SessionCreated
  <2>2. UnknownBeforeItExists'
    BY <1>1 DEF TypeOK, UnknownBeforeItExists, SessionCreated
  <2>3. CompletedIsKnown'
    BY <1>1 DEF TypeOK, CompletedIsKnown, OnTheWay, SessionCreated
  <2> QED
    BY <2>1, <2>2, <2>3
<1>2. CASE JobAccepted(j)
  <2>1. TypeOK'
    BY <1>2 DEF TypeOK, JobAccepted
  <2>2. UnknownBeforeItExists'
    BY <1>2 DEF TypeOK, UnknownBeforeItExists, JobAccepted
  <2>3. CompletedIsKnown'
    BY <1>2 DEF TypeOK, CompletedIsKnown, OnTheWay, JobAccepted
  <2> QED
    BY <2>1, <2>2, <2>3
<1>3. CASE DocumentsAnswered(j)
  <2>1. Created(j)
    BY <1>3 DEF UnknownBeforeItExists, DocumentsAnswered
  <2>2. PICK answer \in {mapJobStatus(status[j]), "waiting"} :
          upload' = [upload EXCEPT ![j] = answer]
    BY <1>3 DEF DocumentsAnswered
  <2>3. answer \in ShownStatuses /\ (answer = "completed" => status[j] = "completed")
    BY <2>1, <2>2, AnswerIsTrue DEF ShownStatuses
  <2>4. TypeOK'
    BY <1>3, <2>2, <2>3 DEF TypeOK, DocumentsAnswered
  <2>5. UnknownBeforeItExists'
    BY <1>3, <2>1, <2>2 DEF TypeOK, UnknownBeforeItExists, DocumentsAnswered
  <2>6. CompletedIsKnown'
    BY <1>3, <2>2, <2>3 DEF TypeOK, CompletedIsKnown, OnTheWay, DocumentsAnswered
  <2> QED
    BY <2>4, <2>5, <2>6
<1>4. CASE AddJob(j)
  <2>1. Created(j)
    BY <1>4 DEF UnknownBeforeItExists, AddJob, ShownStatuses
  <2>2. TypeOK'
    BY <1>4 DEF TypeOK, OnceBeforeUpload, AddJob, ShownStatuses
  <2>3. UnknownBeforeItExists'
    BY <1>4, <2>1 DEF TypeOK, UnknownBeforeItExists, AddJob
  <2>4. CompletedIsKnown'
    BY <1>4 DEF TypeOK, CompletedIsKnown, OnTheWay, AddJob
  <2> QED
    BY <2>2, <2>3, <2>4
<1> QED
  BY <1>1, <1>2, <1>3, <1>4

\* The steps of a mount of DocumentsPage and its fetchData().
LEMMA MountPInv ==
  ASSUME PInv, NEW m \in Mount,
         \/ MountPage(m) \/ SessionsAnswered(m) \/ SessionsArrive(m)
         \/ SetSessions(m) \/ FetchFails(m)
  PROVE  PInv'
<1> USE DEF PInv, server, store, Created
<1>1. CASE MountPage(m) \/ SessionsAnswered(m)
  <2>1. listed' \in [Mount -> SUBSET Job]
    <3>1. CASE SessionsAnswered(m)
      <4>1. PICK some \in SUBSET {j \in Job : upload[j] # "none"} :
              listed' = [listed EXCEPT ![m] = some]
        BY <3>1 DEF SessionsAnswered
      <4>2. some \in SUBSET Job
        OBVIOUS
      <4> QED
        BY <4>1, <4>2 DEF TypeOK
    <3> QED
      BY <1>1, <3>1 DEF TypeOK, MountPage
  <2>4. TypeOK'
    BY <1>1, <2>1 DEF TypeOK, MountPage, SessionsAnswered
  <2>2. UnknownBeforeItExists'
    BY <1>1 DEF UnknownBeforeItExists, MountPage, SessionsAnswered
  <2>3. CompletedIsKnown'
    BY <1>1 DEF CompletedIsKnown, OnTheWay, MountPage, SessionsAnswered
  <2> QED
    BY <2>2, <2>3, <2>4
<1>2. CASE SessionsArrive(m)
  <2>1. TypeOK'
    BY <1>2 DEF TypeOK, SessionsArrive, Mapped
  <2>2. UnknownBeforeItExists'
    BY <1>2 DEF TypeOK, UnknownBeforeItExists, SessionsArrive, Mapped
  <2>3. CompletedIsKnown'
    BY <1>2 DEF TypeOK, CompletedIsKnown, OnTheWay, SessionsArrive, Mapped
  <2> QED
    BY <2>1, <2>2, <2>3
<1>3. CASE SetSessions(m)
  <2>1. TypeOK'
    BY <1>3 DEF TypeOK, SetSessions, EndFetch
  <2>2. UnknownBeforeItExists'
    BY <1>3 DEF TypeOK, UnknownBeforeItExists, SetSessions, EndFetch
  <2>3. CompletedIsKnown'
    BY <1>3 DEF TypeOK, CompletedIsKnown, OnTheWay, SetSessions, EndFetch
  <2> QED
    BY <2>1, <2>2, <2>3
<1>4. CASE FetchFails(m)
  <2>1. TypeOK'
    BY <1>4 DEF TypeOK, FetchFails, EndFetch
  <2>2. UnknownBeforeItExists'
    BY <1>4 DEF TypeOK, UnknownBeforeItExists, FetchFails, EndFetch
  <2>3. CompletedIsKnown'
    BY <1>4 DEF TypeOK, CompletedIsKnown, OnTheWay, FetchFails, EndFetch
  <2> QED
    BY <2>1, <2>2, <2>3
<1> QED
  BY <1>1, <1>2, <1>3, <1>4

\* The page goes; its fetchData() keeps what it last rendered.
LEMMA UnmountPInv == ASSUME PInv, UnmountPage PROVE PInv'
<1> USE DEF PInv, server, store, Created
<1>1. TypeOK'
  BY DEF TypeOK, UnmountPage, Mapped
<1>2. UnknownBeforeItExists'
  BY DEF TypeOK, UnknownBeforeItExists, UnmountPage, Mapped
<1>3. CompletedIsKnown'
  BY DEF TypeOK, CompletedIsKnown, OnTheWay, UnmountPage, Mapped
<1> QED
  BY <1>1, <1>2, <1>3

\* One tick of the interval asks for jobs of the store and puts no answer on the way.
LEMMA PollPInv == ASSUME PInv, PollJobs PROVE PInv'
<1> USE DEF PInv, server, store, pageVars, Created
<1>1. TypeOK'
  BY DEF TypeOK, PollJobs
<1>2. \A k \in Job, n \in 1 .. MaxFlight :
        flight'[<<k, n>>] # flight[<<k, n>>] => flight'[<<k, n>>] = "sent" /\ k \in Polled
  BY DEF TypeOK, PollJobs, Flight
<1>3. UNCHANGED <<status, upload, shown, snapshot>>
  BY DEF PollJobs
<1>4. UnknownBeforeItExists'
  BY <1>2, <1>3 DEF UnknownBeforeItExists, Polled
<1>5. CompletedIsKnown'
  BY <1>2, <1>3 DEF CompletedIsKnown, OnTheWay
<1> QED
  BY <1>1, <1>4, <1>5

\* A status request is answered, lost, or its answer applied.
LEMMA RequestPInv ==
  ASSUME PInv, NEW q \in Flight, Answered(q) \/ NotAnswered(q) \/ UpdateJobStatus(q)
  PROVE  PInv'
<1> USE DEF PInv, server, store, pageVars, Created
<1>0. PICK j \in Job, n \in 1 .. MaxFlight : q = <<j, n>>
  BY DEF Flight
<1>1. Created(j)
  BY <1>0 DEF UnknownBeforeItExists, Answered, NotAnswered, UpdateJobStatus, ShownStatuses
<1>2. CASE Answered(q)
  <2>1. /\ mapJobStatus(status[j]) \in ShownStatuses
        /\ mapJobStatus(status[j]) = "completed" => status[j] = "completed"
    BY <1>1, AnswerIsTrue
  <2>2. TypeOK'
    BY <1>0, <1>2, <2>1 DEF TypeOK, Answered
  <2>3. UnknownBeforeItExists'
    BY <1>0, <1>1, <1>2 DEF TypeOK, UnknownBeforeItExists, Answered, Flight
  <2>4. CompletedIsKnown'
    BY <1>0, <1>2, <2>1 DEF TypeOK, CompletedIsKnown, OnTheWay, Answered, Flight
  <2> QED
    BY <2>2, <2>3, <2>4
<1>3. CASE NotAnswered(q)
  <2>1. TypeOK'
    BY <1>3 DEF TypeOK, NotAnswered
  <2>2. UnknownBeforeItExists'
    BY <1>3 DEF TypeOK, UnknownBeforeItExists, NotAnswered, Flight
  <2>3. CompletedIsKnown'
    BY <1>3 DEF TypeOK, CompletedIsKnown, OnTheWay, NotAnswered, Flight
  <2> QED
    BY <2>1, <2>2, <2>3
<1>4. CASE UpdateJobStatus(q)
  <2>1. TypeOK'
    BY <1>0, <1>4 DEF TypeOK, UpdateJobStatus
  <2>2. UnknownBeforeItExists'
    BY <1>0, <1>1, <1>4 DEF TypeOK, UnknownBeforeItExists, UpdateJobStatus, Flight
  <2>3. flight[q] = "completed" => status[j] = "completed"
    BY <1>0 DEF CompletedIsKnown, OnTheWay
  <2>4. CompletedIsKnown'
    BY <1>0, <1>4, <2>3 DEF TypeOK, CompletedIsKnown, OnTheWay, UpdateJobStatus, Flight
  <2> QED
    BY <2>1, <2>2, <2>4
<1> QED
  BY <1>2, <1>3, <1>4

\* A step that changes nothing.
LEMMA StutterPInv == ASSUME PInv, UNCHANGED vars PROVE PInv'
BY DEF PInv, TypeOK, UnknownBeforeItExists, CompletedIsKnown, OnTheWay, Created, vars, server,
       store, pageVars

\* A fetch brings each session once, and an upload adds its own once.
LEMMA OnceBeforeUploadStep ==
  ASSUME TypeOK, OnceBeforeUpload, [Next]_vars PROVE OnceBeforeUpload'
<1> USE DEF TypeOK, OnceBeforeUpload, server, store, pageVars
<1>1. CASE ServerStep
  BY <1>1 DEF ServerStep
<1>2. ASSUME NEW j \in Job,
             SessionCreated(j) \/ JobAccepted(j) \/ DocumentsAnswered(j) \/ AddJob(j)
      PROVE  OnceBeforeUpload'
  BY <1>2 DEF SessionCreated, JobAccepted, DocumentsAnswered, AddJob, ShownStatuses
<1>3. ASSUME NEW m \in Mount,
             \/ MountPage(m) \/ SessionsAnswered(m) \/ SessionsArrive(m)
             \/ SetSessions(m) \/ FetchFails(m)
      PROVE  OnceBeforeUpload'
  BY <1>3 DEF MountPage, SessionsAnswered, SessionsArrive, SetSessions, FetchFails, EndFetch
<1>4. CASE UnmountPage \/ PollJobs
  BY <1>4 DEF UnmountPage, PollJobs
<1>5. ASSUME NEW q \in Flight, Answered(q) \/ NotAnswered(q) \/ UpdateJobStatus(q)
      PROVE  OnceBeforeUpload'
  BY <1>5 DEF Answered, NotAnswered, UpdateJobStatus
<1>6. CASE UNCHANGED vars
  BY <1>6 DEF vars
<1> QED
  BY <1>1, <1>2, <1>3, <1>4, <1>5, <1>6 DEF Next

-----------------------------------------------------------------------------
(* The theorems.                                                           *)

\* What the browser holds, in its store or on the way there, is of jobs that exist, and
\* "completed" only of completed ones.
THEOREM BrowserInvariance == Spec => []PInv
<1>1. Init => OnceBeforeUpload
  <2> SUFFICES ASSUME Init PROVE OnceBeforeUpload
    OBVIOUS
  <2> QED
    BY DEF Init, OnceBeforeUpload
<1>2. PInv /\ OnceBeforeUpload /\ [Next]_vars => PInv'
  BY ServerPInv, UploadPInv, MountPInv, UnmountPInv, PollPInv, RequestPInv, StutterPInv
     DEF Next
<1>3. PInv /\ OnceBeforeUpload /\ [Next]_vars => OnceBeforeUpload'
  BY OnceBeforeUploadStep DEF PInv
<1> QED
  BY InitPInv, <1>1, <1>2, <1>3, PTL DEF Spec

\* Every variable of the browser keeps its type: a status is never applied to the store, nor
\* merged into it, that the page has no word for.
THEOREM BrowserTypeCorrect == Spec => []TypeOK
<1>1. PInv => TypeOK
  BY DEF PInv
<1> QED
  BY BrowserInvariance, <1>1, PTL

\* A job that is shown completed is completed, in whatever order answers, snapshots and
\* uploads reach the store.
THEOREM ShownCompletedIsTrue == Spec => []CompletedIsTrue
<1>1. PInv => CompletedIsTrue
  BY DEF PInv, CompletedIsKnown, OnTheWay, CompletedIsTrue
<1> QED
  BY BrowserInvariance, <1>1, PTL
-----------------------------------------------------------------------------
(* Jobs are kept.                                                          *)

\* Only what an upload has added is in the store, or in what a fetch read of it.
ShownWereAdded ==
  \A j \in Job : /\ shown[j] # "absent" => upload[j] = "done"
                 /\ \A m \in Mount : snapshot[m][j] # "absent" => upload[j] = "done"

\* What the fetch of a mount read, or will read, of the store has the job.
WillKeep(m, j) ==
  /\ mount[m] \in {"asked", "answered"} => mounted = m \/ snapshot[m][j] # "absent"
  /\ mount[m] = "merging" => snapshot[m][j] # "absent"

\* The store has the job, its session once, and whatever fetch is under way knows of it.
Kept(j) ==
  /\ shown[j] # "absent"
  /\ copies[j] = 1
  /\ upload[j] = "done"
  /\ \A m \in Mount : WillKeep(m, j)

\* A step that gives a job to the store, or to a snapshot, is of one that was added.
LEMMA ShownWereAddedStep ==
  ASSUME TypeOK, ShownWereAdded, [Next]_vars PROVE ShownWereAdded'
<1> USE DEF TypeOK, ShownWereAdded, server, store, pageVars
<1>1. CASE ServerStep
  BY <1>1 DEF ServerStep
<1>2. ASSUME NEW j \in Job,
             SessionCreated(j) \/ JobAccepted(j) \/ DocumentsAnswered(j) \/ AddJob(j)
      PROVE  ShownWereAdded'
  BY <1>2 DEF SessionCreated, JobAccepted, DocumentsAnswered, AddJob
<1>3. ASSUME NEW m \in Mount,
             MountPage(m) \/ SessionsAnswered(m) \/ SessionsArrive(m)
      PROVE  ShownWereAdded'
  BY <1>3 DEF MountPage, SessionsAnswered, SessionsArrive, Mapped
<1>4. ASSUME NEW m \in Mount, SetSessions(m) \/ FetchFails(m)
      PROVE  ShownWereAdded'
  BY <1>4 DEF SetSessions, FetchFails, EndFetch
<1>5. CASE UnmountPage
  BY <1>5 DEF UnmountPage, Mapped
<1>6. CASE PollJobs
  BY <1>6 DEF PollJobs
<1>7. ASSUME NEW q \in Flight, Answered(q) \/ NotAnswered(q) \/ UpdateJobStatus(q)
      PROVE  ShownWereAdded'
  <2>1. q[1] \in Job
    BY DEF Flight
  <2> QED
    BY <1>7, <2>1 DEF Answered, NotAnswered, UpdateJobStatus
<1>8. CASE UNCHANGED vars
  BY <1>8 DEF vars
<1> QED
  BY <1>1, <1>2, <1>3, <1>4, <1>5, <1>6, <1>7, <1>8 DEF Next

\* What the steps of a mount and its fetch leave of a kept job.
LEMMA MountKeeps ==
  ASSUME TypeOK, NEW j \in Job, Kept(j), Listed(j), NEW m \in Mount,
         \/ MountPage(m) \/ SessionsAnswered(m) \/ SessionsArrive(m)
         \/ SetSessions(m) \/ FetchFails(m)
  PROVE  Kept(j)'
<1> USE DEF TypeOK, Kept, WillKeep, server, store
<1>1. CASE MountPage(m)
  BY <1>1, ConstantsAssumption DEF MountPage
<1>2. CASE SessionsAnswered(m)
  BY <1>2 DEF SessionsAnswered
<1>3. CASE SessionsArrive(m)
  BY <1>3 DEF SessionsArrive, Mapped
<1>4. CASE SetSessions(m)
  BY <1>4 DEF SetSessions, EndFetch, Listed
<1>5. CASE FetchFails(m)
  BY <1>5 DEF FetchFails, EndFetch
<1> QED
  BY <1>1, <1>2, <1>3, <1>4, <1>5

\* Whatever happens, a kept job whose session is listed stays one.
LEMMA KeptStaysKept ==
  ASSUME TypeOK, [Next]_vars, NEW j \in Job, Kept(j), Listed(j) PROVE Kept(j)'
<1> USE DEF TypeOK, Kept, WillKeep, server, store, pageVars
<1>1. CASE ServerStep
  BY <1>1 DEF ServerStep
<1>2. ASSUME NEW k \in Job,
             SessionCreated(k) \/ JobAccepted(k) \/ DocumentsAnswered(k) \/ AddJob(k)
      PROVE  Kept(j)'
  BY <1>2 DEF SessionCreated, JobAccepted, DocumentsAnswered, AddJob, ShownStatuses
<1>3. CASE UnmountPage
  BY <1>3 DEF UnmountPage, Mapped
<1>4. CASE PollJobs
  BY <1>4 DEF PollJobs
<1>5. ASSUME NEW q \in Flight, Answered(q) \/ NotAnswered(q) \/ UpdateJobStatus(q)
      PROVE  Kept(j)'
  <2>1. q[1] \in Job
    BY DEF Flight
  <2> QED
    BY <1>5, <2>1 DEF Answered, NotAnswered, UpdateJobStatus, ShownStatuses
<1>6. CASE UNCHANGED vars
  BY <1>6 DEF vars
<1> QED
  BY <1>1, <1>2, <1>3, <1>4, <1>5, <1>6, MountKeeps DEF Next

\* A job that is in the store while no fetchData() is under way, its session there once, is
\* not lost from it as long as the server's lists name its session.
THEOREM ShownJobsAreKept == Spec => JobsAreKept
<1>1. ASSUME NEW j \in Job
      PROVE  Spec => [](shown[j] # "absent" /\ copies[j] = 1 /\ ~ Fetching
                          => ([]Listed(j) => [](shown[j] # "absent")))
  <2>1. Init => ShownWereAdded
    <3> SUFFICES ASSUME Init PROVE ShownWereAdded
      OBVIOUS
    <3> QED
      BY DEF Init, ShownWereAdded
  <2>2. TypeOK /\ ShownWereAdded /\ [Next]_vars => ShownWereAdded'
    BY ShownWereAddedStep
  <2>3. ShownWereAdded /\ shown[j] # "absent" /\ copies[j] = 1 /\ ~ Fetching => Kept(j)
    BY DEF ShownWereAdded, Fetching, Kept, WillKeep
  <2>4. TypeOK /\ Kept(j) /\ Listed(j) /\ [Next]_vars => Kept(j)'
    BY KeptStaysKept
  <2>5. Kept(j) => shown[j] # "absent"
    BY DEF Kept
  <2> QED
    BY <2>1, <2>2, <2>3, <2>4, <2>5, BrowserTypeCorrect, PTL DEF Spec
<1> QED
  BY <1>1 DEF JobsAreKept
-----------------------------------------------------------------------------
(* Completed stays completed.                                              *)

\* Only a fetch that is under way holds a copy of the store.
SnapshotsAreOfFetches ==
  \A m \in Mount : mount[m] \in {"new", "done"} =>
    \A j \in Job : snapshot[m][j] = "absent"

\* No answer with an earlier status of the job is still to be applied.
NoOlderAnswer(j) == \A n \in 1 .. MaxFlight : flight[<<j, n>>] \in {"idle", "sent", "completed"}

\* The job is kept as a completed one: nothing that may still reach the store says otherwise.
KeptCompleted(j) ==
  /\ Kept(j)
  /\ status[j] = "completed" /\ shown[j] = "completed"
  /\ NoOlderAnswer(j)
  /\ \A m \in Mount : snapshot[m][j] \in {"absent", "completed"}

\* A job that is shown completed while no fetchData() is under way, and no answer to an
\* earlier question, stays so as long as it is kept at all (JobsAreKept): neither a later
\* fetch nor a later answer or upload brings an earlier status back.
CompletedStaysShown ==
  \A j \in Job :
    [](shown[j] = "completed" /\ copies[j] = 1 /\ ~ Fetching /\ NoOlderAnswer(j)
         => ([]Listed(j) => [](shown[j] = "completed")))

\* A copy of the store is made for a fetch and goes with it.
LEMMA SnapshotsAreOfFetchesStep ==
  ASSUME TypeOK, SnapshotsAreOfFetches, [Next]_vars PROVE SnapshotsAreOfFetches'
<1> USE DEF TypeOK, SnapshotsAreOfFetches, server, store, pageVars
<1>1. CASE ServerStep
  BY <1>1 DEF ServerStep
<1>2. ASSUME NEW j \in Job,
             SessionCreated(j) \/ JobAccepted(j) \/ DocumentsAnswered(j) \/ AddJob(j)
      PROVE  SnapshotsAreOfFetches'
  BY <1>2 DEF SessionCreated, JobAccepted, DocumentsAnswered, AddJob
<1>3. ASSUME NEW m \in Mount, MountPage(m) \/ SessionsAnswered(m) \/ SessionsArrive(m)
      PROVE  SnapshotsAreOfFetches'
  BY <1>3 DEF MountPage, SessionsAnswered, SessionsArrive
<1>4. ASSUME NEW m \in Mount, SetSessions(m) \/ FetchFails(m)
      PROVE  SnapshotsAreOfFetches'
  BY <1>4 DEF SetSessions, FetchFails, EndFetch
<1>5. CASE UnmountPage
  BY <1>5 DEF UnmountPage
<1>6. CASE PollJobs
  BY <1>6 DEF PollJobs
<1>7. ASSUME NEW q \in Flight, Answered(q) \/ NotAnswered(q) \/ UpdateJobStatus(q)
      PROVE  SnapshotsAreOfFetches'
  BY <1>7 DEF Answered, NotAnswered, UpdateJobStatus
<1>8. CASE UNCHANGED vars
  BY <1>8 DEF vars
<1> QED
  BY <1>1, <1>2, <1>3, <1>4, <1>5, <1>6, <1>7, <1>8 DEF Next

\* Whatever happens, a job kept as completed stays one while its session is listed.
LEMMA KeptCompletedStays ==
  ASSUME TypeOK, [Next]_vars, NEW j \in Job, KeptCompleted(j), Listed(j)
  PROVE  KeptCompleted(j)'
<1> USE DEF KeptCompleted, NoOlderAnswer, server, store, pageVars
<1>0. Kept(j)'
  BY KeptStaysKept
<1>1. CASE ServerStep
  BY <1>0, <1>1, CompletedStays DEF ServerStep
<1>2. ASSUME NEW k \in Job,
             SessionCreated(k) \/ JobAccepted(k) \/ DocumentsAnswered(k) \/ AddJob(k)
      PROVE  KeptCompleted(j)'
  BY <1>0, <1>2 DEF TypeOK, Kept, SessionCreated, JobAccepted, DocumentsAnswered, AddJob,
                    ShownStatuses
<1>3. ASSUME NEW m \in Mount, MountPage(m) \/ SessionsAnswered(m) \/ SessionsArrive(m)
      PROVE  KeptCompleted(j)'
  BY <1>0, <1>3 DEF TypeOK, Kept, MountPage, SessionsAnswered, SessionsArrive, Mapped
<1>4. ASSUME NEW m \in Mount, SetSessions(m) \/ FetchFails(m)
      PROVE  KeptCompleted(j)'
  <2>1. CASE SetSessions(m)
    <3>1. j \in listed[m] /\ snapshot[m][j] = "completed"
      BY <2>1 DEF Kept, WillKeep, Listed, SetSessions
    <3>2. shown'[j] = "completed"
      BY <2>1, <3>1 DEF SetSessions
    <3>3. \A k \in Mount : snapshot'[k][j] \in {"absent", "completed"}
      BY <2>1 DEF TypeOK, SetSessions, EndFetch
    <3> QED
      BY <1>0, <2>1, <3>2, <3>3 DEF SetSessions
  <2>2. CASE FetchFails(m)
    BY <1>0, <2>2 DEF TypeOK, FetchFails, EndFetch
  <2> QED
    BY <1>4, <2>1, <2>2
<1>5. CASE UnmountPage
  BY <1>0, <1>5 DEF TypeOK, Kept, UnmountPage, Mapped
<1>6. CASE PollJobs
  <2>1. \A n \in 1 .. MaxFlight : flight'[<<j, n>>] \in {flight[<<j, n>>], "sent"}
    BY <1>6 DEF TypeOK, PollJobs, Flight
  <2> QED
    BY <1>0, <1>6, <2>1 DEF PollJobs
<1>7. ASSUME NEW q \in Flight, Answered(q) \/ NotAnswered(q) \/ UpdateJobStatus(q)
      PROVE  KeptCompleted(j)'
  <2>1. PICK k \in Job, n \in 1 .. MaxFlight : q = <<k, n>>
    BY DEF Flight
  <2>2. CASE Answered(q)
    BY <1>0, <2>1, <2>2 DEF TypeOK, Answered, Flight, mapJobStatus
  <2>3. CASE NotAnswered(q)
    BY <1>0, <2>3 DEF TypeOK, NotAnswered, Flight
  <2>4. CASE UpdateJobStatus(q)
    BY <1>0, <2>1, <2>4 DEF TypeOK, UpdateJobStatus, Flight, ShownStatuses
  <2> QED
    BY <1>7, <2>2, <2>3, <2>4
<1>8. CASE UNCHANGED vars
  BY <1>0, <1>8 DEF vars
<1> QED
  BY <1>1, <1>2, <1>3, <1>4, <1>5, <1>6, <1>7, <1>8 DEF Next

\* Once the answers to earlier questions are through, a job that is shown completed stays so
\* while its session is listed: what later fetches, mounts, polls and uploads bring is no older.
THEOREM CompletedIsFinal == Spec => CompletedStaysShown
<1>1. ASSUME NEW j \in Job
      PROVE  Spec => [](shown[j] = "completed" /\ copies[j] = 1 /\ ~ Fetching
                          /\ NoOlderAnswer(j)
                          => ([]Listed(j) => [](shown[j] = "completed")))
  <2>1. Init => ShownWereAdded /\ SnapshotsAreOfFetches
    <3> SUFFICES ASSUME Init PROVE ShownWereAdded /\ SnapshotsAreOfFetches
      OBVIOUS
    <3> QED
      BY DEF Init, ShownWereAdded, SnapshotsAreOfFetches
  <2>2. TypeOK /\ ShownWereAdded /\ [Next]_vars => ShownWereAdded'
    BY ShownWereAddedStep
  <2>3. TypeOK /\ SnapshotsAreOfFetches /\ [Next]_vars => SnapshotsAreOfFetches'
    BY SnapshotsAreOfFetchesStep
  <2>4. TypeOK /\ CompletedIsTrue /\ ShownWereAdded /\ SnapshotsAreOfFetches
        /\ shown[j] = "completed" /\ copies[j] = 1 /\ ~ Fetching /\ NoOlderAnswer(j)
        => KeptCompleted(j)
    BY DEF TypeOK, CompletedIsTrue, ShownWereAdded, SnapshotsAreOfFetches, Fetching, Kept,
           WillKeep, KeptCompleted
  <2>5. TypeOK /\ KeptCompleted(j) /\ Listed(j) /\ [Next]_vars => KeptCompleted(j)'
    BY KeptCompletedStays
  <2>6. KeptCompleted(j) => shown[j] = "completed"
    BY DEF KeptCompleted
  <2> QED
    BY <2>1, <2>2, <2>3, <2>4, <2>5, <2>6, BrowserTypeCorrect, ShownCompletedIsTrue, PTL
       DEF Spec
<1> QED
  BY <1>1 DEF CompletedStaysShown
=============================================================================
