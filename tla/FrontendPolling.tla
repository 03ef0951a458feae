---------------------------- MODULE FrontendPolling ----------------------------
(***************************************************************************)
(* What a browser shows of the jobs: the upload in pages/UploadPage.tsx,   *)
(* the session fetch and the polling in pages/DocumentsPage.tsx and the    *)
(* reducers of store/slices/jobs.slice.ts (under src/frontend/src).        *)
(*                                                                         *)
(* The server's side of a job is JobStatus, the specification JobLifecycle *)
(* is shown to implement.  Requests answer in any order or not at all; an  *)
(* answer holds the status at the time the server gave it.                 *)
(***************************************************************************)
EXTENDS Naturals

CONSTANTS
  Job,        \* each uploaded on its own, with a session of its own
  Tabular,    \* the jobs that hand rows over to be stored
  NoMount,    \* DocumentsPage is not there
  Mount,      \* bound: the times DocumentsPage is mounted
  MaxFlight,  \* bound: status requests of one job in flight
  MaxHanded   \* bound: how often one job hands its rows over

ASSUME ConstantsAssumption ==
  /\ Tabular \subseteq Job
  /\ NoMount \notin Mount
  /\ MaxFlight \in Nat \ {0} /\ MaxHanded \in Nat

Flight == Job \X (1 .. MaxFlight)

VARIABLES
  status, handed, \* the server
  upload,   \* per job: what handleExtract knows of it
  copies,   \* per job: how often the Redux store has its session
  shown,    \* per job: its status in the first of them, "absent" if it is not there
  flight,   \* the status requests
  mount,    \* per mount: where its fetchData() stands
  listed,   \* per mount: the jobs whose session is in the server's list
  snapshot, \* per mount: sessionsRef.current when the list arrived
  mounted   \* the mount whose page, and with it the interval, is there

server == <<status, handed>>
store == <<copies, shown>>
pageVars == <<mount, listed, snapshot, mounted>>
vars == <<server, upload, store, flight, pageVars>>

Server == INSTANCE JobStatus

ShownStatuses == {"waiting", "processing", "completed", "failed"}

TypeOK ==
  /\ status \in [Job -> {"none", "queued", "running", "completed", "failed"}]
  /\ handed \in [Job -> 0 .. MaxHanded]
  /\ upload \in [Job -> {"none", "session", "sent", "done"} \union ShownStatuses]
  /\ copies \in [Job -> 0 .. 2]
  /\ shown \in [Job -> {"absent"} \union ShownStatuses]
  /\ flight \in [Flight -> {"idle", "sent"} \union ShownStatuses]
  /\ mount \in [Mount -> {"new", "asked", "answered", "merging", "done"}]
  /\ listed \in [Mount -> SUBSET Job]
  /\ snapshot \in [Mount -> [Job -> {"absent"} \union ShownStatuses]]
  /\ mounted \in Mount \union {NoMount}

Init ==
  /\ Server!Init
  /\ upload = [j \in Job |-> "none"]
  /\ copies = [j \in Job |-> 0]
  /\ shown = [j \in Job |-> "absent"]
  /\ flight = [q \in Flight |-> "idle"]
  /\ mount = [m \in Mount |-> "new"]
  /\ listed = [m \in Mount |-> {}]
  /\ snapshot = [m \in Mount |-> [j \in Job |-> "absent"]]
  /\ mounted = NoMount

ServerStep ==
  /\ Server!Next
  /\ \A j \in Job : handed'[j] <= MaxHanded
  /\ UNCHANGED <<upload, store, flight, pageVars>>

\* Mutant of mapJobStatus: the status of the row as it is.
MapJobStatusRaw(s) == s

\* Mutant of mapJobStatus: a running job is shown completed.
MapJobStatusOptimistic(s) ==
  CASE s = "queued" -> "waiting" [] s = "running" -> "completed" [] OTHER -> s

\* The status a response carries.
mapJobStatus(s) ==
  CASE s = "queued" -> "waiting" [] s = "running" -> "processing" [] OTHER -> s

-----------------------------------------------------------------------------
(* The upload.                                                             *)

\* handleExtract has created the session on the server.
SessionCreated(j) ==
  /\ upload[j] = "none"
  /\ upload' = [upload EXCEPT ![j] = "session"]
  /\ UNCHANGED <<server, store, flight, pageVars>>

\* POST extract has answered: the job's row exists.  handleExtract asks for the
\* documents of the jobs.
JobAccepted(j) ==
  /\ upload[j] = "session"
  /\ status[j] # "none"
  /\ upload' = [upload EXCEPT ![j] = "sent"]
  /\ UNCHANGED <<server, store, flight, pageVars>>

\* The answer holds the job's status, or lacks the job (its document is gone) and
\* leaves handleExtract with the "waiting" of the first response.
DocumentsAnswered(j) ==
  /\ upload[j] = "sent"
  /\ \E answer \in {mapJobStatus(status[j]), "waiting"} :
        upload' = [upload EXCEPT ![j] = answer]
  /\ UNCHANGED <<server, store, flight, pageVars>>

\* createSession adds the session, were it there or not, and addJobsToSession puts the job into
\* the first session of that id; navigate() brings DocumentsPage (MountPage).
AddJob(j) ==
  /\ upload[j] \in ShownStatuses
  /\ copies' = [copies EXCEPT ![j] = @ + 1]
  /\ shown' = [shown EXCEPT ![j] = upload[j]]
  /\ upload' = [upload EXCEPT ![j] = "done"]
  /\ UNCHANGED <<server, flight, pageVars>>

-----------------------------------------------------------------------------
(* DocumentsPage.                                                          *)

MountPage(m) ==
  /\ mounted = NoMount
  /\ mount[m] = "new"
  /\ mount' = [mount EXCEPT ![m] = "asked"]
  /\ mounted' = m
  /\ UNCHANGED <<server, upload, store, flight, listed, snapshot>>

\* The jobs fetchData() finds in sessionsRef.current: its Map keeps the last of two sessions of
\* one id, and that one is empty.
Mapped == [j \in Job |-> IF copies[j] > 1 THEN "absent" ELSE shown[j]]

\* The interval is cleared; requests and fetchData() go on, with the sessionsRef of the
\* page's last rendering.
UnmountPage ==
  /\ mounted # NoMount
  /\ mounted' = NoMount
  /\ snapshot' = [snapshot EXCEPT ![mounted] =
       IF mount[mounted] \in {"asked", "answered"} THEN Mapped ELSE @]
  /\ UNCHANGED <<server, upload, store, flight, mount, listed>>

\* The server answers with the newest 100 sessions it has, without those other clients deleted.
SessionsAnswered(m) ==
  /\ mount[m] = "asked"
  /\ mount' = [mount EXCEPT ![m] = "answered"]
  /\ \E some \in SUBSET {j \in Job : upload[j] # "none"} : listed' = [listed EXCEPT ![m] = some]
  /\ UNCHANGED <<server, upload, store, flight, snapshot, mounted>>

\* The list arrives: fetchData() reads sessionsRef.current, then asks for the documents of
\* one session after the other.
SessionsArrive(m) ==
  /\ mount[m] = "answered"
  /\ mount' = [mount EXCEPT ![m] = "merging"]
  /\ snapshot' = [snapshot EXCEPT ![m] = IF mounted = m THEN Mapped ELSE @]
  /\ UNCHANGED <<server, upload, store, flight, listed, mounted>>

\* fetchData() is over, its local variables with it.
EndFetch(m) ==
  /\ mount' = [mount EXCEPT ![m] = "done"]
  /\ listed' = [listed EXCEPT ![m] = {}]
  /\ snapshot' = [snapshot EXCEPT ![m] = [j \in Job |-> "absent"]]

\* Mutant of SetSessions: only what the server sends is kept.
SetSessionsOfServer(m) ==
  /\ mount[m] = "merging"
  /\ EndFetch(m)
  /\ copies' = [j \in Job |-> IF j \in listed[m] THEN 1 ELSE 0]
  /\ shown' = [j \in Job |-> "absent"]
  /\ UNCHANGED <<server, upload, flight, mounted>>

\* setSessions replaces the store by the listed sessions, each once, with the jobs of the
\* snapshot: the documents of a session come without a jobId, so that only those are merged.
SetSessions(m) ==
  /\ mount[m] = "merging"
  /\ EndFetch(m)
  /\ copies' = [j \in Job |-> IF j \in listed[m] THEN 1 ELSE 0]
  /\ shown' = [j \in Job |-> IF j \in listed[m] THEN snapshot[m][j] ELSE "absent"]
  /\ UNCHANGED <<server, upload, flight, mounted>>

\* A request of fetchData() failed: it is logged.
FetchFails(m) ==
  /\ mount[m] \in {"asked", "answered", "merging"}
  /\ EndFetch(m)
  /\ UNCHANGED <<server, upload, store, flight, mounted>>

\* Mutant of Polled: failed and completed jobs are polled as well.
PolledAlways == {j \in Job : shown[j] # "absent"}

\* Mutant of Polled: only what has not started is polled.
PolledWaiting == {j \in Job : shown[j] = "waiting"}

\* The jobs pollJobs() asks for.
Polled == {j \in Job : shown[j] \in {"waiting", "processing"}}

FreeSlot(j) == CHOOSE n \in 1 .. MaxFlight : flight[<<j, n>>] = "idle"

\* One tick of the interval: a request for every polled job, whatever is in flight.
PollJobs ==
  LET sent == {<<j, FreeSlot(j)>> : j \in {k \in Polled : \E n \in 1 .. MaxFlight : flight[<<k, n>>] = "idle"}} IN
  /\ mounted # NoMount
  /\ sent # {}
  /\ flight' = [q \in Flight |-> IF q \in sent THEN "sent" ELSE flight[q]]
  /\ UNCHANGED <<server, upload, store, pageVars>>

Answered(q) ==
  /\ flight[q] = "sent"
  /\ flight' = [flight EXCEPT ![q] = mapJobStatus(status[q[1]])]
  /\ UNCHANGED <<server, upload, store, pageVars>>

\* The request failed or was answered "Job not found": ignored.
NotAnswered(q) ==
  /\ flight[q] = "sent"
  /\ flight' = [flight EXCEPT ![q] = "idle"]
  /\ UNCHANGED <<server, upload, store, pageVars>>

\* updateJobStatus: the answer that arrives last wins.
UpdateJobStatus(q) ==
  LET j == q[1] IN
  /\ flight[q] \in ShownStatuses
  /\ shown' = [shown EXCEPT ![j] = IF @ = "absent" THEN @ ELSE flight[q]]
  /\ flight' = [flight EXCEPT ![q] = "idle"]
  /\ UNCHANGED <<server, upload, copies, pageVars>>

-----------------------------------------------------------------------------
Next ==
  \/ ServerStep
  \/ \E j \in Job : SessionCreated(j) \/ JobAccepted(j) \/ DocumentsAnswered(j) \/ AddJob(j)
  \/ \E m \in Mount : \/ MountPage(m) \/ SessionsAnswered(m) \/ SessionsArrive(m)
                     \/ SetSessions(m) \/ FetchFails(m)
  \/ UnmountPage
  \/ PollJobs
  \/ \E q \in Flight : Answered(q) \/ NotAnswered(q) \/ UpdateJobStatus(q)

Spec == Init /\ [][Next]_vars

\* The interval ticks, fetchData() and requests end, and not every one of the
\* requests fails.
Fairness ==
  /\ WF_vars(PollJobs)
  /\ \A m \in Mount :
       WF_vars(SessionsAnswered(m) \/ SessionsArrive(m) \/ SetSessions(m) \/ FetchFails(m))
  /\ \A q \in Flight : SF_vars(Answered(q)) /\ WF_vars(UpdateJobStatus(q))

FairSpec == Spec /\ Fairness

-----------------------------------------------------------------------------
(* Safety.                                                                 *)

\* In whatever order answers, old snapshots and uploads reach the store, a job that
\* is shown completed is completed.
CompletedIsTrue ==
  \A j \in Job : shown[j] = "completed" => status[j] = "completed"

\* A job the store has while no fetchData() is under way stays there, whatever fetches,
\* unmounts and answers follow, as long as its session was in the store once and every list
\* the server sends names it.  Otherwise the next fetch drops it: a session in the store twice
\* loses the copy that has the job, one deleted by others or not among the newest 100 goes
\* with its jobs, and a fetch that is under way does not know of it (DocumentsPage.tsx
\* 103-145, UploadPage.tsx 92-93, jobs.slice.ts 38-60).
Fetching == \E m \in Mount : mount[m] \in {"asked", "answered", "merging"}
Listed(j) == \A m \in Mount : mount[m] \in {"answered", "merging"} => j \in listed[m]
JobsAreKept ==
  \A j \in Job :
    [](shown[j] # "absent" /\ copies[j] = 1 /\ ~ Fetching
         => ([]Listed(j) => [](shown[j] # "absent")))

(* Liveness, under FairSpec.                                               *)

Watched(j) == mounted # NoMount /\ shown[j] # "absent"
AtRest == {"completed", "failed"}

\* A job that comes to rest, however it ends, is shown at rest in the end and stays so,
\* although older answers and snapshots may overwrite a newer status for a while; and one
\* that never reads failed is shown completed (DocumentsPage.tsx 100-150, 203-240).  A
\* failed attempt the polling has read may be shown for good: hence no more than this.
RestIsShown ==
  \A j \in Job :
     <>[](status[j] \in AtRest /\ Watched(j)) =>
        /\ <>[](shown[j] \in AtRest)
        /\ [](status[j] # "failed") => <>[](shown[j] = "completed")

\* When every job of the server has come to its end, the polling ends.
PollingStops ==
  (\A j \in Job : \E end \in {"none", "completed", "failed"} : <>[](status[j] = end))
    => <>[](\A q \in Flight : flight[q] = "idle")
=============================================================================
