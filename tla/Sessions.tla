------------------------------- MODULE Sessions -------------------------------
(***************************************************************************)
(* The names of the sessions, on the server (services/sessions.service.ts, *)
(* repositories/session.repository.ts, under src/backend/src) and in one   *)
(* browser: handleExtract in pages/UploadPage.tsx, the fetch and the       *)
(* editor of a name in pages/DocumentsPage.tsx, and the reducers of        *)
(* store/slices/jobs.slice.ts (under src/frontend/src).                    *)
(*                                                                         *)
(* The jobs of a session are FrontendPolling.  Every name is marked with   *)
(* the session it was given to; a browser starts, as after a reload, with  *)
(* an empty store and whatever the server has.                             *)
(***************************************************************************)
EXTENDS Integers, Sequences, InOrder

CONSTANTS
  MaxSessions,  \* bound: sessions ever created on the server
  Local,        \* bound: the ids handleCreateSession makes up in the browser
  NoSession,
  Text,         \* what is typed for a name
  New,          \* the name a session is created with
  PageSize,     \* what getAll(0, 100) asks for
  Save,         \* bound: renames under way
  Fetch,        \* bound: fetchData() under way
  MaxShown      \* bound: sessions in the store when one is added

ASSUME ConstantsAssumption ==
  /\ MaxSessions \in Nat /\ PageSize \in Nat \ {0}
  /\ New \notin Text
  /\ NoSession \notin 1 .. MaxSessions \union Local
  /\ Local \intersect 1 .. MaxSessions = {}

Session == 1 .. MaxSessions  \* in the order they are created
Id == Session \union Local
Name == Id \X (Text \union {New})
Absent == <<NoSession, New>>

VARIABLES
  names,    \* the table sessions: per session its name, or Absent
  created,  \* sessions created so far
  pending,  \* sessions whose handleExtract has not ended
  store,    \* the sessions of the Redux store, each with its id and its name
  page,     \* is DocumentsPage there?
  editing,  \* editingSessionId
  fetch,    \* per fetch: where it stands, and the list it was answered
  save,     \* per rename: where it stands, its session and name, and its page
  unused    \* the made-up ids not used yet

server == <<names, created>>
vars == <<server, pending, store, page, editing, fetch, save, unused>>

Shown == Seq([id : Id, name : Name])
NoFetch == [step |-> "idle", list |-> <<>>]
NoSave == [step |-> "idle", name |-> Absent, here |-> FALSE]

TypeOK ==
  /\ names \in [Session -> Name \union {Absent}]
  /\ created \in 0 .. MaxSessions
  /\ pending \subseteq 1 .. created
  /\ store \in Shown
  /\ page \in BOOLEAN
  /\ editing \in Id \union {NoSession}
  /\ ~ page => editing = NoSession
  /\ fetch \in [Fetch -> [step : {"idle", "asked", "listed"}, list : Shown]]
  /\ save \in [Save -> [step : {"idle", "sent", "answered"}, name : Name \union {Absent},
                        here : BOOLEAN]]
  /\ unused \subseteq Local

Init ==
  /\ created \in 0 .. MaxSessions
  /\ names = [s \in Session |-> IF s <= created THEN <<s, New>> ELSE Absent]
  /\ pending = {}
  /\ store = <<>>
  /\ page = FALSE /\ editing = NoSession
  /\ fetch = [f \in Fetch |-> NoFetch]
  /\ save = [u \in Save |-> NoSave]
  /\ unused = Local

-----------------------------------------------------------------------------
(* The server.                                                             *)

Entry(id, name) == [id |-> id, name |-> name]

\* findAll: the newest sessions first, and of those one page.
FindAll ==
  LET ids == InOrder({s \in Session : names[s] # Absent})
  IN [k \in 1 .. (IF Len(ids) < PageSize THEN Len(ids) ELSE PageSize) |->
        Entry(ids[Len(ids) + 1 - k], names[ids[Len(ids) + 1 - k]])]

\* Repository.update: a row that is not there is not updated.
UpdateRow(s, name) ==
  names' = [names EXCEPT ![s] = IF @ = Absent THEN @ ELSE name]

\* Another client.
DeleteSession(s) ==
  /\ names[s] # Absent
  /\ names' = [names EXCEPT ![s] = Absent]
  /\ UNCHANGED <<created, pending, store, page, editing, fetch, save, unused>>

UpdatedElsewhere(s) ==
  /\ names[s] # Absent
  /\ \E t \in Text : UpdateRow(s, <<s, t>>)
  /\ UNCHANGED <<created, pending, store, page, editing, fetch, save, unused>>

-----------------------------------------------------------------------------
(* UploadPage: handleExtract.                                              *)

\* sessions.create; without an answer handleExtract ends.  It may run several times at
\* once: leaving the page does not stop it.
CreateOnServer ==
  /\ created < MaxSessions
  /\ created' = created + 1
  /\ names' = [names EXCEPT ![created + 1] = <<created + 1, New>>]
  /\ pending' \in {pending, pending \union {created + 1}}
  /\ UNCHANGED <<store, page, editing, fetch, save, unused>>

\* extract or by-jobs fails: the session stays on the server.
ExtractFails(s) ==
  /\ s \in pending
  /\ pending' = pending \ {s}
  /\ UNCHANGED <<server, store, page, editing, fetch, save, unused>>

\* DocumentsPage mounts, and with it starts fetchData().
MountPage ==
  /\ ~ page
  /\ page' = TRUE
  /\ \E f \in Fetch : /\ fetch[f] = NoFetch
                      /\ fetch' = [fetch EXCEPT ![f].step = "asked"]

\* createSession and navigate; the store may have the session already.
AddSession(s) ==
  /\ s \in pending
  /\ Len(store) < MaxShown
  /\ pending' = pending \ {s}
  /\ store' = Append(store, Entry(s, <<s, New>>))
  /\ MountPage \/ (page /\ UNCHANGED <<page, fetch>>)
  /\ UNCHANGED <<server, editing, save, unused>>

-----------------------------------------------------------------------------
(* DocumentsPage.                                                          *)

OpenDocuments ==
  /\ MountPage
  /\ UNCHANGED <<server, pending, store, editing, save, unused>>

\* Mutant of UnmountPage: the editor outlives the page.
UnmountPageOnly ==
  /\ page
  /\ page' = FALSE
  /\ UNCHANGED <<server, pending, store, editing, fetch, save, unused>>

\* Fetches and renames go on; the editor and its state are gone.
UnmountPage ==
  /\ page
  /\ page' = FALSE
  /\ editing' = NoSession
  /\ save' = [u \in Save |-> [save[u] EXCEPT !.here = FALSE]]
  /\ UNCHANGED <<server, pending, store, fetch, unused>>

SessionsAnswered(f) ==
  /\ fetch[f].step = "asked"
  /\ fetch' = [fetch EXCEPT ![f] = [step |-> "listed", list |-> FindAll]]
  /\ UNCHANGED <<server, pending, store, page, editing, save, unused>>

\* Mutant of SetSessions: the names the store has are kept.
SetSessionsKeeping(f) ==
  LET shown == {store[i] : i \in DOMAIN store}
      Known(e) == IF \E k \in shown : k.id = e.id THEN CHOOSE k \in shown : k.id = e.id ELSE e
  IN
  /\ fetch[f].step = "listed"
  /\ store' = [i \in DOMAIN fetch[f].list |-> Known(fetch[f].list[i])]
  /\ fetch' = [fetch EXCEPT ![f] = NoFetch]
  /\ UNCHANGED <<server, pending, page, editing, save, unused>>

\* The documents of every listed session were answered: setSessions replaces the store.
SetSessions(f) ==
  /\ fetch[f].step = "listed"
  /\ store' = fetch[f].list
  /\ fetch' = [fetch EXCEPT ![f] = NoFetch]
  /\ UNCHANGED <<server, pending, page, editing, save, unused>>

FetchFails(f) ==
  /\ fetch[f].step # "idle"
  /\ fetch' = [fetch EXCEPT ![f] = NoFetch]
  /\ UNCHANGED <<server, pending, store, page, editing, save, unused>>

\* handleCreateSession: the session is only in the browser.
CreateLocally(l) ==
  /\ page
  /\ l \in unused
  /\ Len(store) < MaxShown
  /\ unused' = unused \ {l}
  /\ store' = Append(store, Entry(l, <<l, New>>))
  /\ editing' = l
  /\ UNCHANGED <<server, pending, page, fetch, save>>

StoredIds == {store[i].id : i \in DOMAIN store}

StartEditing(id) ==
  /\ page
  /\ id \in StoredIds
  /\ editing' = id
  /\ UNCHANGED <<server, pending, store, page, fetch, save, unused>>

\* Escape, or saveEditing with nothing but blanks.
CancelEditing ==
  /\ editing # NoSession
  /\ editing' = NoSession
  /\ UNCHANGED <<server, pending, store, page, fetch, save, unused>>

\* saveEditing sends the name.  The editor stays open until the answer, so that the name
\* can be saved again or another session edited.
SaveEditing(u) ==
  /\ editing # NoSession
  /\ save[u] = NoSave
  /\ \E t \in Text :
       save' = [save EXCEPT ![u] = [step |-> "sent", name |-> <<editing, t>>, here |-> TRUE]]
  /\ UNCHANGED <<server, pending, store, page, editing, fetch, unused>>

Target(u) == save[u].name[1]

\* PUT /sessions/:id.  A made-up id is not a uuid and refused, as is one that is gone.
UpdateAnswered(u) ==
  /\ save[u].step = "sent"
  /\ save' = [save EXCEPT ![u].step = "answered"]
  /\ \/ Target(u) \in Session /\ UpdateRow(Target(u), save[u].name)
     \/ Target(u) \in Local /\ UNCHANGED names
  /\ UNCHANGED <<created, pending, store, page, editing, fetch, unused>>

\* renameSession: the first session with the id.
Renamed(id, name) ==
  IF id \in StoredIds
  THEN [store EXCEPT ![CHOOSE i \in DOMAIN store : /\ store[i].id = id
                                                   /\ \A k \in 1 .. i - 1 : store[k].id # id]
          = Entry(id, name)]
  ELSE store

\* Mutant of SaveReturns: the session that is edited now is renamed.
SaveReturnsToEdited(u) ==
  /\ save[u].step \in {"sent", "answered"}
  /\ store' = Renamed(IF save[u].here THEN editing ELSE Target(u), save[u].name)
  /\ editing' = IF save[u].here THEN NoSession ELSE editing
  /\ save' = [save EXCEPT ![u] = NoSave]
  /\ UNCHANGED <<server, pending, page, fetch, unused>>

\* The PUT has been answered or has failed on its way: either way the store gets the name,
\* and the editor is closed, whichever session it has come to be open for.
SaveReturns(u) ==
  /\ save[u].step \in {"sent", "answered"}
  /\ store' = Renamed(Target(u), save[u].name)
  /\ editing' = IF save[u].here THEN NoSession ELSE editing
  /\ save' = [save EXCEPT ![u] = NoSave]
  /\ UNCHANGED <<server, pending, page, fetch, unused>>

-----------------------------------------------------------------------------
Next ==
  \/ \E s \in Session : \/ DeleteSession(s) \/ UpdatedElsewhere(s)
                        \/ ExtractFails(s) \/ AddSession(s)
  \/ CreateOnServer \/ OpenDocuments \/ UnmountPage \/ CancelEditing
  \/ \E f \in Fetch : SessionsAnswered(f) \/ SetSessions(f) \/ FetchFails(f)
  \/ \E l \in Local : CreateLocally(l)
  \/ \E id \in Id : StartEditing(id)
  \/ \E u \in Save : SaveEditing(u) \/ UpdateAnswered(u) \/ SaveReturns(u)

Spec == Init /\ [][Next]_vars

\* Requests end, in an answer or an error.
Fairness ==
  /\ \A f \in Fetch : WF_vars(SessionsAnswered(f) \/ SetSessions(f) \/ FetchFails(f))
  /\ \A u \in Save : WF_vars(UpdateAnswered(u) \/ SaveReturns(u))

FairSpec == Spec /\ Fairness

-----------------------------------------------------------------------------
(* Safety.                                                                 *)

\* A name is only ever shown or stored for the session it was typed for, however the user
\* goes on to another session, page or name before the answer: saveEditing uses what it
\* read before it awaited the PUT (DocumentsPage.tsx 161-185).
NamesAreTheirOwn ==
  /\ \A i \in DOMAIN store : store[i].name[1] = store[i].id
  /\ \A s \in Session : names[s] # Absent => names[s][1] = s

(* Liveness, under FairSpec.                                               *)

Quiet == pending = {} /\ \A u \in Save : save[u] = NoSave

\* The store may show a name the server refused or has replaced, a session twice, one that
\* is gone and one that was never sent.  None of that lasts: once nothing is written any
\* more, visits to the page whose fetch succeeds leave the store equal to what the server
\* lists, whatever fetch was still under way (DocumentsPage.tsx 101-153).
StoreConverges ==
  /\ <>[]Quiet
  /\ <>[][UNCHANGED <<names, unused>>]_vars
  /\ []<><<\E f \in Fetch : SetSessions(f)>>_vars
  => <>[](store = FindAll)
=============================================================================
