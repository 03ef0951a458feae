----------------------------- MODULE SessionsProofs -----------------------------
(***************************************************************************)
(* Proofs about Sessions, for any number of sessions, fetches and renames, *)
(* any size of a page and any texts.                                       *)
(***************************************************************************)
EXTENDS Sessions, InOrderProofs

Own(list) == \A i \in DOMAIN list : list[i].name[1] = list[i].id

\* A list that was answered before a rename, and is still to replace the store, pairs
\* every name with its session as the store does.
ListsAreOwn == \A f \in Fetch : Own(fetch[f].list)

IInv == TypeOK /\ NamesAreTheirOwn /\ ListsAreOwn

\* A list of shown sessions is a sequence of entries; the empty list is one.
LEMMA ShownLists ==
  ASSUME NEW T, T = [id : Id, name : Name]
  PROVE  /\ Shown = Seq(T)
         /\ <<>> \in Shown
         /\ \A list \in Shown : \A i \in DOMAIN list : list[i] \in T
<1>1. Shown = Seq(T)
  BY DEF Shown
<1>2. <<>> \in Seq(T)
  OBVIOUS
<1>3. ASSUME NEW list \in Seq(T), NEW i \in DOMAIN list PROVE list[i] \in T
  BY MembersTyped
<1> QED
  BY <1>1, <1>2, <1>3

\* A fetch that is not under way has its type.
LEMMA NoFetchTyped == NoFetch \in [step : {"idle", "asked", "listed"}, list : Shown]
<1>1. <<>> \in Shown
  BY ShownLists
<1> QED
  BY <1>1 DEF NoFetch

\* What findAll answers is a list of typed entries, each with its own name.
LEMMA FindAllIsOwn ==
  ASSUME TypeOK, NamesAreTheirOwn
  PROVE  FindAll \in Shown /\ Own(FindAll)
<1> DEFINE S == {s \in Session : names[s] # Absent}
           ids == InOrder(S)
           n == IF Len(ids) < PageSize THEN Len(ids) ELSE PageSize
<1>1. S \in SUBSET Int /\ IsFiniteSet(S)
  <2>1. IsFiniteSet(Session) /\ S \in SUBSET Session
    BY ConstantsAssumption, FS_Interval DEF Session
  <2>2. IsFiniteSet(S)
    BY <2>1, FS_Subset
  <2> QED
    BY <2>1, <2>2 DEF Session
<1>2. ids \in Seq(S)
  BY <1>1, InOrderSorts
<1>3. Len(ids) \in Nat /\ n \in Nat /\ n <= Len(ids)
  BY <1>2, ConstantsAssumption
<1>4. FindAll = [k \in 1 .. n |-> Entry(ids[Len(ids) + 1 - k], names[ids[Len(ids) + 1 - k]])]
  BY DEF FindAll
<1> HIDE DEF ids, n
<1>5. ASSUME NEW k \in 1 .. n PROVE ids[Len(ids) + 1 - k] \in S
  <2>1. Len(ids) + 1 - k \in 1 .. Len(ids)
    BY <1>3
  <2> QED
    BY <1>2, <2>1
<1>6. ASSUME NEW s \in S
      PROVE  Entry(s, names[s]) \in [id : Id, name : Name] /\ names[s][1] = s
  BY DEF TypeOK, NamesAreTheirOwn, Entry, Id
<1>7. ASSUME NEW k \in 1 .. n
      PROVE  /\ FindAll[k] \in [id : Id, name : Name]
             /\ FindAll[k].name[1] = FindAll[k].id
  <2> DEFINE s == ids[Len(ids) + 1 - k]
  <2>1. s \in S
    BY <1>5
  <2>2. FindAll[k] = Entry(s, names[s])
    BY <1>4
  <2> HIDE DEF s
  <2>3. FindAll[k].id = s /\ FindAll[k].name = names[s]
    BY <2>2 DEF Entry
  <2> QED
    BY <1>6, <2>1, <2>2, <2>3
<1>8. FindAll = [k \in 1 .. n |-> FindAll[k]] /\ DOMAIN FindAll = 1 .. n
  BY <1>4
<1>9. FindAll \in Shown
  <2>1. PICK T : T = [id : Id, name : Name]
    OBVIOUS
  <2>2. FindAll \in [1 .. n -> T]
    BY <1>7, <1>8, <2>1
  <2>3. \A m \in Nat : [1 .. m -> T] \subseteq Seq(T)
    OBVIOUS
  <2> QED
    BY <1>3, <2>1, <2>2, <2>3, ShownLists
<1> QED
  BY <1>7, <1>8, <1>9 DEF Own

\* Renaming keeps the store typed and every name with its session.
LEMMA RenamedIsOwn ==
  ASSUME TypeOK, Own(store), NEW name \in Name \union {Absent}
  PROVE  Renamed(name[1], name) \in Shown /\ Own(Renamed(name[1], name))
<1>1. CASE name[1] \in StoredIds
  <2>1. name[1] \in Id
    <3>1. PICK i \in DOMAIN store : name[1] = store[i].id
      BY <1>1 DEF StoredIds
    <3>2. store[i] \in [id : Id, name : Name]
      BY ShownLists DEF TypeOK
    <3> QED
      BY <3>1, <3>2
  <2>2. name \in Name
    BY <2>1, ConstantsAssumption DEF Absent, Id, Session
  <2>3. Entry(name[1], name) \in [id : Id, name : Name]
    BY <2>1, <2>2 DEF Entry
  <2>4. PICK i : Renamed(name[1], name) = [store EXCEPT ![i] = Entry(name[1], name)]
    BY <1>1 DEF Renamed
  <2>5. Renamed(name[1], name) \in Shown
    <3>1. PICK T : T = [id : Id, name : Name]
      OBVIOUS
    <3>2. store \in Seq(T) /\ Shown = Seq(T)
      BY <3>1, ShownLists DEF TypeOK
    <3>3. PICK e \in T : e = Entry(name[1], name)
      BY <2>3, <3>1
    <3>4. store \in [1 .. Len(store) -> T] /\ Len(store) \in Nat
      BY <3>2
    <3>5. [store EXCEPT ![i] = e] \in [1 .. Len(store) -> T]
      BY <3>3, <3>4
    <3>6. \A m \in Nat : [1 .. m -> T] \subseteq Seq(T)
      OBVIOUS
    <3> QED
      BY <2>4, <3>2, <3>3, <3>4, <3>5, <3>6
  <2>6. Own(Renamed(name[1], name))
    BY <2>4 DEF Own, Entry
  <2> QED
    BY <2>5, <2>6
<1>2. CASE name[1] \notin StoredIds
  BY <1>2 DEF TypeOK, Renamed
<1> QED
  BY <1>1, <1>2

\* A session that is added brings its own name.
LEMMA AppendedIsOwn ==
  ASSUME TypeOK, Own(store), NEW id \in Id
  PROVE  LET added == Append(store, Entry(id, <<id, New>>)) IN added \in Shown /\ Own(added)
<1> DEFINE entry == Entry(id, <<id, New>>)
<1>1. entry \in [id : Id, name : Name] /\ entry.name[1] = entry.id
  BY DEF Entry, Name
<1> HIDE DEF entry
<1>2. Append(store, entry) \in Shown
  BY <1>1 DEF TypeOK, Shown
<1>3. Own(Append(store, entry))
  BY <1>1 DEF TypeOK, Shown, Own
<1> QED
  BY <1>2, <1>3 DEF entry

-----------------------------------------------------------------------------
(* The invariant, by the actor that takes the step.                        *)

\* A reloaded browser, and a server with sessions that have never been renamed.
LEMMA InitIInv == ASSUME Init PROVE IInv
<1>1. \A s \in Session : <<s, New>> \in Name
  BY DEF Name, Id
<1>2. <<>> \in Shown
  BY DEF Shown
<1>3. TypeOK
  BY <1>1, <1>2 DEF Init, TypeOK, NoFetch, NoSave
<1>4. NamesAreTheirOwn
  BY DEF Init, NamesAreTheirOwn, Absent
<1>5. ListsAreOwn
  BY DEF Init, ListsAreOwn, NoFetch, Own
<1> QED
  BY <1>3, <1>4, <1>5 DEF IInv

\* The store is as it was: what remains is the server's names.
LEMMA ServerIInv ==
  ASSUME IInv, NEW s \in Session,
         DeleteSession(s) \/ UpdatedElsewhere(s) \/ ExtractFails(s) \/ CreateOnServer
  PROVE  IInv'
<1> USE DEF IInv, ListsAreOwn, Own, server
<1>1. CASE DeleteSession(s)
  BY <1>1 DEF TypeOK, NamesAreTheirOwn, DeleteSession
<1>2. CASE UpdatedElsewhere(s)
  <2>1. PICK t \in Text : names' = [names EXCEPT ![s] = IF @ = Absent THEN @ ELSE <<s, t>>]
    BY <1>2 DEF UpdatedElsewhere, UpdateRow
  <2>2. <<s, t>> \in Name
    BY DEF Name, Id
  <2>3. names' \in [Session -> Name \union {Absent}]
    BY <2>1, <2>2 DEF TypeOK
  <2>4. TypeOK'
    BY <1>2, <2>3 DEF TypeOK, UpdatedElsewhere
  <2>5. NamesAreTheirOwn'
    BY <1>2, <2>1 DEF TypeOK, NamesAreTheirOwn, UpdatedElsewhere
  <2>6. ListsAreOwn'
    BY <1>2 DEF UpdatedElsewhere
  <2> QED
    BY <2>4, <2>5, <2>6
<1>3. CASE ExtractFails(s)
  BY <1>3 DEF TypeOK, NamesAreTheirOwn, ExtractFails
<1>4. CASE CreateOnServer
  <2>1. created + 1 \in Session /\ created + 1 \in 1 .. MaxSessions
    BY <1>4, ConstantsAssumption DEF TypeOK, CreateOnServer, Session
  <2>2. <<created + 1, New>> \in Name
    BY <2>1 DEF Name, Id
  <2>3. names' \in [Session -> Name \union {Absent}] /\ created' \in 0 .. MaxSessions
    BY <1>4, <2>1, <2>2 DEF TypeOK, CreateOnServer
  <2>4. pending' \subseteq 1 .. created'
    BY <1>4 DEF TypeOK, CreateOnServer
  <2>5. TypeOK'
    BY <1>4, <2>3, <2>4 DEF TypeOK, CreateOnServer
  <2>6. NamesAreTheirOwn'
    BY <1>4 DEF TypeOK, NamesAreTheirOwn, CreateOnServer
  <2>7. ListsAreOwn'
    BY <1>4 DEF CreateOnServer
  <2> QED
    BY <2>5, <2>6, <2>7
<1> QED
  BY <1>1, <1>2, <1>3, <1>4

\* The page comes, its fetch is asked.
LEMMA MountIsOwn ==
  ASSUME IInv, MountPage
  PROVE  /\ page' = TRUE
         /\ fetch' \in [Fetch -> [step : {"idle", "asked", "listed"}, list : Shown]]
         /\ ListsAreOwn'
BY DEF IInv, TypeOK, MountPage, ListsAreOwn, Own

\* handleExtract adds its session.
LEMMA AddIInv == ASSUME IInv, NEW s \in Session, AddSession(s) PROVE IInv'
<1>1. store' \in Shown /\ Own(store')
  BY AppendedIsOwn DEF IInv, NamesAreTheirOwn, Own, AddSession, Id
<1>2. /\ page' = TRUE
      /\ fetch' \in [Fetch -> [step : {"idle", "asked", "listed"}, list : Shown]]
      /\ ListsAreOwn'
  <2>1. CASE MountPage
    BY <2>1, MountIsOwn
  <2>2. CASE page /\ UNCHANGED <<page, fetch>>
    BY <2>2 DEF IInv, TypeOK, ListsAreOwn, Own
  <2> QED
    BY <2>1, <2>2 DEF AddSession
<1>3. TypeOK'
  BY <1>1, <1>2 DEF IInv, TypeOK, AddSession, server
<1>4. NamesAreTheirOwn'
  BY <1>1 DEF IInv, NamesAreTheirOwn, Own, AddSession, server
<1> QED
  BY <1>2, <1>3, <1>4 DEF IInv

\* The page comes and goes.
LEMMA PageIInv == ASSUME IInv, OpenDocuments \/ UnmountPage PROVE IInv'
<1> USE DEF IInv, server
<1>1. CASE OpenDocuments
  <2>1. TypeOK'
    BY <1>1, MountIsOwn DEF TypeOK, OpenDocuments
  <2>2. NamesAreTheirOwn'
    BY <1>1 DEF NamesAreTheirOwn, OpenDocuments
  <2> QED
    BY <1>1, <2>1, <2>2, MountIsOwn DEF OpenDocuments
<1>2. CASE UnmountPage
  <2>1. TypeOK'
    BY <1>2 DEF TypeOK, UnmountPage
  <2> QED
    BY <1>2, <2>1 DEF NamesAreTheirOwn, ListsAreOwn, Own, UnmountPage
<1> QED
  BY <1>1, <1>2

\* A fetch.
LEMMA FetchIInv ==
  ASSUME IInv, NEW f \in Fetch, SessionsAnswered(f) \/ SetSessions(f) \/ FetchFails(f)
  PROVE  IInv'
<1> USE DEF IInv, server
<1>1. CASE SessionsAnswered(f)
  <2>1. fetch' \in [Fetch -> [step : {"idle", "asked", "listed"}, list : Shown]]
    BY <1>1, FindAllIsOwn DEF TypeOK, SessionsAnswered
  <2>2. TypeOK' /\ NamesAreTheirOwn'
    BY <1>1, <2>1 DEF TypeOK, NamesAreTheirOwn, SessionsAnswered
  <2>3. Own(FindAll)
    BY FindAllIsOwn
  <2>4. ASSUME NEW g \in Fetch
        PROVE  fetch'[g].list \in {FindAll, fetch[g].list}
    BY <1>1 DEF TypeOK, SessionsAnswered
  <2>5. ListsAreOwn'
    BY <2>3, <2>4 DEF ListsAreOwn, Own
  <2> QED
    BY <2>2, <2>5
<1>2. CASE SetSessions(f)
  <2>1. fetch' \in [Fetch -> [step : {"idle", "asked", "listed"}, list : Shown]]
    BY <1>2, NoFetchTyped DEF TypeOK, SetSessions
  <2>2. store' \in Shown
    BY <1>2 DEF TypeOK, SetSessions
  <2>3. TypeOK'
    BY <1>2, <2>1, <2>2 DEF TypeOK, SetSessions
  <2>4. NamesAreTheirOwn'
    BY <1>2 DEF NamesAreTheirOwn, ListsAreOwn, Own, SetSessions
  <2>5. ListsAreOwn'
    BY <1>2 DEF TypeOK, ListsAreOwn, Own, SetSessions, NoFetch
  <2> QED
    BY <2>3, <2>4, <2>5
<1>3. CASE FetchFails(f)
  <2>1. fetch' \in [Fetch -> [step : {"idle", "asked", "listed"}, list : Shown]]
    BY <1>3, NoFetchTyped DEF TypeOK, FetchFails
  <2>2. ListsAreOwn'
    BY <1>3 DEF TypeOK, ListsAreOwn, Own, FetchFails, NoFetch
  <2> QED
    BY <1>3, <2>1, <2>2 DEF TypeOK, NamesAreTheirOwn, FetchFails
<1> QED
  BY <1>1, <1>2, <1>3

\* The editor opens.
LEMMA EditorIInv ==
  ASSUME IInv, NEW id \in Id, (id \in Local /\ CreateLocally(id)) \/ StartEditing(id)
  PROVE  IInv'
<1> USE DEF IInv, server
<1>1. CASE id \in Local /\ CreateLocally(id)
  <2>1. store' \in Shown /\ Own(store')
    BY <1>1, AppendedIsOwn DEF NamesAreTheirOwn, Own, CreateLocally
  <2>2. TypeOK'
    BY <1>1, <2>1 DEF TypeOK, CreateLocally
  <2> QED
    BY <1>1, <2>1, <2>2 DEF NamesAreTheirOwn, ListsAreOwn, Own, CreateLocally
<1>2. CASE StartEditing(id)
  <2>1. TypeOK'
    BY <1>2 DEF TypeOK, StartEditing
  <2> QED
    BY <1>2, <2>1 DEF NamesAreTheirOwn, ListsAreOwn, Own, StartEditing
<1> QED
  BY <1>1, <1>2

\* The editor closes.
LEMMA CancelIInv == ASSUME IInv, CancelEditing PROVE IInv'
<1>1. TypeOK'
  BY DEF IInv, TypeOK, CancelEditing, server
<1> QED
  BY <1>1 DEF IInv, NamesAreTheirOwn, ListsAreOwn, Own, CancelEditing, server

\* A rename, from what is typed to what the store shows.
LEMMA SaveIInv ==
  ASSUME IInv, NEW u \in Save, SaveEditing(u) \/ UpdateAnswered(u) \/ SaveReturns(u)
  PROVE  IInv'
<1> USE DEF IInv, server
<1>1. CASE SaveEditing(u)
  <2>1. PICK t \in Text :
          save' = [save EXCEPT ![u] = [step |-> "sent", name |-> <<editing, t>>, here |-> TRUE]]
    BY <1>1 DEF SaveEditing
  <2>2. <<editing, t>> \in Name
    BY <1>1 DEF TypeOK, SaveEditing, Name
  <2>3. TypeOK'
    BY <1>1, <2>1, <2>2 DEF TypeOK, SaveEditing
  <2> QED
    BY <1>1, <2>3 DEF NamesAreTheirOwn, ListsAreOwn, Own, SaveEditing
<1>2. CASE UpdateAnswered(u)
  <2> DEFINE name == save[u].name
  <2>1. name \in Name \union {Absent}
    BY DEF TypeOK
  <2>2. /\ names' \in [Session -> Name \union {Absent}]
        /\ \A s \in Session : names'[s] # Absent => names'[s][1] = s
    <3>1. CASE Target(u) \in Session /\ UpdateRow(Target(u), name)
      BY <2>1, <3>1 DEF TypeOK, NamesAreTheirOwn, UpdateRow, Target
    <3>2. CASE UNCHANGED names
      BY <3>2 DEF TypeOK, NamesAreTheirOwn
    <3> QED
      BY <1>2, <3>1, <3>2 DEF UpdateAnswered
  <2>3. TypeOK'
    BY <1>2, <2>2 DEF TypeOK, UpdateAnswered
  <2> QED
    BY <1>2, <2>2, <2>3 DEF NamesAreTheirOwn, ListsAreOwn, Own, UpdateAnswered
<1>3. CASE SaveReturns(u)
  <2> DEFINE name == save[u].name
  <2>1. name \in Name \union {Absent} /\ Own(store)
    BY DEF TypeOK, NamesAreTheirOwn, Own
  <2>2. store' = Renamed(name[1], name)
    BY <1>3 DEF SaveReturns, Target
  <2> HIDE DEF name
  <2>3. store' \in Shown /\ Own(store')
    BY <2>1, <2>2, RenamedIsOwn
  <2>4. save' \in [Save -> [step : {"idle", "sent", "answered"}, name : Name \union {Absent},
                            here : BOOLEAN]]
    BY <1>3 DEF TypeOK, SaveReturns, NoSave
  <2>5. TypeOK'
    BY <1>3, <2>3, <2>4 DEF TypeOK, SaveReturns
  <2> QED
    BY <1>3, <2>3, <2>5 DEF NamesAreTheirOwn, ListsAreOwn, Own, SaveReturns
<1> QED
  BY <1>1, <1>2, <1>3

\* A step that changes nothing.
LEMMA StutterIInv == ASSUME IInv, UNCHANGED vars PROVE IInv'
<1>1. TypeOK'
  BY DEF IInv, TypeOK, vars, server
<1> QED
  BY <1>1 DEF IInv, NamesAreTheirOwn, ListsAreOwn, Own, vars, server

-----------------------------------------------------------------------------
(* The theorems.                                                           *)

\* The invariant holds in every state: the lists under way pair names and sessions as the
\* store and the server do.
THEOREM SessionsInvariance == Spec => []IInv
<1>1. Init => IInv
  BY InitIInv
<1>2. IInv /\ [Next]_vars => IInv'
  <2> SUFFICES ASSUME IInv, [Next]_vars PROVE IInv'
    OBVIOUS
  <2>1. CASE \E s \in Session : \/ DeleteSession(s) \/ UpdatedElsewhere(s)
                                \/ ExtractFails(s) \/ AddSession(s)
    BY <2>1, ServerIInv, AddIInv
  <2>2. CASE CreateOnServer
    <3>1. created + 1 \in Session
      BY <2>2, ConstantsAssumption DEF IInv, TypeOK, CreateOnServer, Session
    <3> QED
      BY <2>2, <3>1, ServerIInv
  <2>3. CASE OpenDocuments \/ UnmountPage
    BY <2>3, PageIInv
  <2>4. CASE \E f \in Fetch : SessionsAnswered(f) \/ SetSessions(f) \/ FetchFails(f)
    BY <2>4, FetchIInv
  <2>5. CASE \E l \in Local : CreateLocally(l)
    BY <2>5, EditorIInv DEF Id
  <2>6. CASE CancelEditing
    BY <2>6, CancelIInv
  <2>7. CASE \E id \in Id : StartEditing(id)
    BY <2>7, EditorIInv
  <2>8. CASE \E u \in Save : SaveEditing(u) \/ UpdateAnswered(u) \/ SaveReturns(u)
    BY <2>8, SaveIInv
  <2>9. CASE UNCHANGED vars
    BY <2>9, StutterIInv
  <2> QED
    BY <2>1, <2>2, <2>3, <2>4, <2>5, <2>6, <2>7, <2>8, <2>9 DEF Next
<1> QED
  BY <1>1, <1>2, PTL DEF Spec

\* Every variable keeps its type: the editor is never open without its page, and no
\* rename under way is of a session nobody knows.
THEOREM SessionsTypeCorrect == Spec => []TypeOK
<1>1. IInv => TypeOK
  BY DEF IInv
<1> QED
  BY SessionsInvariance, <1>1, PTL

\* A name is only ever shown or stored for the session it was typed for.
THEOREM NamesStayTheirOwn == Spec => []NamesAreTheirOwn
<1>1. IInv => NamesAreTheirOwn
  BY DEF IInv
<1> QED
  BY SessionsInvariance, <1>1, PTL
=============================================================================
