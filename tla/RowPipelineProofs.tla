--------------------------- MODULE RowPipelineProofs ---------------------------
(***************************************************************************)
(* Proofs about RowPipeline, for files of any length, both batch sizes and *)
(* both kinds of file.                                                     *)
(***************************************************************************)
EXTENDS RowPipeline, FiniteSetTheorems, TLAPS

\* Every set of rows is finite.
LEMMA RowsFinite ==
  ASSUME NEW rows \in SUBSET Row
  PROVE  IsFiniteSet(rows) /\ Cardinality(rows) \in Nat
<1>1. IsFiniteSet(Row)
  BY FS_Interval, ConstantsAssumption DEF Row
<1> QED
  BY <1>1, FS_Subset, FS_CardinalityType

-----------------------------------------------------------------------------
(* Type correctness.                                                       *)

\* The initial state has the types.
LEMMA InitTypeOK == Init => TypeOK
<1> SUFFICES ASSUME Init PROVE TypeOK
  OBVIOUS
<1>1. streaming \in BOOLEAN /\ hasBatchHelper \in BOOLEAN /\ kind \in [Row -> Kinds]
  BY Zenon DEF Init
<1>2. read \in 0 .. RowCount
  BY ConstantsAssumption DEF Init
<1> QED
  BY <1>1, <1>2 DEF Init, TypeOK, HandlerSteps, MainSteps

\* Placing a row keeps the types of what it writes.
LEMMA PlaceTypeOK ==
  ASSUME TypeOK, NEW r \in Row, Place(r)
  PROVE  /\ pc' \in [Row -> HandlerSteps]
         /\ deterministicBatch' \subseteq Row /\ ambiguousBatch' \subseteq Row
         /\ processedCount' \in Nat /\ totalDeterministic' \in Nat /\ totalAmbiguous' \in Nat
BY DEF TypeOK, HandlerSteps, Place, Goto

\* So do the checks for a full batch.
LEMMA CheckTypeOK ==
  ASSUME TypeOK, NEW r \in Row, CheckDeterministic(r) \/ CheckAmbiguous(r)
  PROVE  /\ pc' \in [Row -> HandlerSteps]
         /\ deterministicBatch' \subseteq Row /\ ambiguousBatch' \subseteq Row
         /\ carried' \in [Source -> SUBSET Row]
         /\ processedCount' \in Nat /\ totalDeterministic' \in Nat /\ totalAmbiguous' \in Nat
<1>1. /\ Cardinality(deterministicBatch) \in Nat /\ Cardinality(ambiguousBatch) \in Nat
      /\ r \in Source
  BY RowsFinite DEF TypeOK, Source
<1>2. CASE CheckAmbiguous(r)
  <2>1. CASE Place(r)
    BY <1>2, <2>1, PlaceTypeOK DEF TypeOK, CheckAmbiguous, Place
  <2>2. CASE ~ Place(r)
    BY <1>1, <1>2, <2>2 DEF TypeOK, HandlerSteps, CheckAmbiguous, Goto
  <2> QED
    BY <2>1, <2>2
<1>3. CASE CheckDeterministic(r) /\ ~ CheckAmbiguous(r)
  BY <1>1, <1>3 DEF TypeOK, HandlerSteps, CheckDeterministic, Goto
<1> QED
  BY <1>2, <1>3

\* The handler of a row keeps the types.
LEMMA HandlerTypeOK ==
  ASSUME TypeOK, NEW r \in Row, HandlerStep(r)
  PROVE  TypeOK'
<1>1. CASE ReadRow(r)
  <2>1. read' \in 0 .. RowCount
    BY <1>1 DEF ReadRow, Row
  <2>2. hasBatchHelper' \in BOOLEAN
    BY <1>1, Zenon DEF TypeOK, ReadRow
  <2>3. UNCHANGED <<streaming, kind, rest, handed, failed, main>>
    BY <1>1 DEF ReadRow, file
  <2>4. CASE CheckDeterministic(r)
    BY <2>1, <2>2, <2>3, <2>4, CheckTypeOK DEF TypeOK
  <2>5. CASE ~ CheckDeterministic(r)
    <3>1. pc' \in [Row -> HandlerSteps] /\ UNCHANGED <<carried, batches, stats>>
      BY <1>1, <2>5 DEF TypeOK, HandlerSteps, ReadRow, Goto
    <3> QED
      BY <2>1, <2>2, <2>3, <3>1 DEF TypeOK, batches, stats
  <2> QED
    BY <2>4, <2>5
<1>2. CASE Initialized(r)
  BY <1>2, CheckTypeOK DEF TypeOK, Initialized, file
<1>3. CASE Enqueued(r)
  <2>1. handed' \in [Row -> Nat]
    BY <1>3 DEF TypeOK, Enqueued, HandOver
  <2> QED
    BY <1>3, <2>1, CheckTypeOK DEF TypeOK, Enqueued, file
<1>4. CASE EnqueueThrows(r)
  BY <1>4 DEF TypeOK, HandlerSteps, MainSteps, EnqueueThrows, Goto, Source, file, batches, stats
<1>5. CASE Enriched(r)
  <2>1. handed' \in [Row -> Nat]
    BY <1>5 DEF TypeOK, Enriched, HandOver
  <2>2. carried' \in [Source -> SUBSET Row]
    BY <1>5 DEF TypeOK, Enriched, Source
  <2> QED
    BY <1>5, <2>1, <2>2, PlaceTypeOK DEF TypeOK, Enriched, file
<1> QED
  BY <1>1, <1>2, <1>3, <1>4, <1>5 DEF HandlerStep

\* flush() keeps the types.
LEMMA MainTypeOK == ASSUME TypeOK, MainStep PROVE TypeOK'
<1> USE DEF file, batches, stats, HandOver
<1>0. /\ Cardinality(deterministicBatch) \in Nat /\ Cardinality(ambiguousBatch) \in Nat
      /\ Cardinality(rest) \in Nat /\ 0 \in Source
  BY RowsFinite DEF TypeOK, Source
<1>1. CASE Flush
  <2>1. main' \in MainSteps
    BY <1>1 DEF Flush, MainSteps
  <2>2. totalDeterministic' \in Nat /\ totalAmbiguous' \in Nat
    BY <1>0, <1>1 DEF TypeOK, Flush
  <2>3. carried' \in [Source -> SUBSET Row] /\ rest' \subseteq Row
        /\ deterministicBatch' \subseteq Row /\ ambiguousBatch' \subseteq Row
    BY <1>0, <1>1 DEF TypeOK, Flush
  <2> QED
    BY <1>1, <2>1, <2>2, <2>3 DEF TypeOK, Flush
<1>2. CASE FlushEnqueued
  BY <1>0, <1>2 DEF TypeOK, MainSteps, FlushEnqueued
<1>3. CASE FlushEnqueueThrows
  BY <1>0, <1>3 DEF TypeOK, MainSteps, FlushEnqueueThrows
<1>4. CASE FlushEnriched \/ Drained
  BY <1>4 DEF TypeOK, MainSteps, FlushEnriched, Drained
<1> QED
  BY <1>1, <1>2, <1>3, <1>4 DEF MainStep

-----------------------------------------------------------------------------
(* Where each row is.                                                      *)

\* A row that was placed is in exactly one place, and no other row is in any.
Home(x) ==
  /\ x \in deterministicBatch =>
       x \notin ambiguousBatch /\ x \notin rest /\ x \notin failed /\ handed[x] = 0
  /\ x \in ambiguousBatch => x \notin rest /\ x \notin failed /\ handed[x] = 0
  /\ x \in rest => x \notin failed /\ handed[x] = 0
  /\ x \in failed => handed[x] = 0
  /\ handed[x] <= 1
  /\ \A s \in Source : x \in carried[s] =>
       /\ x \notin deterministicBatch /\ x \notin ambiguousBatch /\ x \notin rest
       /\ x \notin failed /\ handed[x] = 0
       /\ \A t \in Source : x \in carried[t] => t = s
  /\ pc[x] = "done" <=>
       \/ x \in deterministicBatch \/ x \in ambiguousBatch \/ x \in rest \/ x \in failed
       \/ handed[x] = 1 \/ \E s \in Source : x \in carried[s]

\* Only a handler that waits carries a batch, and flush() the rest of the arrays only while
\* it runs or when it has been cut short.
Carriers ==
  /\ \A r \in Row : carried[r] # {} => pc[r] \in {"enqueue", "enrich"}
  /\ \A r \in Row : pc[r] \in {"enqueue", "enrich"} => carried[r] # {}
  /\ carried[0] # {} => main \in {"enqueue", "crashed"}
  /\ main = "enqueue" => carried[0] # {}
  /\ rest # {} => main \in {"enqueue", "enrich", "threw", "crashed"}

\* What the handlers have reached.
Reading ==
  /\ \A r \in Row : pc[r] = "unread" <=> r > read
  /\ \A r \in Row : pc[r] \in {"init", "enqueue", "enrich", "done"} => kind[r] # "invalid"
  /\ hasBatchHelper = FALSE => \A r \in Row : pc[r] \in {"unread", "skipped"}

Homes == \A x \in Row : Home(x)

PlaceInv == TypeOK /\ Reading /\ Carriers /\ Homes

\* Before the first row is read no row is anywhere.
LEMMA InitPlaceInv == Init => PlaceInv
<1> SUFFICES ASSUME Init PROVE PlaceInv
  OBVIOUS
<1>1. Carriers
  BY DEF Init, Carriers, Source
<1>2. ASSUME NEW x \in Row PROVE Home(x)
  BY DEF Init, Home, Source
<1>3. Reading
  BY ConstantsAssumption DEF Init, Reading, Row
<1> QED
  BY <1>1, <1>2, <1>3, InitTypeOK DEF PlaceInv, Homes

\* An array that is full is not empty.
LEMMA FullIsNotEmpty ==
  ASSUME NEW rows \in SUBSET Row, NEW n \in Nat \ {0}, Cardinality(rows) >= n
  PROVE  rows # {}
BY FS_EmptySet

\* What a handler does to the places when its batch, if it has one, has arrived and it
\* places its row.
LEMMA PlacePlaces ==
  ASSUME PlaceInv, NEW r \in Row, pc[r] # "done", kind[r] # "invalid", HandOver(carried[r]),
         Place(r), carried' = [carried EXCEPT ![r] = {}], UNCHANGED <<kind, rest, failed, main>>
  PROVE  Carriers' /\ Homes'
<1>1. /\ pc \in [Row -> HandlerSteps] /\ carried \in [Source -> SUBSET Row]
      /\ deterministicBatch \subseteq Row /\ ambiguousBatch \subseteq Row
      /\ handed \in [Row -> Nat] /\ kind \in [Row -> Kinds]
      /\ r \in Source /\ r # 0 /\ Carriers
  BY DEF PlaceInv, TypeOK, Source, Row
<1>2. /\ pc' = [pc EXCEPT ![r] = "done"]
      /\ handed' = [x \in Row |-> IF x \in carried[r] THEN handed[x] + 1 ELSE handed[x]]
  BY DEF Place, Goto, HandOver
<1>3. Carriers'
  BY <1>1, <1>2 DEF Carriers, Source
<1>4. ASSUME NEW x \in Row PROVE Home(x)'
  <2>1. Home(x) /\ Home(r)
    BY DEF PlaceInv, Homes
  <2>2. CASE x # r
    <3>1. /\ x \in deterministicBatch' <=> x \in deterministicBatch
          /\ x \in ambiguousBatch' <=> x \in ambiguousBatch
          /\ pc'[x] = pc[x]
      BY <1>1, <1>2, <2>2 DEF Place
    <3> QED
      BY <1>1, <1>2, <2>1, <3>1 DEF Home
  <2>3. CASE x = r
    <3>1. /\ r \notin deterministicBatch /\ r \notin ambiguousBatch /\ r \notin rest
          /\ r \notin failed /\ handed[r] = 0 /\ \A s \in Source : r \notin carried[s]
      BY <1>1, <2>1 DEF Home
    <3>2. kind[r] = "deterministic" \/ kind[r] = "ambiguous"
      BY <1>1 DEF Kinds
    <3>3. /\ r \in deterministicBatch' <=> kind[r] = "deterministic"
          /\ r \in ambiguousBatch' <=> kind[r] = "ambiguous"
      BY <3>1 DEF Place
    <3>4. handed'[r] = 0 /\ pc'[r] = "done" /\ \A s \in Source : r \notin carried'[s]
      BY <1>1, <1>2, <3>1
    <3> QED
      BY <2>3, <3>1, <3>2, <3>3, <3>4 DEF Home
  <2> QED
    BY <2>2, <2>3
<1> QED
  BY <1>3, <1>4 DEF Homes

\* The same for the checks that come first.
LEMMA CheckPlaces ==
  ASSUME PlaceInv, NEW r \in Row, pc[r] # "done", kind[r] # "invalid", HandOver(carried[r]),
         CheckDeterministic(r) \/ CheckAmbiguous(r), UNCHANGED <<kind, rest, failed, main>>
  PROVE  Carriers' /\ Homes'
<1> USE DEF Goto
<1>0. /\ pc \in [Row -> HandlerSteps] /\ carried \in [Source -> SUBSET Row]
      /\ deterministicBatch \subseteq Row /\ ambiguousBatch \subseteq Row
      /\ handed \in [Row -> Nat] /\ kind \in [Row -> Kinds]
      /\ r \in Source /\ r # 0 /\ Carriers
      /\ handed' = [x \in Row |-> IF x \in carried[r] THEN handed[x] + 1 ELSE handed[x]]
  BY DEF PlaceInv, TypeOK, Source, Row, HandOver
<1>1. CASE /\ Cardinality(deterministicBatch) >= DETERMINISTIC_BATCH_SIZE
           /\ pc' = [pc EXCEPT ![r] = "enqueue"]
           /\ carried' = [carried EXCEPT ![r] = deterministicBatch]
           /\ deterministicBatch' = {}
           /\ UNCHANGED ambiguousBatch
  <2>1. deterministicBatch # {}
    BY <1>0, <1>1, FullIsNotEmpty, ConstantsAssumption
  <2>2. Carriers'
    BY <1>0, <1>1, <2>1 DEF Carriers, Source
  <2>3. ASSUME NEW x \in Row PROVE Home(x)'
    <3>1. Home(x)
      BY DEF PlaceInv, Homes
    <3> QED
      BY <1>0, <1>1, <3>1 DEF Home
  <2> QED
    BY <2>2, <2>3 DEF Homes
<1>2. CASE /\ Cardinality(ambiguousBatch) >= AMBIGUOUS_BATCH_SIZE
           /\ pc' = [pc EXCEPT ![r] = "enrich"]
           /\ carried' = [carried EXCEPT ![r] = ambiguousBatch]
           /\ ambiguousBatch' = {}
           /\ UNCHANGED deterministicBatch
  <2>1. ambiguousBatch # {}
    BY <1>0, <1>2, FullIsNotEmpty, ConstantsAssumption
  <2>2. Carriers'
    BY <1>0, <1>2, <2>1 DEF Carriers, Source
  <2>3. ASSUME NEW x \in Row PROVE Home(x)'
    <3>1. Home(x)
      BY DEF PlaceInv, Homes
    <3> QED
      BY <1>0, <1>2, <3>1 DEF Home
  <2> QED
    BY <2>2, <2>3 DEF Homes
<1>3. CASE Place(r) /\ carried' = [carried EXCEPT ![r] = {}]
  BY <1>3, PlacePlaces
<1> QED
  BY <1>1, <1>2, <1>3 DEF CheckDeterministic, CheckAmbiguous

\* The handler of a row keeps every row in one place.
LEMMA HandlerPlaces ==
  ASSUME PlaceInv, NEW r \in Row, HandlerStep(r)
  PROVE  Carriers' /\ Homes'
<1>1. /\ pc \in [Row -> HandlerSteps] /\ carried \in [Source -> SUBSET Row]
      /\ handed \in [Row -> Nat] /\ r \in Source /\ r # 0 /\ Carriers /\ Reading
  BY DEF PlaceInv, TypeOK, Source, Row
<1>2. ASSUME UNCHANGED handed, carried[r] = {} PROVE HandOver(carried[r])
  BY <1>1, <1>2 DEF HandOver
<1>3. ASSUME pc[r] \in {"unread", "init"} PROVE carried[r] = {}
  BY <1>1, <1>3 DEF Carriers
<1>4. CASE ReadRow(r)
  <2>1. pc[r] = "unread" /\ UNCHANGED <<kind, rest, handed, failed, main>>
    BY <1>1, <1>4 DEF ReadRow, Reading, TypeOK, Row, PlaceInv, file
  <2>2. CASE kind[r] # "invalid" /\ CheckDeterministic(r)
    BY <1>2, <1>3, <2>1, <2>2, CheckPlaces
  <2>3. CASE /\ UNCHANGED <<carried, batches>>
             /\ pc' = [pc EXCEPT ![r] = "skipped"] \/ pc' = [pc EXCEPT ![r] = "init"]
    <3>1. Carriers'
      BY <1>1, <2>1, <2>3 DEF Carriers, Source
    <3>2. ASSUME NEW x \in Row PROVE Home(x)'
      <4>1. Home(x)
        BY DEF PlaceInv, Homes
      <4> QED
        BY <1>1, <2>1, <2>3, <4>1 DEF Home, batches
    <3> QED
      BY <3>1, <3>2 DEF Homes
  <2> QED
    BY <1>4, <2>2, <2>3 DEF ReadRow, Goto
<1>5. CASE Initialized(r)
  <2>1. kind[r] # "invalid"
    BY <1>1, <1>5 DEF Initialized, Reading
  <2> QED
    BY <1>2, <1>3, <1>5, <2>1, CheckPlaces DEF Initialized, file
<1>6. CASE Enqueued(r)
  <2>1. kind[r] # "invalid"
    BY <1>1, <1>6 DEF Enqueued, Reading
  <2> QED
    BY <1>6, <2>1, CheckPlaces DEF Enqueued, file
<1>7. CASE EnqueueThrows(r)
  <2>1. Carriers'
    BY <1>1, <1>7 DEF EnqueueThrows, Carriers, Source, Goto
  <2>2. ASSUME NEW x \in Row PROVE Home(x)'
    <3>1. Home(x)
      BY DEF PlaceInv, Homes
    <3> QED
      BY <1>1, <1>7, <3>1 DEF EnqueueThrows, Home, Goto, batches
  <2> QED
    BY <2>1, <2>2 DEF Homes
<1>8. CASE Enriched(r)
  <2>1. kind[r] # "invalid"
    BY <1>1, <1>8 DEF Enriched, Reading
  <2> QED
    BY <1>8, <2>1, PlacePlaces DEF Enriched, file
<1> QED
  BY <1>4, <1>5, <1>6, <1>7, <1>8 DEF HandlerStep

\* And it keeps what the handlers have reached.
LEMMA HandlerReading ==
  ASSUME PlaceInv, NEW r \in Row, HandlerStep(r)
  PROVE  Reading'
<1>1. /\ pc \in [Row -> HandlerSteps] /\ Reading /\ read \in 0 .. RowCount
  BY DEF PlaceInv, TypeOK
<1>2. ASSUME CheckDeterministic(r) \/ CheckAmbiguous(r) \/ Place(r)
      PROVE  \E step \in {"enqueue", "enrich", "done"} : pc' = [pc EXCEPT ![r] = step]
  BY <1>2 DEF CheckDeterministic, CheckAmbiguous, Place, Goto
<1>3. CASE ReadRow(r)
  <2>1. pc[r] = "unread" /\ r = read + 1 /\ read' = r /\ kind' = kind
    BY <1>1, <1>3 DEF ReadRow, Reading, Row, file
  <2>2. CASE kind[r] = "invalid" /\ Goto(r, "skipped") /\ hasBatchHelper' = hasBatchHelper
    BY <1>1, <2>1, <2>2, ConstantsAssumption DEF Reading, Goto, Row
  <2>3. CASE kind[r] # "invalid" /\ hasBatchHelper' = TRUE /\ Goto(r, "init")
    BY <1>1, <2>1, <2>3, ConstantsAssumption DEF Reading, Goto, Row
  <2>4. CASE kind[r] # "invalid" /\ hasBatchHelper /\ CheckDeterministic(r)
             /\ hasBatchHelper' = hasBatchHelper
    BY <1>1, <1>2, <2>1, <2>4, ConstantsAssumption DEF Reading, Row
  <2> QED
    BY <1>3, <2>2, <2>3, <2>4 DEF ReadRow
<1>4. CASE \/ Initialized(r) \/ Enqueued(r) \/ EnqueueThrows(r) \/ Enriched(r)
  <2>1. /\ UNCHANGED <<kind, read, hasBatchHelper>>
        /\ pc[r] \in {"init", "enqueue", "enrich"}
        /\ \E step \in {"enqueue", "enrich", "done", "skipped"} : pc' = [pc EXCEPT ![r] = step]
    BY <1>2, <1>4 DEF Initialized, Enqueued, EnqueueThrows, Enriched, file, Goto
  <2> QED
    BY <1>1, <2>1 DEF Reading, Row
<1> QED
  BY <1>3, <1>4 DEF HandlerStep

\* So does flush().
LEMMA MainPlaces == ASSUME PlaceInv, MainStep PROVE Reading' /\ Carriers' /\ Homes'
<1>1. /\ pc \in [Row -> HandlerSteps] /\ carried \in [Source -> SUBSET Row]
      /\ deterministicBatch \subseteq Row /\ ambiguousBatch \subseteq Row /\ rest \subseteq Row
      /\ handed \in [Row -> Nat] /\ 0 \in Source /\ 0 \notin Row
      /\ Carriers /\ Reading
  BY DEF PlaceInv, TypeOK, Source, Row
<1>2. Reading'
  <2>1. UNCHANGED <<pc, kind, read, hasBatchHelper>>
    BY DEF MainStep, Flush, FlushEnqueued, FlushEnqueueThrows, FlushEnriched, Drained, file
  <2> QED
    BY <1>1, <2>1 DEF Reading
<1>3. ASSUME NEW x \in Row PROVE Home(x)
  BY DEF PlaceInv, Homes
<1>4. CASE Flush
  <2>1. carried[0] = {} /\ rest = {}
    BY <1>1, <1>4 DEF Flush, Carriers
  <2>2. carried' = [carried EXCEPT ![0] = deterministicBatch]
        /\ rest' = ambiguousBatch /\ deterministicBatch' = {} /\ ambiguousBatch' = {}
        /\ UNCHANGED <<pc, handed, failed>>
    BY <1>4 DEF Flush
  <2>3. ASSUME hasBatchHelper = FALSE
        PROVE  deterministicBatch = {} /\ ambiguousBatch = {}
    BY <1>1, <1>3, <2>3 DEF Reading, Home
  <2>4. Carriers'
    <3>1. CASE hasBatchHelper = FALSE
      <4>1. main' = "ended"
        BY <1>4, <2>3, <3>1 DEF Flush
      <4> QED
        BY <1>1, <2>1, <2>2, <2>3, <3>1, <4>1 DEF Carriers, Source, Row
    <3>2. CASE hasBatchHelper # FALSE
      <4>1. main' = IF deterministicBatch # {} THEN "enqueue" ELSE "enrich"
        <5>1. hasBatchHelper = TRUE
          BY <3>2, Zenon DEF PlaceInv, TypeOK
        <5> QED
          BY <1>4, <5>1 DEF Flush
      <4> QED
        BY <1>1, <2>1, <2>2, <4>1 DEF Carriers, Source, Row
    <3> QED
      BY <3>1, <3>2
  <2>5. ASSUME NEW x \in Row PROVE Home(x)'
    BY <1>1, <1>3, <2>1, <2>2 DEF Home
  <2> QED
    BY <1>2, <2>4, <2>5 DEF Homes
<1>5. CASE FlushEnqueued
  <2>1. Carriers'
    BY <1>1, <1>5 DEF FlushEnqueued, Carriers, Source, Row
  <2>2. ASSUME NEW x \in Row PROVE Home(x)'
    <3>1. handed'[x] = IF x \in carried[0] THEN handed[x] + 1 ELSE handed[x]
      BY <1>5 DEF FlushEnqueued, HandOver
    <3> QED
      BY <1>1, <1>3, <1>5, <3>1 DEF FlushEnqueued, Home, batches
  <2> QED
    BY <1>2, <2>1, <2>2 DEF Homes
<1>6. CASE FlushEnqueueThrows
  <2>1. Carriers'
    BY <1>1, <1>6 DEF FlushEnqueueThrows, Carriers, Source, Row
  <2>2. ASSUME NEW x \in Row PROVE Home(x)'
    BY <1>1, <1>3, <1>6 DEF FlushEnqueueThrows, Home, batches
  <2> QED
    BY <1>2, <2>1, <2>2 DEF Homes
<1>7. CASE FlushEnriched
  <2>1. Carriers'
    BY <1>1, <1>7 DEF FlushEnriched, Carriers
  <2>2. ASSUME NEW x \in Row PROVE Home(x)'
    <3>1. handed'[x] = IF x \in rest THEN handed[x] + 1 ELSE handed[x]
      BY <1>7 DEF FlushEnriched, HandOver
    <3> QED
      BY <1>1, <1>3, <1>7, <3>1 DEF FlushEnriched, Home, batches
  <2> QED
    BY <1>2, <2>1, <2>2 DEF Homes
<1>8. CASE Drained
  <2>1. Carriers'
    BY <1>1, <1>8 DEF Drained, Carriers
  <2>2. ASSUME NEW x \in Row PROVE Home(x)'
    BY <1>3, <1>8 DEF Drained, Home, batches
  <2> QED
    BY <1>2, <2>1, <2>2 DEF Homes
<1> QED
  BY <1>4, <1>5, <1>6, <1>7, <1>8 DEF MainStep

-----------------------------------------------------------------------------
(* The theorems.                                                           *)

\* Every step keeps the invariant.
LEMMA PlaceInvStep == ASSUME PlaceInv, [Next]_vars PROVE PlaceInv'
<1>1. CASE MainStep
  BY <1>1, MainTypeOK, MainPlaces DEF PlaceInv
<1>2. ASSUME NEW r \in Row, HandlerStep(r) PROVE PlaceInv'
  BY <1>2, HandlerTypeOK, HandlerPlaces, HandlerReading DEF PlaceInv
<1>3. CASE UNCHANGED vars
  <2>1. TypeOK'
    BY <1>3, Zenon DEF PlaceInv, TypeOK, vars, file, batches, stats
  <2>2. Reading' /\ Carriers' /\ Homes'
    BY <1>3 DEF PlaceInv, Reading, Carriers, Homes, Home, vars, file, batches, stats
  <2> QED
    BY <2>1, <2>2 DEF PlaceInv
<1> QED
  BY <1>1, <1>2, <1>3 DEF Next

\* The inductive invariant holds in every reachable state.
THEOREM RowInvariance == Spec => []PlaceInv
<1>1. PlaceInv /\ [Next]_vars => PlaceInv'
  BY PlaceInvStep
<1> QED
  BY <1>1, InitPlaceInv, PTL DEF Spec

\* The variables of an extraction have their types, whatever the file and the batch sizes.
THEOREM RowTypeCorrect == Spec => []TypeOK
<1>1. PlaceInv => TypeOK
  BY DEF PlaceInv
<1> QED
  BY <1>1, RowInvariance, PTL

\* However the listeners of a CSV file of any length interleave with each other and with
\* flush(), a row that was placed in a batch is in exactly one place, and was handed over
\* at most once (batch.helper.ts 168-185, extraction-processor.helper.ts 65-84, 192-211).
THEOREM OnePlacePerRow == Spec => []EachRowOnce
<1>1. PlaceInv => EachRowOnce
  <2> SUFFICES ASSUME PlaceInv PROVE EachRowOnce
    OBVIOUS
  <2>1. /\ handed \in [Row -> Nat] /\ carried \in [Source -> SUBSET Row]
        /\ deterministicBatch \subseteq Row /\ ambiguousBatch \subseteq Row
        /\ rest \subseteq Row /\ failed \subseteq Row
        /\ \A x \in Row : Home(x)
    BY DEF PlaceInv, TypeOK, Homes
  <2> DEFINE places == <<deterministicBatch, ambiguousBatch, Carried, rest, failed, Handed>>
  <2>2. Carried \subseteq Row /\ Handed \subseteq Row
    BY <2>1 DEF Carried, Handed
  <2>3. /\ deterministicBatch \intersect ambiguousBatch = {}
        /\ deterministicBatch \intersect Carried = {}
        /\ deterministicBatch \intersect rest = {}
        /\ deterministicBatch \intersect failed = {}
        /\ deterministicBatch \intersect Handed = {}
    BY <2>1 DEF Home, Carried, Handed
  <2>4. /\ ambiguousBatch \intersect Carried = {}
        /\ ambiguousBatch \intersect rest = {}
        /\ ambiguousBatch \intersect failed = {}
        /\ ambiguousBatch \intersect Handed = {}
    BY <2>1 DEF Home, Carried, Handed
  <2>5. /\ Carried \intersect rest = {} /\ Carried \intersect failed = {}
        /\ Carried \intersect Handed = {}
        /\ rest \intersect failed = {} /\ rest \intersect Handed = {}
        /\ failed \intersect Handed = {}
    BY <2>1 DEF Home, Carried, Handed
  <2>6. \A m, n \in 1 .. 6 : m # n => places[m] \intersect places[n] = {}
    BY <2>3, <2>4, <2>5
  <2>7. UNION {places[n] : n \in 1 .. 6} = Placed
    <3>1. UNION {places[n] : n \in 1 .. 6}
            = deterministicBatch \union ambiguousBatch \union Carried \union rest
                \union failed \union Handed
      OBVIOUS
    <3>2. ASSUME NEW x \in Row
          PROVE  x \in Placed <=>
                   \/ x \in deterministicBatch \/ x \in ambiguousBatch \/ x \in Carried
                   \/ x \in rest \/ x \in failed \/ x \in Handed
      <4>1. x \in Carried <=> \E s \in Source : x \in carried[s]
        BY DEF Carried
      <4>2. x \in Handed <=> handed[x] = 1
        BY <2>1 DEF Handed, Home
      <4> QED
        BY <2>1, <4>1, <4>2 DEF Home, Placed
    <3> QED
      BY <2>1, <2>2, <3>1, <3>2 DEF Placed
  <2>8. \A s, t \in Source : s # t => carried[s] \intersect carried[t] = {}
    BY <2>1 DEF Home
  <2>9. \A r \in Row : handed[r] <= 1
    BY <2>1 DEF Home
  <2> QED
    BY <2>6, <2>7, <2>8, <2>9 DEF EachRowOnce
<1> QED
  BY <1>1, RowInvariance, PTL

-----------------------------------------------------------------------------
(* An extraction implements Extraction.                                    *)

\* One row of a spreadsheet at a time waits for its batch, and extractWithProcessor goes on
\* when none does; the array of deterministic rows never outgrows a batch.
OneAtATime ==
  /\ \A r, s \in Suspended : r = s
  /\ Cardinality(deterministicBatch) <= DETERMINISTIC_BATCH_SIZE
  /\ \A r \in Row : pc[r] = "enqueue" =>
       deterministicBatch = {} /\ Cardinality(carried[r]) <= DETERMINISTIC_BATCH_SIZE
  /\ \A r \in Row : pc[r] = "enrich" =>
       Cardinality(deterministicBatch) < DETERMINISTIC_BATCH_SIZE
  /\ main # "rows" =>
       Suspended = {} /\ deterministicBatch = {} /\ ambiguousBatch = {} /\ read = RowCount
  /\ main # "crashed"

SheetInv == streaming = FALSE => OneAtATime

\* The first row of a spreadsheet waits for nobody.
LEMMA InitSheetInv == Init => SheetInv
<1> SUFFICES ASSUME Init PROVE OneAtATime
  BY DEF SheetInv
<1>1. Suspended = {}
  BY DEF Init, Suspended
<1>2. Cardinality(deterministicBatch) = 0
  BY FS_EmptySet DEF Init
<1> QED
  BY <1>1, <1>2, ConstantsAssumption DEF Init, OneAtATime

\* A row adds at most itself to the array of deterministic rows.
LEMMA PlaceAddsOne ==
  ASSUME TypeOK, NEW r \in Row, Place(r)
  PROVE  Cardinality(deterministicBatch') <= Cardinality(deterministicBatch) + 1
<1>1. IsFiniteSet(deterministicBatch) /\ Cardinality(deterministicBatch) \in Nat
  BY RowsFinite DEF TypeOK
<1>2. deterministicBatch' = deterministicBatch \/ deterministicBatch' = deterministicBatch \union {r}
  BY DEF Place
<1>3. Cardinality(deterministicBatch \union {r})
        = IF r \in deterministicBatch THEN Cardinality(deterministicBatch)
          ELSE Cardinality(deterministicBatch) + 1
  BY <1>1, FS_AddElement
<1>4. CASE deterministicBatch' = deterministicBatch
  BY <1>1, <1>4
<1>5. CASE deterministicBatch' = deterministicBatch \union {r}
  <2>1. Cardinality(deterministicBatch') = Cardinality(deterministicBatch \union {r})
    BY <1>5
  <2> QED
    BY <1>1, <1>3, <2>1
<1> QED
  BY <1>2, <1>4, <1>5

\* What the checks leave of a spreadsheet's only row that runs.
LEMMA CheckOneAtATime ==
  ASSUME TypeOK, NEW r \in Row, Suspended \subseteq {r}, main = "rows", main' = main,
         Cardinality(deterministicBatch) <= DETERMINISTIC_BATCH_SIZE,
         \/ CheckDeterministic(r)
         \/ CheckAmbiguous(r) /\ deterministicBatch = {}
         \/ Place(r) /\ Cardinality(deterministicBatch) < DETERMINISTIC_BATCH_SIZE
  PROVE  OneAtATime'
<1>1. /\ pc \in [Row -> HandlerSteps] /\ carried \in [Source -> SUBSET Row]
      /\ r \in Source /\ Cardinality(deterministicBatch) \in Nat
      /\ \A x \in Row : x # r => pc[x] \notin {"init", "enqueue", "enrich"}
      /\ Cardinality({}) = 0
  BY RowsFinite, FS_EmptySet DEF TypeOK, Source, Suspended
<1>2. ASSUME \E step \in HandlerSteps : pc' = [pc EXCEPT ![r] = step]
      PROVE  /\ Suspended' \subseteq {r}
             /\ \A x \in Row : x # r => pc'[x] \notin {"init", "enqueue", "enrich"}
  BY <1>1, <1>2 DEF Suspended
<1>3. CASE /\ Goto(r, "enqueue")
           /\ carried' = [carried EXCEPT ![r] = deterministicBatch]
           /\ deterministicBatch' = {}
  <2>1. pc' = [pc EXCEPT ![r] = "enqueue"] /\ pc'[r] = "enqueue" /\ carried'[r] = deterministicBatch
    BY <1>1, <1>3 DEF Goto
  <2>2. /\ Suspended' \subseteq {r}
        /\ \A x \in Row : x # r => pc'[x] \notin {"init", "enqueue", "enrich"}
    BY <1>2, <2>1 DEF HandlerSteps
  <2> QED
    BY <1>1, <1>3, <2>1, <2>2, ConstantsAssumption DEF OneAtATime
<1>4. CASE /\ Goto(r, "enrich")
           /\ UNCHANGED deterministicBatch
           /\ Cardinality(deterministicBatch) < DETERMINISTIC_BATCH_SIZE
  <2>1. pc' = [pc EXCEPT ![r] = "enrich"] /\ pc'[r] = "enrich"
    BY <1>1, <1>4 DEF Goto
  <2>2. /\ Suspended' \subseteq {r}
        /\ \A x \in Row : x # r => pc'[x] \notin {"init", "enqueue", "enrich"}
    BY <1>2, <2>1 DEF HandlerSteps
  <2> QED
    BY <1>1, <1>4, <2>1, <2>2, ConstantsAssumption DEF OneAtATime
<1>5. CASE Place(r) /\ Cardinality(deterministicBatch) < DETERMINISTIC_BATCH_SIZE
  <2>1. pc' = [pc EXCEPT ![r] = "done"] /\ pc'[r] = "done"
    BY <1>1, <1>5 DEF Place, Goto
  <2>2. /\ Suspended' \subseteq {r}
        /\ \A x \in Row : x # r => pc'[x] \notin {"init", "enqueue", "enrich"}
    BY <1>2, <2>1 DEF HandlerSteps
  <2>3. Cardinality(deterministicBatch') \in Nat
    BY <1>5, PlaceTypeOK, RowsFinite
  <2>4. Cardinality(deterministicBatch') <= DETERMINISTIC_BATCH_SIZE
    BY <1>1, <1>5, <2>3, PlaceAddsOne, ConstantsAssumption
  <2> QED
    BY <2>1, <2>2, <2>4 DEF OneAtATime
<1>6. CheckAmbiguous(r) => (Goto(r, "enrich") /\ UNCHANGED deterministicBatch) \/ Place(r)
  BY DEF CheckAmbiguous
<1>7. CheckDeterministic(r) =>
        \/ /\ Goto(r, "enqueue")
           /\ carried' = [carried EXCEPT ![r] = deterministicBatch]
           /\ deterministicBatch' = {}
        \/ CheckAmbiguous(r) /\ Cardinality(deterministicBatch) < DETERMINISTIC_BATCH_SIZE
  BY DEF CheckDeterministic
<1>8. deterministicBatch = {} => Cardinality(deterministicBatch) < DETERMINISTIC_BATCH_SIZE
  BY <1>1, ConstantsAssumption
<1> QED
  BY <1>3, <1>4, <1>5, <1>6, <1>7, <1>8

\* The rows of a spreadsheet stay one at a time.
LEMMA HandlerSheetInv ==
  ASSUME PlaceInv, SheetInv, NEW r \in Row, HandlerStep(r)
  PROVE  SheetInv'
<1>1. streaming' = streaming
  BY DEF HandlerStep, ReadRow, Initialized, Enqueued, EnqueueThrows, Enriched, file
<1> SUFFICES ASSUME streaming = FALSE PROVE OneAtATime'
  BY <1>1 DEF SheetInv
<1>2. TypeOK /\ OneAtATime /\ pc \in [Row -> HandlerSteps]
  BY DEF PlaceInv, TypeOK, SheetInv
<1>3. ASSUME pc[r] \in {"init", "enqueue", "enrich"}
      PROVE  Suspended \subseteq {r} /\ main = "rows"
  BY <1>2, <1>3 DEF OneAtATime, Suspended
<1>4. CASE ReadRow(r)
  <2>1. main = "rows" /\ main' = main /\ Suspended = {}
    BY <1>4 DEF ReadRow
  <2>2. CASE CheckDeterministic(r)
    BY <1>2, <2>1, <2>2, CheckOneAtATime DEF OneAtATime
  <2>3. CASE /\ UNCHANGED <<carried, batches>>
             /\ pc' = [pc EXCEPT ![r] = "skipped"] \/ pc' = [pc EXCEPT ![r] = "init"]
    <3>1. Suspended' \subseteq {r}
      BY <1>2, <2>1, <2>3 DEF Suspended
    <3> QED
      BY <1>2, <2>1, <2>3, <3>1 DEF OneAtATime, batches
  <2> QED
    BY <1>4, <2>2, <2>3 DEF ReadRow, Goto
<1>5. CASE Initialized(r)
  BY <1>2, <1>3, <1>5, CheckOneAtATime DEF OneAtATime, Initialized
<1>6. CASE Enqueued(r)
  BY <1>2, <1>3, <1>6, CheckOneAtATime DEF OneAtATime, Enqueued
<1>7. CASE EnqueueThrows(r)
  <2>1. /\ Suspended \subseteq {r} /\ main = "rows" /\ main' = main
        /\ pc' = [pc EXCEPT ![r] = "skipped"] /\ UNCHANGED batches
    BY <1>3, <1>7 DEF EnqueueThrows, Goto
  <2>2. Suspended' = {} /\ \A x \in Row : pc'[x] \notin {"init", "enqueue", "enrich"}
    BY <1>2, <2>1 DEF Suspended
  <2> QED
    BY <1>2, <2>1, <2>2 DEF OneAtATime, batches
<1>8. CASE Enriched(r)
  BY <1>2, <1>3, <1>8, CheckOneAtATime DEF OneAtATime, Enriched
<1> QED
  BY <1>4, <1>5, <1>6, <1>7, <1>8 DEF HandlerStep

\* When a spreadsheet's rows are over, they are over.
LEMMA MainSheetInv == ASSUME PlaceInv, SheetInv, MainStep PROVE SheetInv'
<1>1. UNCHANGED <<streaming, pc, read>>
  BY DEF MainStep, Flush, FlushEnqueued, FlushEnqueueThrows, FlushEnriched, Drained, file
<1> SUFFICES ASSUME streaming = FALSE PROVE OneAtATime'
  BY <1>1 DEF SheetInv
<1>2. OneAtATime /\ Suspended' = Suspended
  BY <1>1 DEF SheetInv, Suspended
<1>3. Suspended = {} /\ read = RowCount /\ main # "crashed" /\ main' # "crashed"
  BY <1>2 DEF MainStep, Flush, FlushEnqueued, FlushEnqueueThrows, FlushEnriched, Drained, OneAtATime
<1>4. deterministicBatch' = {} /\ ambiguousBatch' = {}
  BY <1>2 DEF MainStep, Flush, FlushEnqueued, FlushEnqueueThrows, FlushEnriched, Drained,
              OneAtATime, batches
<1>5. Cardinality({}) = 0
  BY FS_EmptySet
<1>6. \A x \in Row : pc'[x] \notin {"init", "enqueue", "enrich"}
  BY <1>1, <1>3 DEF Suspended
<1> QED
  BY <1>1, <1>2, <1>3, <1>4, <1>5, <1>6, ConstantsAssumption DEF OneAtATime

\* What a row's place says of it: it is valid, and neither handed over nor lost before.
LEMMA WhereItIs ==
  ASSUME PlaceInv, NEW x \in Row,
         \/ x \in deterministicBatch \/ x \in ambiguousBatch \/ x \in rest
         \/ \E s \in Source : x \in carried[s]
  PROVE  x \in Valid /\ pc[x] = "done" /\ x \notin Handed /\ x \notin failed /\ x \notin Forgotten
<1>1. Home(x) /\ Reading
  BY DEF PlaceInv, Homes
<1>2. pc[x] = "done" /\ x \notin failed /\ handed[x] = 0
  BY <1>1 DEF Home
<1> QED
  BY <1>1, <1>2 DEF Reading, Valid, Handed, Forgotten

\* An initial state of an extraction is one of Extraction.
LEMMA InitRefines == Init => Abstract!Init
<1> SUFFICES ASSUME Init PROVE Abstract!Init
  OBVIOUS
<1>1. streaming \in BOOLEAN
  BY Zenon DEF Init
<1>2. Valid \in SUBSET Row /\ Handed = {} /\ failed \union Forgotten = {} /\ main = "rows"
  BY DEF Init, Valid, Handed, Forgotten
<1> QED
  BY <1>1, <1>2 DEF Abstract!Init

\* A batch that arrives is a hand-over of Extraction, or nothing when it is empty.
LEMMA HandOverRefines ==
  ASSUME PlaceInv, NEW rows \in SUBSET Row, HandOver(rows),
         UNCHANGED <<file, failed, Forgotten>>,
         \A x \in rows : x \in Valid /\ x \notin Handed /\ x \notin failed /\ x \notin Forgotten,
         \/ main \in {"rows", "enqueue", "enrich", "drain"}
         \/ streaming = TRUE /\ main \in {"ended", "threw"},
         \/ main' = main
         \/ {main, main'} \subseteq {"rows", "enqueue", "enrich", "drain"}
  PROVE  Abstract!HandOver \/ UNCHANGED Abstract!evars
<1>1. handed \in [Row -> Nat]
  BY DEF PlaceInv, TypeOK
<1>2. handed' = [x \in Row |-> IF x \in rows THEN handed[x] + 1 ELSE handed[x]]
  BY DEF HandOver
<1>3. Handed' = Handed \union rows
  BY <1>1, <1>2 DEF Handed
<1>4. Valid' = Valid /\ streaming' = streaming /\ failed' = failed /\ Forgotten' = Forgotten
  BY DEF Valid, file
<1>5. rows \in SUBSET Abstract!Left
  BY DEF Abstract!Left
<1> DEFINE outcome == IF main \in {"ended", "threw", "crashed"} THEN main ELSE "running"
<1>6. outcome' = outcome /\ outcome # "crashed" /\ (outcome = "running" \/ streaming = TRUE)
  OBVIOUS
<1>7. CASE rows = {}
  BY <1>3, <1>4, <1>6, <1>7 DEF Abstract!evars
<1>8. CASE rows # {}
  BY <1>3, <1>4, <1>5, <1>6, <1>8 DEF Abstract!HandOver
<1> QED
  BY <1>7, <1>8

\* The steps of a row's handler.
LEMMA HandlerRefines ==
  ASSUME PlaceInv, SheetInv, NEW r \in Row, HandlerStep(r)
  PROVE  Abstract!Next \/ UNCHANGED Abstract!evars
<1>1. /\ pc \in [Row -> HandlerSteps] /\ carried \in [Source -> SUBSET Row]
      /\ r \in Source /\ Reading /\ Carriers /\ Home(r) /\ main \in MainSteps
  BY DEF PlaceInv, TypeOK, Source, Homes
<1>2. ASSUME CheckDeterministic(r) \/ CheckAmbiguous(r) \/ Place(r)
      PROVE  pc' = [pc EXCEPT ![r] = "enqueue"] \/ pc' = [pc EXCEPT ![r] = "enrich"]
               \/ pc' = [pc EXCEPT ![r] = "done"]
  BY <1>2 DEF CheckDeterministic, CheckAmbiguous, Place, Goto
<1>3. ASSUME pc[r] # "skipped", kind' = kind,
             \/ pc' = [pc EXCEPT ![r] = "enqueue"] \/ pc' = [pc EXCEPT ![r] = "enrich"]
             \/ pc' = [pc EXCEPT ![r] = "done"] \/ pc' = [pc EXCEPT ![r] = "init"]
             \/ pc' = [pc EXCEPT ![r] = "skipped"] /\ kind[r] = "invalid"
      PROVE  Forgotten' = Forgotten
  BY <1>1, <1>3 DEF Forgotten, Valid
<1>4. ASSUME pc[r] \in {"init", "enqueue", "enrich"}, streaming = FALSE
      PROVE  main = "rows"
  BY <1>4 DEF SheetInv, OneAtATime, Suspended
<1>5. streaming = FALSE \/ streaming = TRUE
  BY Zenon DEF PlaceInv, TypeOK
<1>6. \A x \in carried[r] : x \in Valid /\ x \notin Handed /\ x \notin failed /\ x \notin Forgotten
  BY <1>1, WhereItIs
<1>7. CASE ReadRow(r)
  <2>1. pc[r] = "unread" /\ UNCHANGED <<file, handed, failed, main>>
    BY <1>1, <1>7 DEF ReadRow, Reading, TypeOK, Row, PlaceInv
  <2>2. Forgotten' = Forgotten
    BY <1>2, <1>3, <1>7, <2>1 DEF ReadRow, file, Goto
  <2>3. Valid' = Valid /\ Handed' = Handed
    BY <2>1 DEF Valid, Handed, file
  <2> QED
    BY <2>1, <2>2, <2>3 DEF Abstract!evars, file
<1>8. CASE Initialized(r)
  <2>1. pc[r] = "init" /\ UNCHANGED <<file, handed, failed, main>>
    BY <1>8 DEF Initialized
  <2>2. Forgotten' = Forgotten
    BY <1>2, <1>3, <1>8, <2>1 DEF Initialized, file
  <2>3. Valid' = Valid /\ Handed' = Handed
    BY <2>1 DEF Valid, Handed, file
  <2> QED
    BY <2>1, <2>2, <2>3 DEF Abstract!evars, file
<1>9. CASE Enqueued(r) \/ Enriched(r)
  <2>1. /\ pc[r] \in {"enqueue", "enrich"} /\ UNCHANGED <<file, failed, main>>
        /\ HandOver(carried[r]) /\ main # "crashed"
    BY <1>9 DEF Enqueued, Enriched, MayResume, Alive
  <2>2. Forgotten' = Forgotten
    BY <1>2, <1>3, <1>9, <2>1 DEF Enqueued, Enriched, file
  <2>3. \/ main \in {"rows", "enqueue", "enrich", "drain"}
        \/ streaming = TRUE /\ main \in {"ended", "threw"}
    <3>1. CASE streaming = FALSE
      BY <1>4, <2>1, <3>1
    <3>2. CASE streaming = TRUE
      BY <1>1, <2>1, <3>2 DEF MainSteps
    <3> QED
      BY <1>5, <3>1, <3>2
  <2> QED
    BY <1>1, <1>6, <2>1, <2>2, <2>3, HandOverRefines DEF Abstract!Next
<1>10. CASE EnqueueThrows(r)
  <2>1. /\ pc[r] = "enqueue" /\ UNCHANGED <<file, handed>>
        /\ failed' = failed \union carried[r] /\ pc' = [pc EXCEPT ![r] = "skipped"]
        /\ main' = (IF streaming THEN "crashed" ELSE main) /\ main # "crashed"
    BY <1>10 DEF EnqueueThrows, MayResume, Alive, Goto
  <2>2. r \in Valid /\ r \notin Handed /\ r \notin failed /\ r \notin Forgotten /\ r \notin carried[r]
    <3>1. kind[r] # "invalid"
      BY <1>1, <2>1 DEF Reading
    <3>2. handed[r] # 1 /\ handed[r] <= 1 /\ r \notin failed /\ r \notin carried[r]
      BY <1>1, <2>1 DEF Home
    <3>3. handed[r] \in Nat
      BY DEF PlaceInv, TypeOK
    <3> QED
      BY <2>1, <3>1, <3>2, <3>3 DEF Valid, Handed, Forgotten
  <2>3. Forgotten' = Forgotten \union {r}
    BY <1>1, <2>1, <2>2 DEF Forgotten, Valid, file
  <2>4. Valid' = Valid /\ Handed' = Handed
    BY <2>1 DEF Valid, Handed, file
  <2> DEFINE rows == carried[r] \union {r}
  <2>5. /\ rows \in SUBSET Abstract!Left /\ rows # {}
        /\ (failed \union Forgotten)' = (failed \union Forgotten) \union rows
    BY <1>1, <1>6, <2>1, <2>2, <2>3 DEF Abstract!Left, Valid
  <2>6. CASE streaming = TRUE
    <3>1. main' = "crashed" /\ streaming' = streaming
      BY <2>1, <2>6 DEF file
    <3> QED
      BY <2>1, <2>4, <2>5, <2>6, <3>1 DEF Abstract!Next, Abstract!Crash
  <2>7. CASE streaming = FALSE
    <3>1. main = "rows" /\ main' = main /\ streaming' = streaming
      BY <1>4, <2>1, <2>7 DEF file
    <3>2. Cardinality(carried[r]) <= DETERMINISTIC_BATCH_SIZE
      BY <2>1, <2>7 DEF SheetInv, OneAtATime
    <3>3. IsFiniteSet(carried[r]) /\ Cardinality(carried[r]) \in Nat
      BY <1>1, RowsFinite
    <3>4. Cardinality(rows) = Cardinality(carried[r]) + 1
      BY <2>2, <3>3, FS_AddElement
    <3>5. Cardinality(rows) <= DETERMINISTIC_BATCH_SIZE + 1
      BY <3>2, <3>3, <3>4, ConstantsAssumption
    <3> HIDE DEF rows
    <3>6. Abstract!Cardinality(rows) = Cardinality(rows)
      BY DEF Abstract!Cardinality, Cardinality
    <3>7. Abstract!GiveUp
      BY <2>4, <2>5, <2>7, <3>1, <3>5, <3>6 DEF Abstract!GiveUp
    <3> QED
      BY <3>7 DEF Abstract!Next
  <2> QED
    BY <1>5, <2>6, <2>7
<1> QED
  BY <1>7, <1>8, <1>9, <1>10 DEF HandlerStep

\* The steps of extractWithProcessor.
LEMMA MainRefines ==
  ASSUME PlaceInv, SheetInv, MainStep
  PROVE  Abstract!Next \/ UNCHANGED Abstract!evars
<1>1. /\ carried \in [Source -> SUBSET Row] /\ rest \subseteq Row
      /\ pc \in [Row -> HandlerSteps] /\ handed \in [Row -> Nat] /\ read \in 0 .. RowCount
      /\ 0 \in Source /\ Reading /\ Carriers
  BY DEF PlaceInv, TypeOK, Source
<1>2. UNCHANGED <<streaming, Valid, Forgotten>>
  BY DEF MainStep, Flush, FlushEnqueued, FlushEnqueueThrows, FlushEnriched, Drained, Valid,
         Forgotten, file
<1>3. streaming = FALSE \/ streaming = TRUE
  BY Zenon DEF PlaceInv, TypeOK
<1>4. ASSUME UNCHANGED <<handed, failed>>, main = main' \/ main' \notin {"ended", "threw", "crashed"},
             main \notin {"ended", "threw", "crashed"}
      PROVE  UNCHANGED Abstract!evars
  BY <1>2, <1>4 DEF Abstract!evars, Handed
<1>5. ASSUME UNCHANGED <<handed, failed>>, main \notin {"ended", "threw", "crashed"}, main' = "ended",
             streaming = FALSE => Abstract!Left = {}
      PROVE  Abstract!End
  <2>1. Handed' = Handed
    BY <1>5 DEF Handed
  <2>2. ~ streaming => Abstract!Left = {}
    BY <1>3, <1>5
  <2> QED
    BY <1>2, <1>5, <2>1, <2>2 DEF Abstract!End
<1>6. CASE Flush
  <2>1. main = "rows" /\ UNCHANGED <<handed, failed>>
    BY <1>6 DEF Flush
  <2>2. CASE hasBatchHelper = FALSE
    <3>1. main' = "ended"
      BY <1>6, <2>2 DEF Flush
    <3>2. Abstract!Left = {}
      <4>1. ASSUME NEW x \in Valid PROVE x \in Forgotten
        <5>1. x \in Row /\ read = RowCount
          BY <1>6 DEF Valid, Flush
        <5>2. pc[x] = "skipped"
          BY <1>1, <2>2, <5>1, ConstantsAssumption DEF Reading, Row
        <5> QED
          BY <5>2 DEF Forgotten
      <4> QED
        BY <4>1 DEF Abstract!Left
    <3> QED
      BY <1>5, <2>1, <3>1, <3>2 DEF Abstract!Next
  <2>3. CASE hasBatchHelper # FALSE
    <3>1. hasBatchHelper = TRUE
      BY <2>3, Zenon DEF PlaceInv, TypeOK
    <3>2. main' \in {"enqueue", "enrich"}
      BY <1>6, <3>1 DEF Flush
    <3> QED
      BY <1>4, <2>1, <3>2
  <2> QED
    BY <2>2, <2>3
<1>7. CASE FlushEnqueued
  <2>1. /\ main = "enqueue" /\ main' = "enrich" /\ HandOver(carried[0])
        /\ UNCHANGED <<file, failed>> /\ carried[0] \in SUBSET Row
    BY <1>1, <1>7 DEF FlushEnqueued
  <2>2. \A x \in carried[0] : x \in Valid /\ x \notin Handed /\ x \notin failed /\ x \notin Forgotten
    BY <1>1, WhereItIs
  <2>3. Forgotten' = Forgotten
    BY <1>2
  <2> QED
    BY <2>1, <2>2, <2>3, HandOverRefines DEF Abstract!Next
<1>8. CASE FlushEnqueueThrows
  <2>1. /\ main = "enqueue" /\ main' = "threw" /\ UNCHANGED handed
        /\ failed' = failed \union carried[0]
    BY <1>8 DEF FlushEnqueueThrows
  <2>2. carried[0] # {} /\ carried[0] \in SUBSET Row
    BY <1>1, <2>1 DEF Carriers
  <2>3. \A x \in carried[0] : x \in Valid /\ x \notin Handed /\ x \notin failed /\ x \notin Forgotten
    BY <1>1, WhereItIs
  <2>4. carried[0] \in SUBSET Abstract!Left
    BY <2>3 DEF Abstract!Left
  <2>5. Handed' = Handed /\ (failed \union Forgotten)' = (failed \union Forgotten) \union carried[0]
    BY <1>2, <2>1 DEF Handed
  <2>6. Abstract!Throw
    BY <1>2, <2>1, <2>2, <2>4, <2>5 DEF Abstract!Throw
  <2> QED
    BY <2>6 DEF Abstract!Next
<1>9. CASE FlushEnriched
  <2>1. main = "enrich" /\ main' = "drain" /\ HandOver(rest) /\ UNCHANGED <<file, failed>>
    BY <1>9 DEF FlushEnriched
  <2>2. \A x \in rest : x \in Valid /\ x \notin Handed /\ x \notin failed /\ x \notin Forgotten
    BY <1>1, WhereItIs
  <2>3. Forgotten' = Forgotten
    BY <1>2
  <2> QED
    BY <1>1, <2>1, <2>2, <2>3, HandOverRefines DEF Abstract!Next
<1>10. CASE Drained
  <2>1. main = "drain" /\ main' = "ended" /\ UNCHANGED <<handed, failed>>
    BY <1>10 DEF Drained
  <2>2. ASSUME streaming = FALSE PROVE Abstract!Left = {}
    <3>1. /\ Suspended = {} /\ deterministicBatch = {} /\ ambiguousBatch = {} /\ read = RowCount
          /\ carried[0] = {} /\ rest = {}
      BY <1>1, <2>1, <2>2 DEF SheetInv, OneAtATime, Carriers
    <3>2. ASSUME NEW x \in Valid PROVE x \in Handed \/ x \in failed \/ x \in Forgotten
      <4>1. x \in Row
        BY DEF Valid
      <4>2. pc[x] \in {"done", "skipped"}
        BY <1>1, <3>1, <4>1, ConstantsAssumption DEF Reading, Row, Suspended, HandlerSteps
      <4>3. CASE pc[x] = "done"
        <5>1. Home(x)
          BY <4>1 DEF PlaceInv, Homes
        <5>2. \A s \in Source : carried[s] = {}
          BY <1>1, <3>1 DEF Carriers, Suspended, Source
        <5>3. x \in failed \/ handed[x] = 1
          BY <3>1, <4>3, <5>1, <5>2 DEF Home
        <5> QED
          BY <4>1, <5>3 DEF Handed
      <4>4. CASE pc[x] = "skipped"
        BY <4>4 DEF Forgotten
      <4> QED
        BY <4>2, <4>3, <4>4
    <3> QED
      BY <3>2 DEF Abstract!Left
  <2> QED
    BY <1>5, <2>1, <2>2 DEF Abstract!Next
<1> QED
  BY <1>6, <1>7, <1>8, <1>9, <1>10 DEF MainStep

\* Whoever awaits the extraction of a file of any length may rely on Extraction alone: no row
\* is handed over twice or handed over and given up, a spreadsheet ends with every valid row
\* handed over or given up, and a hand-over that fails costs it at most a batch and a row
\* (extractXLSX.ts 364-410, extractCSV.ts 158-203, extraction-processor.helper.ts 65-211).
THEOREM CallersView == Spec => ImplementsExtraction
<1>1. Init => SheetInv /\ Abstract!Init
  BY InitSheetInv, InitRefines
<1>2. PlaceInv /\ SheetInv /\ [Next]_vars => SheetInv' /\ [Abstract!Next]_(Abstract!evars)
  <2> SUFFICES ASSUME PlaceInv, SheetInv, [Next]_vars
               PROVE  SheetInv' /\ [Abstract!Next]_(Abstract!evars)
    OBVIOUS
  <2>1. CASE MainStep
    BY <2>1, MainSheetInv, MainRefines
  <2>2. ASSUME NEW r \in Row, HandlerStep(r)
        PROVE  SheetInv' /\ [Abstract!Next]_(Abstract!evars)
    BY <2>2, HandlerSheetInv, HandlerRefines
  <2>3. CASE UNCHANGED vars
    <3>1. SheetInv'
      BY <2>3 DEF SheetInv, OneAtATime, Suspended, vars, file, batches
    <3>2. UNCHANGED Abstract!evars
      BY <2>3 DEF Abstract!evars, Valid, Handed, Forgotten, vars, file
    <3> QED
      BY <3>1, <3>2
  <2> QED
    BY <2>1, <2>2, <2>3 DEF Next
<1> QED
  BY <1>1, <1>2, RowInvariance, PTL DEF Spec, ImplementsExtraction, Abstract!Spec

-----------------------------------------------------------------------------
(* How much a CSV file leaves behind.                                      *)

Smaller == IF DETERMINISTIC_BATCH_SIZE < AMBIGUOUS_BATCH_SIZE
           THEN DETERMINISTIC_BATCH_SIZE ELSE AMBIGUOUS_BATCH_SIZE

\* The rows that have left the arrays before flush() or with it.
Gone == Handed \union Carried \union failed

\* Some rows have each sent a full batch of other rows on its way: all that wait for a
\* batch, and, after flush(), all that are in an array.
Paid(rows) ==
  /\ Smaller * Cardinality(rows) <= Cardinality(Gone)
  /\ \A r \in Row : pc[r] \in {"enqueue", "enrich"} => r \in rows
  /\ main \notin {"rows", "crashed"} =>
       /\ deterministicBatch \union ambiguousBatch \subseteq rows
       /\ \A r \in Row : pc[r] # "init"

LossInv == \E rows \in SUBSET Row : Paid(rows)

\* Multiplication by a size preserves the order.
LEMMA SizeTimes ==
  ASSUME NEW n \in Nat, NEW m \in Nat, NEW k \in Nat, n <= m
  PROVE  k * n <= k * m /\ k * n \in Nat /\ k * (n + 1) = k * n + k
OBVIOUS

\* No batch is sent with fewer rows.
LEMMA SmallerIsSmaller ==
  /\ Smaller \in Nat \ {0}
  /\ Smaller <= DETERMINISTIC_BATCH_SIZE /\ Smaller <= AMBIGUOUS_BATCH_SIZE
BY ConstantsAssumption DEF Smaller

\* One more row has paid with a batch that was in the arrays.
LEMMA Payment ==
  ASSUME NEW rows \in SUBSET Row, NEW gone \in SUBSET Row, NEW r \in Row,
         NEW batch \in SUBSET Row, NEW more \in SUBSET Row,
         Smaller * Cardinality(rows) <= Cardinality(gone),
         Cardinality(batch) >= Smaller, batch \intersect gone = {},
         gone \union batch \subseteq more
  PROVE  Smaller * Cardinality(rows \union {r}) <= Cardinality(more)
<1>1. /\ IsFiniteSet(rows) /\ Cardinality(rows) \in Nat
      /\ IsFiniteSet(gone) /\ Cardinality(gone) \in Nat
      /\ IsFiniteSet(batch) /\ Cardinality(batch) \in Nat
      /\ IsFiniteSet(more) /\ Cardinality(more) \in Nat
      /\ Cardinality(rows \union {r}) \in Nat
  BY RowsFinite
<1>2. Cardinality(rows \union {r}) <= Cardinality(rows) + 1
  <2>1. Cardinality(rows \union {r})
          = IF r \in rows THEN Cardinality(rows) ELSE Cardinality(rows) + 1
    BY <1>1, FS_AddElement
  <2> QED
    BY <1>1, <2>1
<1>3. Cardinality(gone \union batch) = Cardinality(gone) + Cardinality(batch)
  <2>1. Cardinality(gone \union batch)
          = Cardinality(gone) + Cardinality(batch) - Cardinality(gone \intersect batch)
    BY <1>1, FS_Union
  <2>2. Cardinality(gone \intersect batch) = 0
    BY FS_EmptySet
  <2> QED
    BY <1>1, <2>1, <2>2
<1>4. Cardinality(gone \union batch) <= Cardinality(more)
  BY <1>1, FS_Subset
<1>5. /\ Smaller * Cardinality(rows \union {r}) <= Smaller * (Cardinality(rows) + 1)
      /\ Smaller * (Cardinality(rows) + 1) = Smaller * Cardinality(rows) + Smaller
      /\ Smaller * Cardinality(rows) \in Nat /\ Smaller * Cardinality(rows \union {r}) \in Nat
      /\ Smaller * (Cardinality(rows) + 1) \in Nat
  BY <1>1, <1>2, SizeTimes, SmallerIsSmaller
<1> QED
  BY <1>1, <1>3, <1>4, <1>5, SmallerIsSmaller

\* What has left the arrays is what was placed and is in none of them any more.
GoneRows ==
  /\ Gone \in SUBSET Row
  /\ \A x \in Row : x \in Gone <=>
       /\ pc[x] = "done"
       /\ x \notin deterministicBatch /\ x \notin ambiguousBatch /\ x \notin rest

\* It follows from every row having one place.
LEMMA GoneIs == PlaceInv => GoneRows
<1> SUFFICES ASSUME PlaceInv PROVE GoneRows
  OBVIOUS
<1>1. /\ handed \in [Row -> Nat] /\ carried \in [Source -> SUBSET Row] /\ failed \subseteq Row
      /\ \A x \in Row : Home(x)
  BY DEF PlaceInv, TypeOK, Homes
<1>2. Gone \in SUBSET Row
  BY <1>1 DEF Gone, Handed, Carried
<1>3. ASSUME NEW x \in Row
      PROVE  x \in Gone <=> handed[x] = 1 \/ x \in failed \/ \E s \in Source : x \in carried[s]
  <2>1. x \in Handed <=> handed[x] = 1
    BY <1>1 DEF Handed, Home
  <2>2. x \in Carried <=> \E s \in Source : x \in carried[s]
    BY DEF Carried
  <2> QED
    BY <2>1, <2>2 DEF Gone
<1>4. ASSUME NEW x \in Row
      PROVE  x \in Gone <=>
               /\ pc[x] = "done"
               /\ x \notin deterministicBatch /\ x \notin ambiguousBatch /\ x \notin rest
  BY <1>1, <1>3 DEF Home
<1> QED
  BY <1>2, <1>4 DEF GoneRows

\* The same of the next state.
LEMMA GoneIsNext == PlaceInv' => GoneRows'
BY GoneIs, PTL

\* The three things a handler's step comes to.
Sends(r, batch) ==
  /\ pc' = [pc EXCEPT ![r] = "enqueue"] \/ pc' = [pc EXCEPT ![r] = "enrich"]
  /\ Cardinality(batch) >= Smaller
  /\ deterministicBatch' \subseteq deterministicBatch /\ ambiguousBatch' \subseteq ambiguousBatch
  /\ batch \subseteq deterministicBatch \union ambiguousBatch
  /\ batch \intersect (deterministicBatch' \union ambiguousBatch') = {}
  /\ main' = main

Waits(r) ==
  /\ \/ pc' = [pc EXCEPT ![r] = "skipped"]
     \/ main = "rows" /\ pc' = [pc EXCEPT ![r] = "init"]
  /\ UNCHANGED batches
  /\ main' \in {main, "crashed"}

Joins(r) ==
  /\ pc' = [pc EXCEPT ![r] = "done"]
  /\ deterministicBatch' \subseteq deterministicBatch \union {r}
  /\ ambiguousBatch' \subseteq ambiguousBatch \union {r}
  /\ main = "rows" \/ pc[r] \in {"init", "enqueue", "enrich"}
  /\ main' = main

\* There is no fourth.
LEMMA HandlerKinds ==
  ASSUME PlaceInv, NEW r \in Row, HandlerStep(r)
  PROVE  /\ pc[r] # "done" /\ rest' = rest
         /\ \/ \E batch \in SUBSET Row : Sends(r, batch)
            \/ Waits(r)
            \/ Joins(r)
<1>0. deterministicBatch \intersect ambiguousBatch = {}
  BY DEF PlaceInv, TypeOK, Homes, Home
<1>1. /\ deterministicBatch \in SUBSET Row /\ ambiguousBatch \in SUBSET Row
      /\ Cardinality(deterministicBatch) \in Nat /\ Cardinality(ambiguousBatch) \in Nat
      /\ pc \in [Row -> HandlerSteps] /\ read \in 0 .. RowCount /\ Reading
  BY RowsFinite DEF PlaceInv, TypeOK
<1>2. rest' = rest
  BY DEF HandlerStep, ReadRow, Initialized, Enqueued, EnqueueThrows, Enriched
<1>3. pc[r] # "done"
  BY <1>1 DEF HandlerStep, ReadRow, Initialized, Enqueued, EnqueueThrows, Enriched, Reading, Row
<1>4. ASSUME Place(r), main' = main, main = "rows" \/ pc[r] \in {"init", "enqueue", "enrich"} PROVE Joins(r)
  BY <1>4 DEF Place, Goto, Joins
<1>5. ASSUME CheckAmbiguous(r), main' = main, main = "rows" \/ pc[r] \in {"init", "enqueue", "enrich"}
      PROVE  (\E batch \in SUBSET Row : Sends(r, batch)) \/ Joins(r)
  <2>1. CASE Place(r)
    BY <1>4, <1>5, <2>1
  <2>2. CASE ~ Place(r)
    <3>1. Sends(r, ambiguousBatch)
      BY <1>0, <1>1, <1>5, <2>2, SmallerIsSmaller, ConstantsAssumption DEF CheckAmbiguous, Sends, Goto
    <3> QED
      BY <1>1, <3>1
  <2> QED
    BY <2>1, <2>2
<1>6. ASSUME CheckDeterministic(r), main' = main, main = "rows" \/ pc[r] \in {"init", "enqueue", "enrich"}
      PROVE  (\E batch \in SUBSET Row : Sends(r, batch)) \/ Joins(r)
  <2>1. CASE CheckAmbiguous(r)
    BY <1>5, <1>6, <2>1
  <2>2. CASE ~ CheckAmbiguous(r)
    <3>1. Sends(r, deterministicBatch)
      BY <1>0, <1>1, <1>6, <2>2, SmallerIsSmaller, ConstantsAssumption DEF CheckDeterministic, Sends, Goto
    <3> QED
      BY <1>1, <3>1
  <2> QED
    BY <2>1, <2>2
<1>7. CASE ReadRow(r)
  BY <1>2, <1>3, <1>6, <1>7 DEF ReadRow, Waits, Goto, batches
<1>8. CASE Initialized(r) \/ Enqueued(r) \/ Enriched(r)
  BY <1>2, <1>3, <1>4, <1>5, <1>6, <1>8 DEF Initialized, Enqueued, Enriched
<1>9. CASE EnqueueThrows(r)
  BY <1>2, <1>3, <1>9 DEF EnqueueThrows, Waits, Goto
<1> QED
  BY <1>7, <1>8, <1>9 DEF HandlerStep

\* A handler pays for the row it may leave behind before it can do so.
LEMMA HandlerPays ==
  ASSUME PlaceInv, PlaceInv', LossInv, NEW r \in Row, HandlerStep(r)
  PROVE  LossInv'
<1> PICK rows \in SUBSET Row : Paid(rows)
  BY DEF LossInv
<1>1. pc \in [Row -> HandlerSteps] /\ pc[r] # "done" /\ rest' = rest
  BY HandlerKinds DEF PlaceInv, TypeOK
<1>2. GoneRows /\ GoneRows' /\ Gone \in SUBSET Row /\ Gone' \in SUBSET Row
  BY GoneIs, GoneIsNext DEF GoneRows
<1>3. /\ Cardinality(Gone) \in Nat /\ Cardinality(Gone') \in Nat /\ Cardinality(rows) \in Nat
      /\ Smaller * Cardinality(rows) \in Nat
  BY <1>2, RowsFinite, SizeTimes, SmallerIsSmaller
<1>4. CASE \E batch \in SUBSET Row : Sends(r, batch)
  <2> PICK batch \in SUBSET Row : Sends(r, batch)
    BY <1>4
  <2>1. \A x \in batch : pc[x] = "done" /\ x \notin rest
    BY DEF Sends, PlaceInv, Homes, Home
  <2>2. batch \intersect Gone = {} /\ Gone \union batch \subseteq Gone'
    BY <1>1, <1>2, <2>1 DEF Sends, GoneRows
  <2>3. Smaller * Cardinality(rows \union {r}) <= Cardinality(Gone')
    BY <1>2, <2>2, Payment DEF Sends, Paid
  <2>4. Paid(rows \union {r})'
    BY <1>1, <2>3 DEF Paid, Sends, Smaller
  <2> QED
    BY <2>4 DEF LossInv
<1>5. CASE Waits(r) \/ Joins(r)
  <2>1. Gone \subseteq Gone'
    BY <1>1, <1>2, <1>5 DEF Waits, Joins, batches, GoneRows
  <2>2. Cardinality(Gone) <= Cardinality(Gone')
    BY <1>2, <2>1, RowsFinite, FS_Subset
  <2>3. Smaller * Cardinality(rows) <= Cardinality(Gone')
    BY <1>3, <2>2 DEF Paid
  <2>4. CASE Waits(r)
    BY <1>1, <2>3, <2>4 DEF LossInv, Paid, Waits, batches, Smaller
  <2>5. CASE Joins(r)
    <3>1. main \notin {"rows", "crashed"} => r \in rows
      BY <2>5 DEF Joins, Paid
    <3> QED
      BY <1>1, <2>3, <2>5, <3>1 DEF LossInv, Paid, Joins, Smaller
  <2> QED
    BY <1>5, <2>4, <2>5
<1> QED
  BY <1>4, <1>5, HandlerKinds

\* flush() leaves nobody in debt: it empties the arrays.
LEMMA MainPays == ASSUME PlaceInv, PlaceInv', LossInv, MainStep PROVE LossInv'
<1> PICK rows \in SUBSET Row : Paid(rows)
  BY DEF LossInv
<1>1. /\ pc' = pc
      /\ \/ /\ main = "rows" /\ \A r \in Row : pc[r] # "init"
            /\ deterministicBatch' = {} /\ ambiguousBatch' = {} /\ rest' = ambiguousBatch
         \/ /\ main \notin {"rows", "crashed"}
            /\ UNCHANGED batches /\ rest' \subseteq rest
  BY DEF MainStep, Flush, FlushEnqueued, FlushEnqueueThrows, FlushEnriched, Drained, Suspended,
         batches
<1>2. GoneRows /\ GoneRows' /\ Gone \in SUBSET Row /\ Gone' \in SUBSET Row
  BY GoneIs, GoneIsNext DEF GoneRows
<1>3. main = "rows" => rest = {}
  BY DEF PlaceInv, Carriers
<1>4. Gone \subseteq Gone'
  BY <1>1, <1>2, <1>3 DEF GoneRows, batches
<1>5. /\ Cardinality(Gone) \in Nat /\ Cardinality(Gone') \in Nat /\ Cardinality(rows) \in Nat
      /\ Smaller * Cardinality(rows) \in Nat
  BY <1>2, RowsFinite, SizeTimes, SmallerIsSmaller
<1>6. Cardinality(Gone) <= Cardinality(Gone')
  BY <1>2, <1>4, RowsFinite, FS_Subset
<1>7. Smaller * Cardinality(rows) <= Cardinality(Gone')
  BY <1>5, <1>6 DEF Paid
<1> QED
  BY <1>1, <1>7 DEF LossInv, Paid, batches, Smaller

\* A CSV file of any length, with any batch sizes, leaves at most one row behind for every
\* full batch that was handed over while it was read: when flush() has taken the arrays,
\* a row can join them only after the batch its listener sent
\* (extractCSV.ts 126-156, extraction-processor.helper.ts 46-84, 192-211).
THEOREM AtMostOnePerBatch == Spec => []LossIsBounded
<1>1. Init => LossInv
  <2> SUFFICES ASSUME Init PROVE Paid({})
    BY DEF LossInv
  <2>1. Gone \in SUBSET Row
    BY GoneIs, InitPlaceInv DEF GoneRows
  <2>2. Cardinality(Gone) \in Nat /\ Cardinality({}) = 0 /\ Smaller * 0 = 0
    BY <2>1, RowsFinite, FS_EmptySet, SmallerIsSmaller
  <2> QED
    BY <2>2 DEF Paid, Init
<1>2. PlaceInv /\ PlaceInv' /\ LossInv /\ [Next]_vars => LossInv'
  <2> SUFFICES ASSUME PlaceInv, PlaceInv', LossInv, [Next]_vars PROVE LossInv'
    OBVIOUS
  <2>1. CASE UNCHANGED vars
    BY <2>1 DEF LossInv, Paid, Gone, Handed, Carried, vars, batches
  <2> QED
    BY <2>1, MainPays, HandlerPays DEF Next
<1>3. PlaceInv /\ LossInv => LossIsBounded
  <2> SUFFICES ASSUME PlaceInv, LossInv, main \notin {"rows", "crashed"}
               PROVE  Smaller * Cardinality(deterministicBatch \union ambiguousBatch)
                        <= Cardinality(Gone)
    BY DEF LossIsBounded, Smaller, Gone
  <2> PICK rows \in SUBSET Row : Paid(rows)
    BY DEF LossInv
  <2> DEFINE left == deterministicBatch \union ambiguousBatch
  <2>1. left \subseteq rows /\ IsFiniteSet(rows) /\ Gone \in SUBSET Row
    BY RowsFinite, GoneIs DEF Paid, GoneRows
  <2>2. /\ Cardinality(left) <= Cardinality(rows)
        /\ Cardinality(left) \in Nat /\ Cardinality(rows) \in Nat /\ Cardinality(Gone) \in Nat
    BY <2>1, FS_Subset, FS_CardinalityType, RowsFinite
  <2> HIDE DEF left
  <2>3. Smaller * Cardinality(left) <= Smaller * Cardinality(rows)
        /\ Smaller * Cardinality(left) \in Nat /\ Smaller * Cardinality(rows) \in Nat
    BY <2>2, SizeTimes, SmallerIsSmaller
  <2>4. Smaller * Cardinality(left) <= Cardinality(Gone)
    BY <2>2, <2>3 DEF Paid
  <2> QED
    BY <2>4 DEF left
<1> QED
  BY <1>1, <1>2, <1>3, RowInvariance, PTL DEF Spec

-----------------------------------------------------------------------------
(* The way to the end.                                                     *)

Over == main = "crashed" \/ (main \in {"ended", "threw"} /\ Suspended = {})

\* The guards of a handler's steps, and of main's.
HandlerCanGoOn(r) ==
  \/ main = "rows" /\ r = read + 1 /\ (~ streaming => Suspended = {})
  \/ MayResume(r) /\ r \in Suspended
MainCanGoOn ==
  \/ /\ main = "rows" /\ read = RowCount
     /\ IF streaming THEN \A r \in Row : pc[r] # "init" ELSE Suspended = {}
  \/ main \in {"enqueue", "enrich", "drain"}

\* The handlers, the parser and flush() wait for each other, and never in a circle.
NobodyIsStuck == Over \/ MainCanGoOn \/ \E r \in Row : HandlerCanGoOn(r)

AllRead == main \in {"rows", "crashed"} \/ read = RowCount

\* Until the extraction is over, some handler or main has a step to take: that rows are
\* read first, initialize() awaited first and flush() called last, suspends none for good.
THEOREM SomeoneGoesOn == Spec => []NobodyIsStuck
<1>1. Init => AllRead
  BY DEF Init, AllRead
<1>2. TypeOK /\ AllRead /\ [Next]_vars => AllRead'
  <2> SUFFICES ASSUME TypeOK, AllRead, [Next]_vars PROVE AllRead'
    OBVIOUS
  <2>1. CASE MainStep
    BY <2>1 DEF MainStep, Flush, FlushEnqueued, FlushEnqueueThrows, FlushEnriched, Drained, AllRead
  <2>2. CASE \E r \in Row : HandlerStep(r)
    BY <2>2 DEF HandlerStep, ReadRow, Initialized, Enqueued, EnqueueThrows, Enriched, AllRead
  <2>3. CASE UNCHANGED vars
    BY <2>3 DEF AllRead, vars
  <2> QED
    BY <2>1, <2>2, <2>3 DEF Next
<1>3. TypeOK /\ AllRead => NobodyIsStuck
  <2> SUFFICES ASSUME TypeOK, AllRead, ~ Over, ~ MainCanGoOn
               PROVE  \E r \in Row : HandlerCanGoOn(r)
    BY DEF NobodyIsStuck
  <2>1. main \in {"rows", "ended", "threw"} /\ Alive /\ read \in 0 .. RowCount
    BY DEF Over, MainCanGoOn, TypeOK, MainSteps, Alive
  <2>2. ASSUME main = "rows", read # RowCount, ~ streaming => Suspended = {}
        PROVE  \E r \in Row : HandlerCanGoOn(r)
    <3>1. read + 1 \in Row
      BY <2>1, <2>2, ConstantsAssumption DEF Row
    <3> QED
      BY <2>2, <3>1 DEF HandlerCanGoOn
  <2>3. ASSUME ~ streaming, Suspended # {} PROVE \E r \in Row : HandlerCanGoOn(r)
    BY <2>1, <2>3 DEF HandlerCanGoOn, MayResume, Suspended
  <2>4. ASSUME streaming, read = RowCount, Suspended # {} PROVE \E r \in Row : HandlerCanGoOn(r)
    <3>1. CASE \E s \in Row : pc[s] = "init"
      BY <2>1, <2>4, <3>1 DEF HandlerCanGoOn, MayResume, Suspended
    <3>2. CASE \A s \in Row : pc[s] # "init"
      BY <2>1, <2>4, <3>2 DEF HandlerCanGoOn, MayResume, Suspended
    <3> QED
      BY <3>1, <3>2
  <2>5. CASE main = "rows"
    <3>1. read = RowCount => Suspended # {}
      BY <2>5 DEF MainCanGoOn, Suspended
    <3> QED
      BY <2>2, <2>3, <2>4, <2>5, <3>1 DEF TypeOK
  <2>6. CASE main \in {"ended", "threw"}
    BY <2>3, <2>4, <2>6 DEF Over, AllRead, TypeOK
  <2> QED
    BY <2>1, <2>5, <2>6
<1> QED
  BY <1>1, <1>2, <1>3, RowTypeCorrect, PTL DEF Spec

\* The rows whose handlers have a step, or another, still before them.
At(steps) == {r \in Row : pc[r] \in steps}
ToRead == At({"unread"})
ToStart == At({"unread", "init"})
ToEnqueue == At({"unread", "init", "enqueue"})
ToEnrich == At({"unread", "init", "enqueue", "enrich"})

MainStepsLeft ==
  CASE main = "rows" -> 4
    [] main = "enqueue" -> 3
    [] main = "enrich" -> 2
    [] main = "drain" -> 1
    [] OTHER -> 0

StepsLeft == Cardinality(ToRead) + Cardinality(ToStart) + Cardinality(ToEnqueue)
             + Cardinality(ToEnrich) + MainStepsLeft

StepsLeftIsBounded == StepsLeft \in 0 .. 4 * RowCount + 4

\* A handler leaves a step behind it, and leaves the others where they are.
LEMMA HandlerLeavesAStep ==
  ASSUME TypeOK, Reading, NEW r \in Row, HandlerStep(r)
  PROVE  /\ MainStepsLeft' <= MainStepsLeft
         /\ \E step \in HandlerSteps :
              /\ pc' = [pc EXCEPT ![r] = step]
              /\ \/ pc[r] = "unread" /\ step \in {"init", "enqueue", "enrich", "done", "skipped"}
                 \/ pc[r] = "init" /\ step \in {"enqueue", "enrich", "done"}
                 \/ pc[r] = "enqueue" /\ step \in {"enrich", "done", "skipped"}
                 \/ pc[r] = "enrich" /\ step = "done"
<1>1. MainStepsLeft' <= MainStepsLeft
  BY DEF HandlerStep, ReadRow, Initialized, Enqueued, EnqueueThrows, Enriched, MainStepsLeft
<1>2. pc \in [Row -> HandlerSteps]
  BY DEF TypeOK
<1>3. ASSUME CheckAmbiguous(r)
      PROVE  \E step \in {"enrich", "done"} : pc' = [pc EXCEPT ![r] = step]
  BY <1>3 DEF CheckAmbiguous, Place, Goto
<1>4. ASSUME CheckDeterministic(r)
      PROVE  \E step \in {"enqueue", "enrich", "done"} : pc' = [pc EXCEPT ![r] = step]
  BY <1>3, <1>4 DEF CheckDeterministic, Goto
<1>5. CASE ReadRow(r)
  <2>1. pc[r] = "unread"
    BY <1>5 DEF ReadRow, Reading, Row, TypeOK
  <2>2. \E step \in {"init", "enqueue", "enrich", "done", "skipped"} : pc' = [pc EXCEPT ![r] = step]
    BY <1>4, <1>5 DEF ReadRow, Goto
  <2> QED
    BY <1>1, <2>1, <2>2 DEF HandlerSteps
<1>6. CASE Initialized(r)
  BY <1>1, <1>4, <1>6 DEF Initialized, HandlerSteps
<1>7. CASE Enqueued(r)
  BY <1>1, <1>3, <1>7 DEF Enqueued, HandlerSteps
<1>8. CASE EnqueueThrows(r)
  BY <1>1, <1>8 DEF EnqueueThrows, Goto, HandlerSteps
<1>9. CASE Enriched(r)
  BY <1>1, <1>9 DEF Enriched, Place, Goto, HandlerSteps
<1> QED
  BY <1>5, <1>6, <1>7, <1>8, <1>9 DEF HandlerStep

\* An extraction takes at most four steps for every row and four at its end, counting what
\* it does between two awaits, however its handlers are scheduled: with SomeoneGoesOn the
\* part of ExtractionEnds that is no matter of fairness, for files of any length.
THEOREM FourStepsPerRow == Spec => []StepsLeftIsBounded /\ [][StepsLeft' < StepsLeft]_vars
<1>1. ASSUME NEW steps PROVE At(steps) \in SUBSET Row
  BY DEF At
<1>2. Cardinality(Row) = RowCount /\ IsFiniteSet(Row)
  BY FS_Interval, ConstantsAssumption DEF Row
<1>3. ASSUME NEW rows \in SUBSET Row PROVE Cardinality(rows) \in 0 .. RowCount
  BY <1>2, <1>3, RowsFinite, FS_Subset, ConstantsAssumption
<1>4. ASSUME NEW S \in SUBSET Row, NEW T \in SUBSET S
      PROVE  Cardinality(T) <= Cardinality(S) /\ (T # S => Cardinality(T) < Cardinality(S))
  <2>1. IsFiniteSet(S) /\ Cardinality(S) \in Nat /\ Cardinality(T) \in Nat
    BY RowsFinite
  <2>2. Cardinality(T) <= Cardinality(S) /\ (Cardinality(S) = Cardinality(T) => S = T)
    BY <2>1, FS_Subset
  <2> QED
    BY <2>1, <2>2
<1>5. /\ Cardinality(ToRead) \in 0 .. RowCount /\ Cardinality(ToStart) \in 0 .. RowCount
      /\ Cardinality(ToEnqueue) \in 0 .. RowCount /\ Cardinality(ToEnrich) \in 0 .. RowCount
      /\ MainStepsLeft \in 0 .. 4
  BY <1>1, <1>3 DEF ToRead, ToStart, ToEnqueue, ToEnrich, MainStepsLeft
<1>6. StepsLeftIsBounded
  BY <1>5, ConstantsAssumption DEF StepsLeft, StepsLeftIsBounded
<1>7. PlaceInv /\ PlaceInv' /\ [Next]_vars => [StepsLeft' < StepsLeft]_vars
  <2> SUFFICES ASSUME PlaceInv, PlaceInv', Next PROVE StepsLeft' < StepsLeft
    OBVIOUS
  <2>0. /\ (Cardinality(ToRead) \in Nat /\ Cardinality(ToStart) \in Nat)'
        /\ (Cardinality(ToEnqueue) \in Nat /\ Cardinality(ToEnrich) \in Nat)'
        /\ MainStepsLeft' \in Nat
    <3>1. ASSUME NEW steps PROVE At(steps)' \in SUBSET Row
      BY DEF At
    <3> QED
      BY <3>1, RowsFinite DEF ToRead, ToStart, ToEnqueue, ToEnrich, MainStepsLeft
  <2>1. CASE MainStep
    <3>1. pc' = pc /\ MainStepsLeft' < MainStepsLeft
      BY <2>1 DEF MainStep, Flush, FlushEnqueued, FlushEnqueueThrows, FlushEnriched, Drained,
                  MainStepsLeft
    <3>2. UNCHANGED <<ToRead, ToStart, ToEnqueue, ToEnrich>>
      BY <3>1 DEF ToRead, ToStart, ToEnqueue, ToEnrich, At
    <3> QED
      BY <1>5, <2>0, <3>1, <3>2 DEF StepsLeft
  <2>2. ASSUME NEW r \in Row, HandlerStep(r) PROVE StepsLeft' < StepsLeft
    <3>1. MainStepsLeft' <= MainStepsLeft
      BY <2>2, HandlerLeavesAStep DEF PlaceInv
    <3>2. PICK step \in HandlerSteps :
            /\ pc' = [pc EXCEPT ![r] = step]
            /\ \/ pc[r] = "unread" /\ step \in {"init", "enqueue", "enrich", "done", "skipped"}
               \/ pc[r] = "init" /\ step \in {"enqueue", "enrich", "done"}
               \/ pc[r] = "enqueue" /\ step \in {"enrich", "done", "skipped"}
               \/ pc[r] = "enrich" /\ step = "done"
      BY <2>2, HandlerLeavesAStep DEF PlaceInv
    <3>3. pc'[r] = step /\ \A x \in Row \ {r} : pc'[x] = pc[x]
      BY <3>2 DEF PlaceInv, TypeOK
    <3>4. ToRead' \in SUBSET ToRead
      BY <3>2, <3>3 DEF ToRead, At
    <3>5. ToStart' \in SUBSET ToStart
      BY <3>2, <3>3 DEF ToStart, At
    <3>6. ToEnqueue' \in SUBSET ToEnqueue
      BY <3>2, <3>3 DEF ToEnqueue, At
    <3>7. ToEnrich' \in SUBSET ToEnrich
      BY <3>2, <3>3 DEF ToEnrich, At
    <3>8. \/ ToRead' # ToRead \/ ToStart' # ToStart \/ ToEnqueue' # ToEnqueue \/ ToEnrich' # ToEnrich
      <4>1. CASE pc[r] = "unread"
        <5>1. r \in ToRead /\ r \notin ToRead'
          BY <3>2, <3>3, <4>1 DEF ToRead, At
        <5> QED
          BY <5>1
      <4>2. CASE pc[r] = "init"
        <5>1. r \in ToStart /\ r \notin ToStart'
          BY <3>2, <3>3, <4>2 DEF ToStart, At
        <5> QED
          BY <5>1
      <4>3. CASE pc[r] = "enqueue"
        <5>1. r \in ToEnqueue /\ r \notin ToEnqueue'
          BY <3>2, <3>3, <4>3 DEF ToEnqueue, At
        <5> QED
          BY <5>1
      <4>4. CASE pc[r] = "enrich"
        <5>1. r \in ToEnrich /\ r \notin ToEnrich'
          BY <3>2, <3>3, <4>4 DEF ToEnrich, At
        <5> QED
          BY <5>1
      <4> QED
        BY <3>2, <4>1, <4>2, <4>3, <4>4
    <3>9. /\ Cardinality(ToRead') <= Cardinality(ToRead)
          /\ ToRead' # ToRead => Cardinality(ToRead') < Cardinality(ToRead)
      BY <1>1, <1>4, <3>4 DEF ToRead
    <3>10. /\ Cardinality(ToStart') <= Cardinality(ToStart)
           /\ ToStart' # ToStart => Cardinality(ToStart') < Cardinality(ToStart)
      BY <1>1, <1>4, <3>5 DEF ToStart
    <3>11. /\ Cardinality(ToEnqueue') <= Cardinality(ToEnqueue)
           /\ ToEnqueue' # ToEnqueue => Cardinality(ToEnqueue') < Cardinality(ToEnqueue)
      BY <1>1, <1>4, <3>6 DEF ToEnqueue
    <3>12. /\ Cardinality(ToEnrich') <= Cardinality(ToEnrich)
           /\ ToEnrich' # ToEnrich => Cardinality(ToEnrich') < Cardinality(ToEnrich)
      BY <1>1, <1>4, <3>7 DEF ToEnrich
    <3> QED
      BY <1>5, <2>0, <3>1, <3>8, <3>9, <3>10, <3>11, <3>12 DEF StepsLeft
  <2> QED
    BY <2>1, <2>2 DEF Next
<1> QED
  BY <1>6, <1>7, RowInvariance, PTL DEF Spec
=============================================================================
