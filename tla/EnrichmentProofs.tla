---------------------------- MODULE EnrichmentProofs ----------------------------
(***************************************************************************)
(* Proofs about Enrichment, and about the mapping, inference and scoring   *)
(* it is built from, for any files, answers of the LLM, sizes of a chunk   *)
(* and keywords in the names of columns.                                   *)
(***************************************************************************)
EXTENDS Enrichment, InOrderProofs

(* Mapping and inference.                                                  *)

\* The first of some positions is one of them.
LEMMA FirstOfIsOne ==
  ASSUME NEW n \in Nat, NEW S \in SUBSET (1 .. n), S # {} PROVE FirstOf(S) \in S
<1>1. IsFiniteSet(S) /\ S \in SUBSET Int
  BY PositionsFinite
<1>2. \E a \in S : \A i \in S : a <= i
  BY <1>1, LeastMember
<1> QED
  BY <1>2 DEF FirstOf

\* A field made by hand is mapped to a column that is the field's, or to none.
LEMMA ManualField ==
  ASSUME NEW columns \in Seq(Name), NEW sample, NEW f \in Field
  PROVE  LET c == ManualMapping(columns, sample)[f] IN
         \/ c = NoColumn
         \/ c \in Name /\ Fields[FieldFor(c)].field = f
<1> DEFINE chosen == {c \in Plain(columns, sample) :
                        FieldFor(columns[c]) # 0 /\ Fields[FieldFor(columns[c])].field = f}
<1>1. ManualMapping(columns, sample)[f] = MappedTo(columns, chosen)
  BY DEF ManualMapping
<1>2. chosen \in SUBSET (1 .. Len(columns)) /\ Len(columns) \in Nat
  BY DEF Plain
<1>3. \A c \in chosen : Fields[FieldFor(columns[c])].field = f
  OBVIOUS
<1> HIDE DEF chosen
<1>4. CASE chosen = {}
  BY <1>1, <1>4 DEF MappedTo
<1>5. CASE chosen # {}
  <2>1. PICK c \in chosen : c = FirstOf(chosen)
    BY <1>2, <1>5, FirstOfIsOne
  <2>2. ManualMapping(columns, sample)[f] = columns[c]
    BY <1>1, <1>5, <2>1 DEF MappedTo
  <2>3. columns[c] \in Name
    BY <1>2, MembersTyped
  <2> QED
    BY <1>3, <2>2, <2>3
<1> QED
  BY <1>4, <1>5

\* The mapping made by hand is a mapping.
LEMMA ManualMappingType ==
  ASSUME NEW columns \in Seq(Name), NEW sample
  PROVE  ManualMapping(columns, sample) \in Mapping
<1>1. ManualMapping(columns, sample) = [f \in Field |-> ManualMapping(columns, sample)[f]]
  BY DEF ManualMapping
<1>2. \A f \in Field : ManualMapping(columns, sample)[f] \in Name \union {NoColumn}
  BY ManualField
<1> QED
  BY <1>1, <1>2 DEF Mapping

\* No column is mapped to two fields by hand.
LEMMA ManualMapsOnce ==
  ASSUME NEW columns \in Seq(Name), NEW sample, NEW f \in Field, NEW g \in Field,
         ManualMapping(columns, sample)[f] = ManualMapping(columns, sample)[g],
         ManualMapping(columns, sample)[f] # NoColumn
  PROVE  f = g
<1>1. PICK c : c = ManualMapping(columns, sample)[f] /\ c = ManualMapping(columns, sample)[g]
  OBVIOUS
<1>2. Fields[FieldFor(c)].field = f
  BY <1>1, ManualField
<1>3. Fields[FieldFor(c)].field = g
  BY <1>1, ManualField
<1> QED
  BY <1>2, <1>3

\* Of a file, a sequence of named columns and a sequence of rows remain.
LEMMA MapFileType ==
  ASSUME NEW file \in Files
  PROVE  /\ MapFile(file).columns \in Seq(Name)
         /\ \E n \in Nat : DOMAIN MapFile(file).rows = 1 .. n
<1>1. /\ file.columns \in Seq(STRING)
      /\ \A n \in DOMAIN file.columns : MappedName(file.columns[n]) \in Name
      /\ file.rows \in Seq([DOMAIN file.columns -> Kinds])
  BY EnrichmentAssumption
<1>2. ASSUME NEW n \in Nat, NEW S \in SUBSET (1 .. n)
      PROVE  InOrder(S) \in Seq(S)
  <2>1. IsFiniteSet(S) /\ S \in SUBSET Int
    BY PositionsFinite
  <2> QED
    BY <2>1, InOrderSorts
<1>3. MapFile(file).columns \in Seq(Name)
  <2> DEFINE S == {n \in DOMAIN file.columns :
                     \A m \in 1 .. n - 1 : MappedName(file.columns[m]) # MappedName(file.columns[n])}
             firsts == InOrder(S)
  <2>1. S \in SUBSET (1 .. Len(file.columns)) /\ Len(file.columns) \in Nat
    BY <1>1
  <2>2. firsts \in Seq(S)
    BY <1>2, <2>1
  <2>3. MapFile(file).columns = [k \in DOMAIN firsts |-> MappedName(file.columns[firsts[k]])]
    BY DEF MapFile, MapColumns
  <2>4. S \subseteq DOMAIN file.columns
    OBVIOUS
  <2> HIDE DEF S, firsts
  <2>5. \A k \in DOMAIN firsts : MappedName(file.columns[firsts[k]]) \in Name
    BY <1>1, <2>2, <2>4, MembersTyped
  <2>6. Len(firsts) \in Nat /\ DOMAIN firsts = 1 .. Len(firsts)
    BY <2>2
  <2> QED
    BY <2>3, <2>5, <2>6
<1>4. \E n \in Nat : DOMAIN MapFile(file).rows = 1 .. n
  <2> DEFINE S == {n \in DOMAIN file.rows : IsValid(file.rows[n])}
             valid == InOrder(S)
  <2>1. S \in SUBSET (1 .. Len(file.rows)) /\ Len(file.rows) \in Nat
    BY <1>1
  <2>2. valid \in Seq(S)
    BY <1>2, <2>1
  <2>3. DOMAIN MapFile(file).rows = DOMAIN valid
    BY DEF MapFile
  <2>4. Len(valid) \in Nat /\ DOMAIN valid = 1 .. Len(valid)
    BY <2>2
  <2> QED
    BY <2>3, <2>4
<1> QED
  BY <1>3, <1>4

-----------------------------------------------------------------------------
(* Scoring.                                                                *)

\* A set of at most one member is finite.
LEMMA AtMostOneFinite == ASSUME NEW S, S = {} \/ \E i : S = {i} PROVE IsFiniteSet(S)
<1>1. CASE S = {}
  BY <1>1, FS_EmptySet
<1>2. ASSUME NEW i, S = {i} PROVE IsFiniteSet(S)
  BY <1>2, FS_Singleton
<1> QED
  BY <1>1, <1>2

\* An enrichment has finitely many issues.
LEMMA IssuesFinite == ASSUME NEW e PROVE IsFiniteSet(Issues(e))
<1>1. ASSUME NEW field, NEW value PROVE IsFiniteSet(CoordinateIssues(field, value))
  <2>1. \/ CoordinateIssues(field, value) = {}
        \/ \E i : CoordinateIssues(field, value) = {i}
    BY DEF CoordinateIssues
  <2> QED
    BY <2>1, AtMostOneFinite
<1>2. IsFiniteSet(CurrencyIssues(e.currency))
  <2>1. CurrencyIssues(e.currency) = {} \/ \E i : CurrencyIssues(e.currency) = {i}
    BY DEF CurrencyIssues
  <2> QED
    BY <2>1, AtMostOneFinite
<1>3. IsFiniteSet(NameIssues(e.name))
  <2>1. NameIssues(e.name) = {} \/ \E i : NameIssues(e.name) = {i}
    BY DEF NameIssues
  <2> QED
    BY <2>1, AtMostOneFinite
<1>4. IsFiniteSet(CoordinateIssues("latitude", e.latitude) \union CoordinateIssues("longitude", e.longitude))
  BY <1>1, FS_Union
<1>5. IsFiniteSet(CoordinateIssues("latitude", e.latitude)
                    \union CoordinateIssues("longitude", e.longitude)
                    \union CurrencyIssues(e.currency))
  BY <1>2, <1>4, FS_Union
<1> QED
  BY <1>3, <1>5, FS_Union DEF Issues

\* A penalty is a number.
LEMMA PenaltyType == ASSUME NEW issues, IsFiniteSet(issues) PROVE Penalty(issues) \in Int
<1> DEFINE Count(severity) == Cardinality({i \in issues : i.severity = severity})
<1>1. ASSUME NEW severity PROVE Count(severity) \in Nat
  <2>1. IsFiniteSet({i \in issues : i.severity = severity})
    BY FS_Subset
  <2> QED
    BY <2>1, FS_CardinalityType
<1>2. /\ Count("low") \in Nat /\ Count("medium") \in Nat
      /\ Count("high") \in Nat /\ Count("critical") \in Nat
  BY <1>1
<1>3. Penalty(issues) =
        IF Count("low") + 2 * Count("medium") + 3 * Count("high") + 4 * Count("critical") > 10
        THEN 10
        ELSE Count("low") + 2 * Count("medium") + 3 * Count("high") + 4 * Count("critical")
  BY DEF Penalty
<1> HIDE DEF Count
<1> QED
  BY <1>2, <1>3

\* The terms of a score are numbers.
LEMMA ScoreTypes ==
  ASSUME NEW e, NEW mapping
  PROVE  /\ ExactColumnMappingScore(e, mapping) \in {0, 1, 3}
         /\ DeterministicScore(e) \in {0, 2}
         /\ InferenceScore(e) \in {0, -2}
         /\ MissingFieldScore(e, mapping) \in {0, -3}
         /\ ReviewScore(e) \in {0, -3}
<1>1. ExactColumnMappingScore(e, mapping) \in {0, 1, 3}
  BY DEF ExactColumnMappingScore
<1>2. DeterministicScore(e) \in {0, 2} /\ InferenceScore(e) \in {0, -2} /\ ReviewScore(e) \in {0, -3}
  BY DEF DeterministicScore, InferenceScore, ReviewScore
<1>3. MissingFieldScore(e, mapping) \in {0, -3}
  BY DEF MissingFieldScore
<1> QED
  BY <1>1, <1>2, <1>3

\* A confidence lies between 0 and 1.
LEMMA ConfidenceType == ASSUME NEW e, NEW mapping PROVE Confidence(e, mapping) \in 0 .. 10
<1>1. Penalty(Issues(e)) \in Int
  BY IssuesFinite, PenaltyType
<1>2. Signals(e, mapping) + MissingFieldScore(e, mapping) + ReviewScore(e) \in Int
  BY <1>1, ScoreTypes DEF Signals
<1>3. \A score \in Int : Clamped(score) \in 0 .. 10
  BY DEF Clamped
<1> QED
  BY <1>2, <1>3 DEF Confidence

\* An issue that is a reason by itself makes ShouldEscalate, and so do two.
LEMMA EscalateReasons ==
  ASSUME NEW issues, NEW confidence, IsFiniteSet(issues), ~ ShouldEscalate(issues, confidence)
  PROVE  /\ \A i \in issues : /\ i.severity \notin {"critical", "high"}
                              /\ i.about \notin {"coordinate", "currency"}
         /\ \A i, j \in issues : i = j
<1>1. \A i \in issues : i.severity \notin {"critical", "high"}
  BY DEF ShouldEscalate, Severe
<1>2. \A i \in issues : i.about \notin {"coordinate", "currency"}
  BY DEF ShouldEscalate
<1>3. ASSUME NEW i \in issues, NEW j \in issues, i # j PROVE FALSE
  <2>1. IsFiniteSet({i}) /\ Cardinality({i}) = 1
    BY FS_Singleton
  <2>2. IsFiniteSet({i} \union {j}) /\ Cardinality({i} \union {j}) = 2
    BY <1>3, <2>1, FS_AddElement
  <2>3. {i} \union {j} \in SUBSET issues
    OBVIOUS
  <2>4. Cardinality({i} \union {j}) <= Cardinality(issues)
    BY <2>3, FS_Subset
  <2>5. Cardinality(issues) \in Nat
    BY FS_CardinalityType
  <2>6. Cardinality(issues) >= 2
    BY <2>2, <2>4, <2>5
  <2> QED
    BY <2>6 DEF ShouldEscalate
<1> QED
  BY <1>1, <1>2, <1>3

\* An enrichment that gives no reason to escalate is sound.
LEMMA NoReasonIsSound ==
  ASSUME NEW e \in Enrichments, NEW confidence, ~ ShouldEscalate(Issues(e), confidence)
  PROVE  /\ e.name # "blank"
         /\ e.currency \in {"absent", "null", "valid"}
         /\ {e.latitude, e.longitude} \subseteq {"absent", "null", "ok", "precise"}
         /\ ~ (e.latitude = "precise" /\ e.longitude = "precise")
<1>1. /\ \A i \in Issues(e) : /\ i.severity \notin {"critical", "high"}
                              /\ i.about \notin {"coordinate", "currency"}
      /\ \A i, j \in Issues(e) : i = j
  BY IssuesFinite, EscalateReasons
<1>2. /\ NameIssues(e.name) \subseteq Issues(e)
      /\ CurrencyIssues(e.currency) \subseteq Issues(e)
      /\ CoordinateIssues("latitude", e.latitude) \subseteq Issues(e)
      /\ CoordinateIssues("longitude", e.longitude) \subseteq Issues(e)
  BY DEF Issues
<1>3. e.name # "blank"
  <2>1. e.name = "blank" => \E i \in NameIssues(e.name) : i.severity = "high"
    BY DEF NameIssues
  <2> QED
    BY <1>1, <1>2, <2>1
<1>4. e.currency \notin {"blank", "malformed", "unknown"}
  <2>1. e.currency \in {"blank", "malformed", "unknown"} =>
          \E i \in CurrencyIssues(e.currency) : i.about = "currency"
    BY DEF CurrencyIssues
  <2> QED
    BY <1>1, <1>2, <2>1
<1>5. ASSUME NEW field, NEW value, CoordinateIssues(field, value) \subseteq Issues(e)
      PROVE  /\ value # "out"
             /\ value = "precise" => \E i \in Issues(e) : i.field = field
  <2>1. value = "out" => \E i \in CoordinateIssues(field, value) : i.about = "coordinate"
    BY DEF CoordinateIssues
  <2>2. value = "precise" => \E i \in CoordinateIssues(field, value) : i.field = field
    BY DEF CoordinateIssues
  <2> QED
    BY <1>1, <1>5, <2>1, <2>2
<1>6. ~ (e.latitude = "precise" /\ e.longitude = "precise")
  <2> SUFFICES ASSUME e.latitude = "precise", e.longitude = "precise" PROVE FALSE
    OBVIOUS
  <2>1. PICK i \in Issues(e) : i.field = "latitude"
    BY <1>2, <1>5
  <2>2. PICK j \in Issues(e) : j.field = "longitude"
    BY <1>2, <1>5
  <2> QED
    BY <1>1, <2>1, <2>2
<1>7. e.latitude # "out" /\ e.longitude # "out"
  BY <1>2, <1>5
<1> QED
  BY <1>3, <1>4, <1>6, <1>7 DEF Enrichments, Coordinates

\* The empty enrichment is trusted in nothing, whichever columns are mapped.
LEMMA EmptyIsNotTrusted ==
  ASSUME NEW mapping
  PROVE  /\ Confidence(EmptyEnrichment, mapping) = 0
         /\ LowConfidence(0)
<1> DEFINE e == EmptyEnrichment
<1>1. /\ e.name = "absent" /\ e.currency = "absent" /\ e.jurisdiction = "absent"
      /\ e.latitude = "absent" /\ e.longitude = "absent" /\ e.mostlyInferred = FALSE
      /\ e.exactValueMatch = FALSE /\ e.fieldMissing = TRUE /\ e.needsReview = TRUE
  BY DEF EmptyEnrichment, Unknown
<1> HIDE DEF e
<1>2. Issues(e) = {}
  BY <1>1 DEF Issues, CoordinateIssues, CurrencyIssues, NameIssues
<1>3. Penalty(Issues(e)) = 0
  <2>1. \A severity : {i \in Issues(e) : i.severity = severity} = {}
    BY <1>2
  <2> QED
    BY <2>1, FS_EmptySet DEF Penalty
<1>4. ExactColumnMappingScore(e, mapping) = 0
  <2> DEFINE total == Cardinality(Expected(mapping))
             found == Cardinality({f \in Expected(mapping) : Has(e, f)})
  <2>1. \A f \in Expected(mapping) : ~ Has(e, f)
    BY <1>1 DEF Expected, Has, Truthy, Absent
  <2>2. {f \in Expected(mapping) : Has(e, f)} = {}
    BY <2>1
  <2>3. found = 0
    BY <2>2, FS_EmptySet
  <2>4. IsFiniteSet(Expected(mapping))
    <3>1. IsFiniteSet({"assetNameColumn"} \union {"valueColumn"} \union {"currencyColumn"}
                        \union {"jurisdictionColumn"} \union {"coordinates"})
      BY FS_Singleton, FS_Union
    <3>2. Expected(mapping) \in
            SUBSET ({"assetNameColumn"} \union {"valueColumn"} \union {"currencyColumn"}
                      \union {"jurisdictionColumn"} \union {"coordinates"})
      BY DEF Expected
    <3> QED
      BY <3>1, <3>2, FS_Subset
  <2>5. total \in Nat
    BY <2>4, FS_CardinalityType
  <2>6. ExactColumnMappingScore(e, mapping) =
          CASE total = 0 -> 0
            [] total > 0 /\ 10 * found >= 8 * total -> 3
            [] total > 0 /\ 10 * found < 8 * total /\ 2 * found >= total -> 1
            [] OTHER -> 0
    BY DEF ExactColumnMappingScore
  <2> HIDE DEF total, found
  <2> QED
    BY <2>3, <2>5, <2>6
<1>5. Signals(e, mapping) = 5
  BY <1>1, <1>3, <1>4 DEF Signals, DeterministicScore, InferenceScore
<1>6. MissingFieldScore(e, mapping) = -3 /\ ReviewScore(e) = -3
  BY <1>1 DEF MissingFieldScore, ReviewScore
<1>7. Confidence(e, mapping) = 0
  BY <1>5, <1>6 DEF Confidence, Clamped
<1>8. LowConfidence(0)
  BY DEF LowConfidence
<1> QED
  BY <1>7, <1>8 DEF e

-----------------------------------------------------------------------------
(* The inductive invariant.                                                *)

\* The sheet is one the mapping makes.
SheetOK ==
  /\ sheet.columns \in Seq(Name)
  /\ \E n \in Nat : DOMAIN sheet.rows = 1 .. n

OutputRecords == [of : DOMAIN batch, says : Enrichments \union {Malformed}]

Typed == TypeOK /\ SheetOK /\ outputs \in Seq(OutputRecords)

Scored == {"fields", "issues", "unreviewed", "done"}

\* What a step has not reached yet is still empty, and the fields are those of the outputs.
StepByStep ==
  /\ pc \in {"infer", "classify"} => batch = <<>>
  /\ pc \in {"infer", "classify", "batch"} => todo = <<>> /\ outputs = <<>> /\ errors = {}
  /\ pc \in {"infer", "classify", "batch", "enrich"} => fields = <<>> /\ stored = <<>>
  /\ pc \in Scored => todo = <<>> /\ DOMAIN fields = DOMAIN outputs
  /\ \A i \in DOMAIN fields : i \in DOMAIN outputs /\ fields[i] = FieldData(i)

\* Every row of the batch has given an output or an error, or is still to do: the last
\* excludes the others, no row has two outputs, and none is to do twice.
EachRowOnce ==
  /\ pc \in Scored \union {"enrich"} =>
       \A p \in DOMAIN batch : \/ \E i \in DOMAIN outputs : outputs[i].of = p
                               \/ \E e \in errors : e.of = p
                               \/ \E k \in DOMAIN todo : todo[k] = p
  /\ \A i, j \in DOMAIN outputs : outputs[i].of = outputs[j].of => i = j
  /\ \A k, l \in DOMAIN todo : todo[k] = todo[l] => k = l
  /\ \A k \in DOMAIN todo : /\ \A i \in DOMAIN outputs : outputs[i].of # todo[k]
                            /\ \A e \in errors : e.of # todo[k]

\* What is put out for a row without an answer is the empty enrichment.
UnansweredIsEmpty ==
  \A e \in errors, i \in DOMAIN outputs :
    e.reason = "unanswered" /\ outputs[i].of = e.of => outputs[i].says = EmptyEnrichment

Needs(i) == NeedsEnrichment(Row(i), batchSchema.mapping)
LaterRowsNeed == \A i, j \in DOMAIN batch : i < j /\ Needs(i) => Needs(j)

FailedUpTo(i) == \E e \in errors : e.reason = "failed" /\ e.of <= i

\* With the rows that need no LLM first: what is to do is the end of the batch, and the
\* i-th output is the i-th row's until a call for that row or one before it fails.
OutputsInStep ==
  LaterRowsNeed =>
    /\ pc = "enrich" => /\ \A k \in DOMAIN todo : todo[k] = Len(batch) - Len(todo) + k
                        /\ Len(outputs) = Len(batch) - Len(todo) \/ FailedUpTo(Len(outputs) + 1)
    /\ \A i \in DOMAIN outputs : outputs[i].of = i \/ FailedUpTo(i)

IInv == /\ Typed /\ StepByStep /\ FallbackMapsEachColumnOnce
        /\ EachRowOnce /\ UnansweredIsEmpty /\ OutputsInStep

-----------------------------------------------------------------------------
(* The inference.                                                          *)

\* Whatever the inference answers is a schema, and maps no column twice if it was made
\* without the LLM.
LEMMA InferredType ==
  ASSUME Typed, NEW rows, NEW start, NEW s \in Inferred(rows, start)
  PROVE  /\ s \in Schemas
         /\ s.byHand => \A f, g \in Field :
              s.mapping[f] = s.mapping[g] /\ s.mapping[f] # NoColumn => f = g
<1>1. CASE \E answer \in Answers : s = [mapping |-> answer, byHand |-> FALSE]
  BY <1>1, EnrichmentAssumption DEF Schemas
<1>2. CASE s = [mapping |-> ManualMapping(sheet.columns, SampleFrom(start, rows, sheet.columns)),
                byHand |-> TRUE]
  <2> DEFINE manual == ManualMapping(sheet.columns, SampleFrom(start, rows, sheet.columns))
  <2>1. sheet.columns \in Seq(Name)
    BY DEF Typed, SheetOK
  <2>2. manual \in Mapping
    BY <2>1, ManualMappingType
  <2>3. \A f, g \in Field : manual[f] = manual[g] /\ manual[f] # NoColumn => f = g
    BY <2>1, ManualMapsOnce
  <2>4. s.mapping = manual /\ s = [mapping |-> manual, byHand |-> TRUE]
    BY <1>2
  <2> HIDE DEF manual
  <2> QED
    BY <2>2, <2>3, <2>4 DEF Schemas
<1> QED
  BY <1>1, <1>2 DEF Inferred

\* Positions of the batch, as Needing and NotNeeding list them.
LEMMA ListedPositions ==
  ASSUME Typed, NEW S \in SUBSET (DOMAIN batch)
  PROVE  /\ Len(batch) \in Nat /\ DOMAIN batch = 1 .. Len(batch)
         /\ S \in SUBSET Int /\ IsFiniteSet(S)
         /\ InOrder(S) \in Seq(S)
         /\ Len(InOrder(S)) = Cardinality(S) /\ DOMAIN InOrder(S) = 1 .. Cardinality(S)
         /\ \A n \in S : \E k \in DOMAIN InOrder(S) : InOrder(S)[k] = n
         /\ \A k, l \in DOMAIN InOrder(S) : InOrder(S)[k] = InOrder(S)[l] => k = l
<1>1. Len(batch) \in Nat /\ DOMAIN batch = 1 .. Len(batch)
  BY DEF Typed, TypeOK
<1>2. S \in SUBSET Int /\ IsFiniteSet(S)
  BY <1>1, PositionsFinite
<1>3. /\ InOrder(S) \in Seq(S) /\ Len(InOrder(S)) = Cardinality(S)
      /\ \A n \in S : \E k \in 1 .. Cardinality(S) : InOrder(S)[k] = n
      /\ \A k, l \in 1 .. Cardinality(S) : k < l => InOrder(S)[k] < InOrder(S)[l]
  BY <1>2, InOrderSorts
<1>4. Cardinality(S) \in Nat
  BY <1>2, FS_CardinalityType
<1>5. DOMAIN InOrder(S) = 1 .. Cardinality(S)
  BY <1>3
<1>6. ASSUME NEW k \in 1 .. Cardinality(S), NEW l \in 1 .. Cardinality(S),
             InOrder(S)[k] = InOrder(S)[l]
      PROVE  k = l
  <2>1. InOrder(S)[k] \in Int /\ InOrder(S)[l] \in Int
    BY <1>2, <1>3, <1>5, MembersTyped
  <2>2. ~ k < l /\ ~ l < k
    BY <1>3, <1>6, <2>1
  <2> QED
    BY <1>4, <2>2
<1> QED
  BY <1>1, <1>2, <1>3, <1>5, <1>6

-----------------------------------------------------------------------------
(* The invariant, step by step.                                            *)

\* A mapped sheet, and nothing inferred.
LEMMA InitIInv == ASSUME Init PROVE IInv
<1>1. SheetOK
  BY MapFileType DEF Init, SheetOK
<1>2. NoSchema \in Schemas /\ NoSchema.byHand = FALSE
  BY DEF NoSchema, Schemas, Mapping
<1>3. TypeOK
  <2>1. batch \in Seq(DOMAIN sheet.rows) /\ todo \in Seq(DOMAIN batch)
    BY DEF Init
  <2> QED
    BY <1>2, <2>1 DEF Init, TypeOK, Steps
<1>4. outputs \in Seq(OutputRecords)
  <2>1. \A T : <<>> \in Seq(T)
    OBVIOUS
  <2> QED
    BY <2>1 DEF Init
<1>5. StepByStep
  BY DEF Init, StepByStep, Scored
<1>6. FallbackMapsEachColumnOnce
  BY <1>2 DEF Init, FallbackMapsEachColumnOnce
<1>7. EachRowOnce
  BY DEF Init, EachRowOnce, Scored
<1>8. UnansweredIsEmpty
  BY DEF Init, UnansweredIsEmpty
<1>9. OutputsInStep
  BY DEF Init, OutputsInStep
<1> QED
  BY <1>1, <1>3, <1>4, <1>5, <1>6, <1>7, <1>8, <1>9 DEF IInv, Typed

\* A step that leaves what is to do and what is put out as they are.
LEMMA DataStays ==
  ASSUME IInv, UNCHANGED <<sheet, schema, batch, batchSchema, todo, outputs, errors>>,
         pc' = "enrich" => pc = "enrich",
         pc' \in Scored => pc \in Scored \union {"enrich"}
  PROVE  /\ SheetOK' /\ (outputs \in Seq(OutputRecords))' /\ FallbackMapsEachColumnOnce'
         /\ EachRowOnce' /\ UnansweredIsEmpty' /\ OutputsInStep'
         /\ \A i : FieldData(i)' = FieldData(i)
<1>1. SheetOK' /\ (outputs \in Seq(OutputRecords))' /\ FallbackMapsEachColumnOnce'
  BY DEF IInv, Typed, SheetOK, OutputRecords, FallbackMapsEachColumnOnce
<1>2. EachRowOnce'
  BY DEF IInv, EachRowOnce, Scored
<1>3. UnansweredIsEmpty'
  BY DEF IInv, UnansweredIsEmpty
<1>4. OutputsInStep'
  BY DEF IInv, OutputsInStep, LaterRowsNeed, Needs, Row, FailedUpTo
<1>5. \A i : FieldData(i)' = FieldData(i)
  BY DEF FieldData
<1> QED
  BY <1>1, <1>2, <1>3, <1>4, <1>5

\* The inference of the file's schema.
LEMMA InferIInv == ASSUME IInv, InferSchema PROVE IInv'
<1>1. /\ schema' \in Schemas
      /\ schema'.byHand => \A f, g \in Field :
           schema'.mapping[f] = schema'.mapping[g] /\ schema'.mapping[f] # NoColumn => f = g
  BY InferredType DEF IInv, InferSchema
<1>2. TypeOK'
  BY <1>1 DEF IInv, Typed, TypeOK, InferSchema, Steps
<1>3. SheetOK' /\ (outputs \in Seq(OutputRecords))'
  BY DEF IInv, Typed, SheetOK, OutputRecords, InferSchema
<1>4. StepByStep'
  BY DEF IInv, StepByStep, InferSchema, FieldData, Scored
<1>5. FallbackMapsEachColumnOnce'
  BY <1>1 DEF IInv, FallbackMapsEachColumnOnce, InferSchema
<1>6. EachRowOnce' /\ UnansweredIsEmpty'
  BY DEF IInv, EachRowOnce, UnansweredIsEmpty, InferSchema, Scored
<1>7. OutputsInStep'
  BY DEF IInv, OutputsInStep, StepByStep, InferSchema
<1> QED
  BY <1>2, <1>3, <1>4, <1>5, <1>6, <1>7 DEF IInv, Typed

\* Nothing is put out yet, or the fields are dropped as they are.
LEMMA GivenUpIInv ==
  ASSUME IInv, InferMalformed \/ SkipUnconfigured \/ StoreFieldsFails PROVE IInv'
<1>1. UNCHANGED <<configured, sheet, schema, batch, batchSchema, todo, outputs, errors, fields, stored>>
  BY DEF InferMalformed, SkipUnconfigured, StoreFieldsFails
<1>2. pc' \in {"threw", "dropped"}
  BY DEF InferMalformed, SkipUnconfigured, StoreFieldsFails
<1>3. /\ SheetOK' /\ (outputs \in Seq(OutputRecords))' /\ FallbackMapsEachColumnOnce'
      /\ EachRowOnce' /\ UnansweredIsEmpty' /\ OutputsInStep'
      /\ \A i : FieldData(i)' = FieldData(i)
  BY <1>1, <1>2, DataStays DEF Scored
<1>4. TypeOK'
  BY <1>1, <1>2 DEF IInv, Typed, TypeOK, Steps
<1>5. StepByStep'
  BY <1>1, <1>2, <1>3 DEF IInv, StepByStep, Scored
<1> QED
  BY <1>3, <1>4, <1>5 DEF IInv, Typed

\* The rows are classified; the ambiguous ones make the batch.
LEMMA ClassifyIInv == ASSUME IInv, Classify PROVE IInv'
<1>1. todo = <<>> /\ outputs = <<>> /\ errors = {} /\ fields = <<>> /\ stored = <<>>
  BY DEF IInv, StepByStep, Classify
<1>2. UNCHANGED <<configured, sheet, schema, batchSchema, todo, outputs, errors, fields, stored>>
  BY DEF Classify
<1>3. pc' \in {"done", "batch"} /\ (pc' = "done" => batch' = <<>>)
  BY DEF Classify
<1>4. batch' \in Seq(DOMAIN sheet.rows)
  <2> DEFINE S == {n \in DOMAIN sheet.rows : IsAmbiguous(sheet.rows[n], schema.mapping)}
  <2>1. PICK n \in Nat : DOMAIN sheet.rows = 1 .. n
    BY DEF IInv, Typed, SheetOK
  <2>2. S \in SUBSET Int /\ IsFiniteSet(S)
    BY <2>1, PositionsFinite
  <2>3. InOrder(S) \in Seq(S)
    BY <2>2, InOrderSorts
  <2>4. batch' = InOrder(S) /\ S \subseteq DOMAIN sheet.rows
    BY DEF Classify
  <2> QED
    BY <2>3, <2>4, SeqGrows
<1>5. todo \in Seq(DOMAIN batch') /\ outputs \in Seq(OutputRecords')
  BY <1>1
<1>6. TypeOK'
  BY <1>1, <1>2, <1>3, <1>4, <1>5 DEF IInv, Typed, TypeOK, Steps
<1>7. SheetOK' /\ FallbackMapsEachColumnOnce'
  BY <1>2 DEF IInv, Typed, SheetOK, FallbackMapsEachColumnOnce
<1>8. StepByStep'
  BY <1>1, <1>2, <1>3 DEF StepByStep, Scored
<1>9. EachRowOnce'
  BY <1>1, <1>2, <1>3 DEF EachRowOnce, Scored
<1>10. UnansweredIsEmpty'
  BY <1>1, <1>2 DEF UnansweredIsEmpty
<1>11. OutputsInStep'
  BY <1>1, <1>2, <1>3 DEF OutputsInStep
<1> QED
  BY <1>2, <1>5, <1>6, <1>7, <1>8, <1>9, <1>10, <1>11 DEF IInv, Typed

\* A field made of an output has its types.
LEMMA FieldDataType ==
  ASSUME Typed, NEW i \in DOMAIN outputs, outputs[i].says # Malformed
  PROVE  FieldData(i) \in FieldRecords
<1>1. i \in Nat /\ outputs[i] \in OutputRecords
  BY MembersTyped DEF Typed
<1>2. outputs[i].of \in Nat
  BY <1>1 DEF OutputRecords, Typed, TypeOK
<1>3. outputs[i].says \in Enrichments
  BY <1>1 DEF OutputRecords
<1>4. Confidence(outputs[i].says, batchSchema.mapping) \in 0 .. 10
  BY ConfidenceType
<1>5. ASSUME NEW issues, NEW confidence PROVE ShouldEscalate(issues, confidence) \in BOOLEAN
  BY DEF ShouldEscalate
<1> QED
  BY <1>1, <1>2, <1>3, <1>4, <1>5 DEF FieldData, FieldRecords

\* The batch is scored.
LEMMA ScoreIInv == ASSUME IInv, Score PROVE IInv'
<1>1. UNCHANGED <<configured, sheet, schema, batch, batchSchema, todo, outputs, errors, stored>>
  BY DEF Score
<1>2. pc = "enrich" /\ todo = <<>> /\ fields = <<>> /\ stored = <<>>
  BY DEF IInv, StepByStep, Score
<1>3. \/ pc' = "dropped" /\ fields' = fields
      \/ /\ pc' \in {"done", "fields"} /\ fields' = [i \in DOMAIN outputs |-> FieldData(i)]
         /\ \A i \in DOMAIN outputs : outputs[i].says # Malformed
  BY DEF Score
<1>4. /\ SheetOK' /\ (outputs \in Seq(OutputRecords))' /\ FallbackMapsEachColumnOnce'
      /\ EachRowOnce' /\ UnansweredIsEmpty' /\ OutputsInStep'
      /\ \A i : FieldData(i)' = FieldData(i)
  BY <1>1, <1>2, <1>3, DataStays DEF Scored
<1>5. \A i \in DOMAIN fields' : fields'[i] \in FieldRecords
  BY <1>2, <1>3, FieldDataType DEF IInv
<1>6. TypeOK'
  BY <1>1, <1>2, <1>3, <1>5 DEF IInv, Typed, TypeOK, Steps
<1>7. StepByStep'
  BY <1>1, <1>2, <1>3, <1>4 DEF StepByStep, Scored
<1> QED
  BY <1>4, <1>6, <1>7 DEF IInv, Typed

\* The fields are stored, and what is to be reviewed of them.
LEMMA StoreIInv == ASSUME IInv, StoreFields \/ StoreIssues PROVE IInv'
<1>1. UNCHANGED <<configured, sheet, schema, batch, batchSchema, todo, outputs, errors, fields>>
  BY DEF StoreFields, StoreIssues
<1>2. /\ pc \in {"fields", "issues"} /\ pc' \in {"issues", "unreviewed", "done"}
      /\ stored' \in {stored, fields}
  BY DEF StoreFields, StoreIssues
<1>3. /\ SheetOK' /\ (outputs \in Seq(OutputRecords))' /\ FallbackMapsEachColumnOnce'
      /\ EachRowOnce' /\ UnansweredIsEmpty' /\ OutputsInStep'
      /\ \A i : FieldData(i)' = FieldData(i)
  BY <1>1, <1>2, DataStays DEF Scored
<1>4. TypeOK'
  BY <1>1, <1>2 DEF IInv, Typed, TypeOK, Steps
<1>5. StepByStep'
  BY <1>1, <1>2, <1>3 DEF IInv, StepByStep, Scored
<1> QED
  BY <1>3, <1>4, <1>5 DEF IInv, Typed

\* A step that changes nothing.
LEMMA StutterIInv == ASSUME IInv, UNCHANGED vars PROVE IInv'
<1>1. UNCHANGED <<configured, sheet, pc, schema, batch, batchSchema, todo, outputs, errors, fields, stored>>
  BY DEF vars
<1>2. /\ SheetOK' /\ (outputs \in Seq(OutputRecords))' /\ FallbackMapsEachColumnOnce'
      /\ EachRowOnce' /\ UnansweredIsEmpty' /\ OutputsInStep'
      /\ \A i : FieldData(i)' = FieldData(i)
  BY <1>1, DataStays
<1>3. TypeOK'
  BY <1>1 DEF IInv, Typed, TypeOK
<1>4. StepByStep'
  BY <1>1, <1>2 DEF IInv, StepByStep
<1> QED
  BY <1>2, <1>3, <1>4 DEF IInv, Typed

\* What a row gives that needs no LLM is an enrichment, and so is the empty one.
LEMMA BasicType ==
  ASSUME NEW row, NEW mapping
  PROVE  Basic(row, mapping) \in Enrichments /\ EmptyEnrichment \in Enrichments
<1>1. Unknown \in Enrichments
  BY DEF Unknown, Enrichments, Coordinates
<1>2. EmptyEnrichment \in Enrichments
  BY <1>1 DEF EmptyEnrichment, Enrichments
<1>3. ASSUME NEW name \in {"given", "blank"}, NEW currency \in {"valid", "absent"}
      PROVE  [Unknown EXCEPT !.name = name, !.currency = currency, !.exactValueMatch = TRUE]
               \in Enrichments
  BY <1>1 DEF Enrichments
<1> QED
  BY <1>2, <1>3 DEF Basic

\* The batch's schema is inferred: the rows that need the LLM are to do, the others are
\* put out.
LEMMA InferBatchIInv == ASSUME IInv, InferBatchSchema PROVE IInv'
<1> DEFINE m == batchSchema'.mapping
           N == {i \in DOMAIN batch : NeedsEnrichment(Row(i), m)}
           M == {i \in DOMAIN batch : ~ NeedsEnrichment(Row(i), m)}
           basic == InOrder(M)
<1>1. /\ todo = <<>> /\ outputs = <<>> /\ errors = {} /\ fields = <<>> /\ stored = <<>>
      /\ Typed /\ FallbackMapsEachColumnOnce
  BY DEF IInv, StepByStep, InferBatchSchema
<1>2. UNCHANGED <<configured, sheet, schema, batch, errors, fields, stored>> /\ pc' = "enrich"
  BY DEF InferBatchSchema
<1>3. /\ batchSchema' \in Schemas
      /\ batchSchema'.byHand => \A f, g \in Field :
           batchSchema'.mapping[f] = batchSchema'.mapping[g] /\ batchSchema'.mapping[f] # NoColumn
             => f = g
  BY <1>1, InferredType DEF InferBatchSchema
<1>4. todo' = InOrder(N)
  BY DEF InferBatchSchema, Needing
<1>5. outputs' = [i \in DOMAIN basic |-> [of |-> basic[i], says |-> Basic(Row(basic[i]), m)]]
  BY DEF InferBatchSchema, NotNeeding
<1>6. N \in SUBSET DOMAIN batch /\ M = DOMAIN batch \ N /\ M \in SUBSET DOMAIN batch
  OBVIOUS
<1>7. \A i \in DOMAIN batch : Needs(i)' <=> i \in N
  BY <1>2 DEF Needs, Row
<1> HIDE DEF m, N, M
<1>8. /\ Len(batch) \in Nat /\ DOMAIN batch = 1 .. Len(batch)
      /\ InOrder(N) \in Seq(N)
      /\ \A n \in N : \E k \in DOMAIN InOrder(N) : InOrder(N)[k] = n
      /\ \A k, l \in DOMAIN InOrder(N) : InOrder(N)[k] = InOrder(N)[l] => k = l
  BY <1>1, <1>6, ListedPositions
<1>9. /\ basic \in Seq(M)
      /\ \A n \in M : \E k \in DOMAIN basic : basic[k] = n
      /\ \A k, l \in DOMAIN basic : basic[k] = basic[l] => k = l
  BY <1>1, <1>6, ListedPositions
<1> HIDE DEF basic
<1>10. /\ DOMAIN outputs' = DOMAIN basic /\ Len(basic) \in Nat /\ DOMAIN basic = 1 .. Len(basic)
       /\ \A i \in DOMAIN basic : outputs'[i].of = basic[i] /\ basic[i] \in M
  BY <1>5, <1>9, MembersTyped
<1>11. \A k \in DOMAIN todo' : todo'[k] \in N
  BY <1>4, <1>8, MembersTyped
<1>12. (outputs \in Seq(OutputRecords))'
  <2>1. \A i \in DOMAIN basic : outputs'[i] \in [of : DOMAIN batch, says : Enrichments \union {Malformed}]
    BY <1>5, <1>6, <1>10, BasicType
  <2>2. outputs' = [i \in 1 .. Len(basic) |-> outputs'[i]]
    BY <1>5, <1>10
  <2>3. PICK T : T = [of : DOMAIN batch, says : Enrichments \union {Malformed}]
    OBVIOUS
  <2>4. outputs' \in [1 .. Len(basic) -> T]
    BY <1>10, <2>1, <2>2, <2>3
  <2>5. outputs' \in Seq(T)
    BY <1>10, <2>4
  <2> QED
    BY <1>2, <2>3, <2>5 DEF OutputRecords
<1>13. TypeOK'
  <2>1. todo' \in Seq(DOMAIN batch)
    BY <1>4, <1>6, <1>8, SeqGrows
  <2>2. \A i \in DOMAIN outputs' : /\ outputs'[i].of \in DOMAIN batch
                                   /\ outputs'[i].says \in Enrichments
    BY <1>5, <1>6, <1>10, BasicType
  <2> QED
    BY <1>1, <1>2, <1>3, <2>1, <2>2 DEF Typed, TypeOK, Steps
<1>14. SheetOK' /\ FallbackMapsEachColumnOnce'
  BY <1>1, <1>2, <1>3 DEF Typed, SheetOK, FallbackMapsEachColumnOnce
<1>15. StepByStep'
  BY <1>1, <1>2 DEF StepByStep, Scored
<1>16. EachRowOnce'
  <2>1. \A p \in DOMAIN batch : \/ \E i \in DOMAIN outputs' : outputs'[i].of = p
                                \/ \E k \in DOMAIN todo' : todo'[k] = p
    <3> SUFFICES ASSUME NEW p \in DOMAIN batch
                 PROVE  \/ \E i \in DOMAIN outputs' : outputs'[i].of = p
                        \/ \E k \in DOMAIN todo' : todo'[k] = p
      OBVIOUS
    <3>1. CASE p \in N
      BY <1>4, <1>8, <3>1
    <3>2. CASE p \in M
      BY <1>9, <1>10, <3>2
    <3> QED
      BY <1>6, <3>1, <3>2
  <2>2. \A i, j \in DOMAIN outputs' : outputs'[i].of = outputs'[j].of => i = j
    BY <1>9, <1>10
  <2>3. \A k, l \in DOMAIN todo' : todo'[k] = todo'[l] => k = l
    BY <1>4, <1>8
  <2>4. \A k \in DOMAIN todo', i \in DOMAIN outputs' : outputs'[i].of # todo'[k]
    BY <1>6, <1>10, <1>11
  <2> QED
    BY <1>1, <1>2, <2>1, <2>2, <2>3, <2>4 DEF EachRowOnce
<1>17. UnansweredIsEmpty'
  BY <1>1, <1>2 DEF UnansweredIsEmpty
<1>18. OutputsInStep'
  <2> SUFFICES ASSUME LaterRowsNeed'
               PROVE  /\ \A k \in DOMAIN todo' : todo'[k] = Len(batch) - Len(todo') + k
                      /\ Len(outputs') = Len(batch) - Len(todo')
                      /\ \A i \in DOMAIN outputs' : outputs'[i].of = i
    BY <1>2 DEF OutputsInStep
  <2>1. \A i, j \in 1 .. Len(batch) : i < j /\ i \in N => j \in N
    BY <1>2, <1>7, <1>8 DEF LaterRowsNeed
  <2>2. PICK a \in 1 .. Len(batch) + 1 : N = a .. Len(batch) /\ M = 1 .. a - 1
    <3>1. N \in SUBSET (1 .. Len(batch)) /\ M = (1 .. Len(batch)) \ N
      BY <1>6, <1>8
    <3> QED
      BY <1>8, <2>1, <3>1, UpperPartIsInterval
  <2>3. InOrder(N) = [k \in 1 .. Len(batch) - a + 1 |-> a + k - 1]
    BY <1>8, <2>2, IntervalInOrder
  <2>4. basic = [k \in 1 .. a - 1 |-> k]
    <3>1. basic = [k \in 1 .. a - 1 - 1 + 1 |-> 1 + k - 1]
      BY <1>8, <2>2, IntervalInOrder DEF basic
    <3>2. a - 1 - 1 + 1 = a - 1 /\ \A k \in 1 .. a - 1 : 1 + k - 1 = k
      BY <1>8, <2>2
    <3> QED
      BY <3>1, <3>2
  <2>5. Len(todo') = Len(batch) - a + 1 /\ DOMAIN todo' = 1 .. Len(batch) - a + 1
    <3>1. Len(batch) - a + 1 \in Nat
      BY <1>8, <2>2
    <3>2. \A l \in Nat : Len([k \in 1 .. l |-> a + k - 1]) = l
      OBVIOUS
    <3> QED
      BY <1>4, <2>3, <3>1, <3>2
  <2>6. Len(outputs') = a - 1
    BY <1>5, <1>8, <2>2, <2>4
  <2>7. \A k \in DOMAIN todo' : todo'[k] = Len(batch) - Len(todo') + k
    BY <1>4, <1>8, <2>2, <2>3, <2>5
  <2>8. \A i \in DOMAIN outputs' : outputs'[i].of = i
    BY <1>10, <2>4
  <2> QED
    BY <1>8, <2>2, <2>5, <2>6, <2>7, <2>8
<1> QED
  BY <1>12, <1>13, <1>14, <1>15, <1>16, <1>17, <1>18 DEF IInv, Typed

\* A chunk is not empty, and what remains to do are the positions after it.
LEMMA ChunkFacts ==
  ASSUME Typed, todo # <<>>
  PROVE  /\ ChunkLength \in 1 .. Len(todo)
         /\ Len(todo) \in Nat /\ DOMAIN todo = 1 .. Len(todo)
         /\ \A k \in DOMAIN todo : todo[k] \in DOMAIN batch
         /\ Rest \in Seq(DOMAIN batch)
         /\ Len(Rest) = Len(todo) - ChunkLength /\ DOMAIN Rest = 1 .. Len(todo) - ChunkLength
         /\ \A k \in DOMAIN Rest : Rest[k] = todo[ChunkLength + k]
         /\ Len(batch) \in Nat /\ DOMAIN batch = 1 .. Len(batch)
<1>1. todo \in Seq(DOMAIN batch) /\ batch \in Seq(DOMAIN sheet.rows)
  BY DEF Typed, TypeOK
<1>2. /\ Len(todo) \in Nat /\ DOMAIN todo = 1 .. Len(todo) /\ Len(todo) # 0
      /\ Len(batch) \in Nat /\ DOMAIN batch = 1 .. Len(batch)
  BY <1>1
<1>3. ChunkLength \in 1 .. Len(todo)
  BY <1>2, EnrichmentAssumption DEF ChunkLength
<1>4. \A k \in DOMAIN todo : todo[k] \in DOMAIN batch
  BY <1>1, MembersTyped
<1>5. Rest = [k \in 1 .. Len(todo) - ChunkLength |-> todo[ChunkLength + k]]
  BY <1>1, <1>2, <1>3 DEF Rest
<1>6. \A k \in 1 .. Len(todo) - ChunkLength : ChunkLength + k \in DOMAIN todo
  BY <1>2, <1>3
<1>7. Rest \in Seq(DOMAIN batch) /\ Len(Rest) = Len(todo) - ChunkLength
  BY <1>2, <1>3, <1>4, <1>5, <1>6
<1> QED
  BY <1>2, <1>3, <1>4, <1>5, <1>7

\* What a chunk's steps leave as it is.
LEMMA ChunkLeaves ==
  ASSUME IInv, ChunkAnswered \/ ChunkThrows
  PROVE  /\ pc = "enrich" /\ todo # <<>> /\ todo' = Rest
         /\ fields = <<>> /\ stored = <<>>
         /\ UNCHANGED <<configured, sheet, pc, schema, batch, batchSchema, fields, stored>>
         /\ Typed /\ SheetOK' /\ FallbackMapsEachColumnOnce' /\ StepByStep'
<1>1. /\ pc = "enrich" /\ todo # <<>> /\ todo' = Rest
      /\ UNCHANGED <<configured, sheet, pc, schema, batch, batchSchema, fields, stored>>
  BY DEF ChunkAnswered, ChunkThrows
<1>2. fields = <<>> /\ stored = <<>>
  BY <1>1 DEF IInv, StepByStep
<1>3. SheetOK' /\ FallbackMapsEachColumnOnce'
  BY <1>1 DEF IInv, Typed, SheetOK, FallbackMapsEachColumnOnce
<1>4. StepByStep'
  BY <1>1, <1>2 DEF StepByStep, Scored
<1> QED
  BY <1>1, <1>2, <1>3, <1>4 DEF IInv

\* A call for a chunk throws: its rows give errors, and no output.
LEMMA ThrowsIInv == ASSUME IInv, ChunkThrows PROVE IInv'
<1> DEFINE c == ChunkLength
<1>1. /\ pc = "enrich" /\ todo # <<>> /\ todo' = Rest
      /\ fields = <<>> /\ stored = <<>>
      /\ UNCHANGED <<configured, sheet, pc, schema, batch, batchSchema, fields, stored>>
      /\ Typed /\ SheetOK' /\ FallbackMapsEachColumnOnce' /\ StepByStep'
  BY ChunkLeaves
<1>2. /\ c \in 1 .. Len(todo)
      /\ Len(todo) \in Nat /\ DOMAIN todo = 1 .. Len(todo)
      /\ \A k \in DOMAIN todo : todo[k] \in DOMAIN batch
      /\ todo' \in Seq(DOMAIN batch)
      /\ Len(todo') = Len(todo) - c /\ DOMAIN todo' = 1 .. Len(todo) - c
      /\ \A k \in DOMAIN todo' : todo'[k] = todo[c + k]
      /\ Len(batch) \in Nat /\ DOMAIN batch = 1 .. Len(batch)
  BY <1>1, ChunkFacts
<1>3. /\ errors' = errors \union {[of |-> todo[i], reason |-> "failed"] : i \in 1 .. c}
      /\ outputs' = outputs
  BY DEF ChunkThrows, ChunkErrors
<1> HIDE DEF c
<1>4. \A k \in DOMAIN todo' : c + k \in DOMAIN todo /\ c + k \notin 1 .. c
  BY <1>2
<1>5. (outputs \in Seq(OutputRecords))'
  BY <1>1, <1>3 DEF Typed, OutputRecords
<1>6. TypeOK'
  <2>1. errors' \subseteq [of : DOMAIN batch, reason : {"unanswered", "failed"}]
    BY <1>1, <1>2, <1>3 DEF Typed, TypeOK
  <2> QED
    BY <1>1, <1>2, <1>3, <2>1 DEF Typed, TypeOK
<1>7. EachRowOnce'
  <2>1. ASSUME NEW p \in DOMAIN batch
        PROVE  \/ \E i \in DOMAIN outputs : outputs[i].of = p
               \/ \E e \in errors' : e.of = p
               \/ \E k \in DOMAIN todo' : todo'[k] = p
    <3>1. CASE \E i \in DOMAIN outputs : outputs[i].of = p
      BY <3>1
    <3>2. CASE \E e \in errors : e.of = p
      BY <1>3, <3>2
    <3>3. ASSUME NEW k \in DOMAIN todo, todo[k] = p
          PROVE  \/ \E e \in errors' : e.of = p
                 \/ \E l \in DOMAIN todo' : todo'[l] = p
      <4>1. CASE k \in 1 .. c
        <5>1. [of |-> todo[k], reason |-> "failed"] \in errors'
          BY <1>3, <4>1
        <5> QED
          BY <3>3, <5>1
      <4>2. CASE k \notin 1 .. c
        <5>1. k - c \in DOMAIN todo' /\ c + (k - c) = k
          BY <1>2, <4>2
        <5> QED
          BY <1>2, <3>3, <5>1
      <4> QED
        BY <4>1, <4>2
    <3> QED
      BY <1>1, <2>1, <3>1, <3>2, <3>3 DEF IInv, EachRowOnce
  <2>2. \A k, l \in DOMAIN todo' : todo'[k] = todo'[l] => k = l
    <3>1. \A k, l \in DOMAIN todo' : todo'[k] = todo'[l] => c + k = c + l
      BY <1>2, <1>4 DEF IInv, EachRowOnce
    <3> QED
      BY <1>2, <3>1
  <2>3. \A k \in DOMAIN todo', i \in DOMAIN outputs : outputs[i].of # todo'[k]
    BY <1>2, <1>4 DEF IInv, EachRowOnce
  <2>4. ASSUME NEW k \in DOMAIN todo', NEW e \in errors' PROVE e.of # todo'[k]
    <3>1. CASE e \in errors
      BY <1>2, <1>4, <3>1 DEF IInv, EachRowOnce
    <3>2. ASSUME NEW i \in 1 .. c, e.of = todo[i] PROVE e.of # todo'[k]
      <4>1. i \in DOMAIN todo /\ i # c + k
        BY <1>2, <1>4
      <4> QED
        BY <1>2, <1>4, <3>2, <4>1 DEF IInv, EachRowOnce
    <3> QED
      BY <1>3, <3>1, <3>2
  <2>5. \A i, j \in DOMAIN outputs : outputs[i].of = outputs[j].of => i = j
    BY DEF IInv, EachRowOnce
  <2> QED
    BY <1>1, <1>3, <2>1, <2>2, <2>3, <2>4, <2>5 DEF EachRowOnce
<1>8. UnansweredIsEmpty'
  <2>1. \A e \in errors' : e.reason = "unanswered" => e \in errors
    BY <1>3
  <2>2. EmptyEnrichment' = EmptyEnrichment
    BY DEF EmptyEnrichment, Unknown
  <2> QED
    BY <1>3, <2>1, <2>2 DEF IInv, UnansweredIsEmpty
<1>9. OutputsInStep'
  <2> SUFFICES ASSUME LaterRowsNeed'
               PROVE  /\ \A k \in DOMAIN todo' : todo'[k] = Len(batch) - Len(todo') + k
                      /\ \/ Len(outputs) = Len(batch) - Len(todo')
                         \/ FailedUpTo(Len(outputs) + 1)'
                      /\ \A i \in DOMAIN outputs : outputs[i].of = i \/ FailedUpTo(i)'
    BY <1>1, <1>3 DEF OutputsInStep
  <2>1. LaterRowsNeed
    BY <1>1 DEF LaterRowsNeed, Needs, Row
  <2>2. /\ \A k \in DOMAIN todo : todo[k] = Len(batch) - Len(todo) + k
        /\ Len(outputs) = Len(batch) - Len(todo) \/ FailedUpTo(Len(outputs) + 1)
        /\ \A i \in DOMAIN outputs : outputs[i].of = i \/ FailedUpTo(i)
    BY <1>1, <2>1 DEF IInv, OutputsInStep
  <2>3. \A k \in DOMAIN todo' : todo'[k] = Len(batch) - Len(todo') + k
    <3> SUFFICES ASSUME NEW k \in DOMAIN todo' PROVE todo'[k] = Len(batch) - Len(todo') + k
      OBVIOUS
    <3>1. todo'[k] = todo[c + k] /\ todo[c + k] = Len(batch) - Len(todo) + (c + k)
      BY <1>2, <1>4, <2>2
    <3>2. k \in Int /\ c \in Int /\ Len(todo) \in Int /\ Len(batch) \in Int
      BY <1>2
    <3> QED
      BY <1>2, <3>1, <3>2
  <2>4. \A i : FailedUpTo(i) => FailedUpTo(i)'
    BY <1>3 DEF FailedUpTo
  <2>5. CASE Len(outputs) = Len(batch) - Len(todo)
    <3>1. [of |-> todo[1], reason |-> "failed"] \in errors'
      BY <1>2, <1>3
    <3>2. todo[1] = Len(outputs) + 1 /\ todo[1] <= todo[1]
      <4>1. 1 \in DOMAIN todo
        BY <1>2
      <4>2. todo[1] = Len(batch) - Len(todo) + 1
        BY <2>2, <4>1
      <4>3. todo[1] \in Int
        BY <1>2, <4>2
      <4> QED
        BY <2>5, <4>2, <4>3
    <3>3. FailedUpTo(Len(outputs) + 1)'
      BY <1>3, <3>1, <3>2 DEF FailedUpTo
    <3> QED
      BY <2>2, <2>3, <2>4, <3>3
  <2>6. CASE FailedUpTo(Len(outputs) + 1)
    BY <1>3, <2>2, <2>3, <2>4, <2>6 DEF FailedUpTo
  <2> QED
    BY <2>2, <2>5, <2>6
<1> QED
  BY <1>1, <1>5, <1>6, <1>7, <1>8, <1>9 DEF IInv, Typed

\* The outputs after a chunk: those before it, then one for each of its rows.
LEMMA EnrichedFacts ==
  ASSUME Typed, todo # <<>>,
         NEW answers \in [1 .. ChunkLength -> Outputs \union {Unanswered, Malformed}]
  PROVE  LET added == outputs \o Enriched(answers)
             n == Len(outputs) IN
         /\ n \in Nat /\ DOMAIN outputs = 1 .. n /\ Len(added) = n + ChunkLength
         /\ DOMAIN added = 1 .. n + ChunkLength
         /\ \A i \in 1 .. n : added[i] = outputs[i]
         /\ \A k \in 1 .. ChunkLength : added[n + k].of = todo[k]
         /\ \A k \in 1 .. ChunkLength :
              answers[k] = Unanswered => added[n + k].says = EmptyEnrichment
         /\ added \in Seq(OutputRecords)
<1> DEFINE c == ChunkLength
           n == Len(outputs)
           new == Enriched(answers)
           Says(k) == IF answers[k] = Unanswered THEN EmptyEnrichment ELSE answers[k]
<1>1. c \in 1 .. Len(todo) /\ Len(todo) \in Nat /\ DOMAIN todo = 1 .. Len(todo)
  BY ChunkFacts
<1>2. \A k \in 1 .. c : todo[k] \in DOMAIN batch
  BY <1>1, ChunkFacts
<1>3. outputs \in Seq(OutputRecords)
  BY DEF Typed
<1>4. DOMAIN answers = 1 .. c
  OBVIOUS
<1>5. new = [k \in 1 .. c |-> [of |-> todo[k], says |-> Says(k)]]
  BY <1>4 DEF Enriched
<1>6. \A k \in 1 .. c : Says(k) \in Enrichments \union {Malformed}
  BY BasicType, EnrichmentAssumption
<1> HIDE DEF Says, c
<1>7. \A k \in 1 .. c : new[k] \in OutputRecords
  BY <1>2, <1>5, <1>6 DEF OutputRecords
<1>8. c \in Nat
  BY <1>1
<1>9. \A k \in 1 .. c : /\ new[k].of = todo[k]
                        /\ answers[k] = Unanswered => new[k].says = EmptyEnrichment
  BY <1>5 DEF Says
<1> HIDE DEF new
<1>10. new \in [1 .. c -> OutputRecords]
  BY <1>5, <1>7
<1>11. PICK T : T = OutputRecords
  OBVIOUS
<1>12. new \in Seq(T) /\ Len(new) = c
  BY <1>8, <1>10, <1>11
<1>13. /\ outputs \o new \in Seq(T) /\ n \in Nat /\ DOMAIN outputs = 1 .. n
       /\ Len(outputs \o new) = n + c
       /\ DOMAIN (outputs \o new) = 1 .. n + c
       /\ \A i \in 1 .. n : (outputs \o new)[i] = outputs[i]
       /\ \A k \in 1 .. c : (outputs \o new)[n + k] = new[k]
  BY <1>3, <1>8, <1>11, <1>12
<1>14. ASSUME NEW k \in 1 .. c
       PROVE  /\ (outputs \o new)[n + k].of = todo[k]
              /\ answers[k] = Unanswered => (outputs \o new)[n + k].says = EmptyEnrichment
  <2>1. (outputs \o new)[n + k] = new[k]
    BY <1>13
  <2> QED
    BY <1>9, <2>1
<1> QED
  BY <1>11, <1>13, <1>14 DEF c, new

\* A call for a chunk is answered, for all of its rows or for some.
LEMMA AnsweredIInv == ASSUME IInv, ChunkAnswered PROVE IInv'
<1> DEFINE c == ChunkLength
           n == Len(outputs)
<1>1. /\ pc = "enrich" /\ todo # <<>> /\ todo' = Rest
      /\ fields = <<>> /\ stored = <<>>
      /\ UNCHANGED <<configured, sheet, pc, schema, batch, batchSchema, fields, stored>>
      /\ Typed /\ SheetOK' /\ FallbackMapsEachColumnOnce' /\ StepByStep'
  BY ChunkLeaves
<1>2. /\ c \in 1 .. Len(todo)
      /\ Len(todo) \in Nat /\ DOMAIN todo = 1 .. Len(todo)
      /\ \A k \in DOMAIN todo : todo[k] \in DOMAIN batch
      /\ todo' \in Seq(DOMAIN batch)
      /\ Len(todo') = Len(todo) - c /\ DOMAIN todo' = 1 .. Len(todo) - c
      /\ \A k \in DOMAIN todo' : todo'[k] = todo[c + k]
      /\ Len(batch) \in Nat /\ DOMAIN batch = 1 .. Len(batch)
  BY <1>1, ChunkFacts
<1>3. PICK answers \in [1 .. c -> Outputs \union {Unanswered, Malformed}] :
        /\ outputs' = outputs \o Enriched(answers)
        /\ errors' = errors \union
             {[of |-> todo[i], reason |-> "unanswered"] :
                i \in {k \in DOMAIN answers : answers[k] = Unanswered}}
  BY DEF ChunkAnswered
<1>4. /\ n \in Nat /\ DOMAIN outputs = 1 .. n /\ Len(outputs') = n + c
      /\ DOMAIN outputs' = 1 .. n + c
      /\ \A i \in 1 .. n : outputs'[i] = outputs[i]
      /\ outputs' \in Seq(OutputRecords)
      /\ \A k \in 1 .. c : outputs'[n + k].of = todo[k]
      /\ \A k \in 1 .. c : answers[k] = Unanswered => outputs'[n + k].says = EmptyEnrichment
  BY <1>1, <1>3, EnrichedFacts
<1>5. \A k \in 1 .. c : outputs'[n + k].of = todo[k]
  BY <1>4
<1>6. DOMAIN answers = 1 .. c
  OBVIOUS
<1> HIDE DEF c, n
<1>7. ASSUME NEW i \in DOMAIN outputs'
      PROVE  i \in 1 .. n \/ \E k \in 1 .. c : i = n + k
  <2>1. i \in 1 .. n \/ i - n \in 1 .. c
    BY <1>2, <1>4
  <2> QED
    BY <1>4, <2>1
<1>8. \A k \in 1 .. c : k \in DOMAIN todo
  BY <1>2
<1>9. \A k \in DOMAIN todo' : c + k \in DOMAIN todo /\ c + k \notin 1 .. c
  BY <1>2
<1>10. ASSUME NEW e \in errors'
       PROVE  e \in errors \/ \E k \in 1 .. c : e.of = todo[k] /\ answers[k] = Unanswered
  BY <1>3, <1>6
<1>11. (outputs \in Seq(OutputRecords))'
  BY <1>1, <1>4 DEF OutputRecords
<1>12. TypeOK'
  <2>1. errors' \subseteq [of : DOMAIN batch, reason : {"unanswered", "failed"}]
    <3>1. errors \subseteq [of : DOMAIN batch, reason : {"unanswered", "failed"}]
      BY <1>1 DEF Typed, TypeOK
    <3>2. \A k \in 1 .. c : [of |-> todo[k], reason |-> "unanswered"]
                             \in [of : DOMAIN batch, reason : {"unanswered", "failed"}]
      BY <1>2, <1>8
    <3> QED
      BY <1>3, <1>6, <3>1, <3>2
  <2>2. \A i \in DOMAIN outputs' : /\ outputs'[i].of \in DOMAIN batch
                                   /\ outputs'[i].says \in Enrichments \/ outputs'[i].says = Malformed
    <3>1. \A i \in DOMAIN outputs' : outputs'[i] \in OutputRecords
      BY <1>4, MembersTyped
    <3> QED
      BY <3>1 DEF OutputRecords
  <2> QED
    BY <1>1, <1>2, <2>1, <2>2 DEF Typed, TypeOK
<1>13. EachRowOnce'
  <2>1. ASSUME NEW p \in DOMAIN batch
        PROVE  \/ \E i \in DOMAIN outputs' : outputs'[i].of = p
               \/ \E e \in errors' : e.of = p
               \/ \E k \in DOMAIN todo' : todo'[k] = p
    <3>1. ASSUME NEW i \in DOMAIN outputs, outputs[i].of = p
          PROVE  \E j \in DOMAIN outputs' : outputs'[j].of = p
      <4>1. i \in 1 .. n /\ i \in DOMAIN outputs'
        BY <1>2, <1>4
      <4> QED
        BY <1>4, <3>1, <4>1
    <3>2. CASE \E e \in errors : e.of = p
      BY <1>3, <3>2
    <3>3. ASSUME NEW k \in DOMAIN todo, todo[k] = p
          PROVE  \/ \E i \in DOMAIN outputs' : outputs'[i].of = p
                 \/ \E l \in DOMAIN todo' : todo'[l] = p
      <4>1. CASE k \in 1 .. c
        <5>1. n + k \in DOMAIN outputs'
          BY <1>2, <1>4, <4>1
        <5>2. outputs'[n + k].of = todo[k]
          BY <1>5, <4>1
        <5> QED
          BY <3>3, <5>1, <5>2
      <4>2. CASE k \notin 1 .. c
        <5>1. k - c \in DOMAIN todo' /\ c + (k - c) = k
          BY <1>2, <4>2
        <5> QED
          BY <1>2, <3>3, <5>1
      <4> QED
        BY <4>1, <4>2
    <3> QED
      BY <1>1, <2>1, <3>1, <3>2, <3>3 DEF IInv, EachRowOnce
  <2>2. ASSUME NEW i \in DOMAIN outputs', NEW j \in DOMAIN outputs',
               outputs'[i].of = outputs'[j].of
        PROVE  i = j
    <3>1. CASE i \in 1 .. n /\ j \in 1 .. n
      BY <1>4, <2>2, <3>1 DEF IInv, EachRowOnce
    <3>2. ASSUME NEW a \in 1 .. n, NEW k \in 1 .. c PROVE outputs'[a].of # outputs'[n + k].of
      BY <1>4, <1>5, <1>8 DEF IInv, EachRowOnce
    <3>3. ASSUME NEW k \in 1 .. c, NEW l \in 1 .. c, i = n + k, j = n + l PROVE i = j
      BY <1>5, <1>8, <2>2, <3>3 DEF IInv, EachRowOnce
    <3> QED
      BY <1>7, <2>2, <3>1, <3>2, <3>3
  <2>3. \A k, l \in DOMAIN todo' : todo'[k] = todo'[l] => k = l
    <3>1. \A k, l \in DOMAIN todo' : todo'[k] = todo'[l] => c + k = c + l
      BY <1>2, <1>9 DEF IInv, EachRowOnce
    <3> QED
      BY <1>2, <3>1
  <2>4. ASSUME NEW k \in DOMAIN todo', NEW l \in 1 .. c PROVE todo[l] # todo'[k]
    <3>1. l \in DOMAIN todo /\ l # c + k
      BY <1>8, <1>9
    <3> QED
      BY <1>2, <1>9, <3>1 DEF IInv, EachRowOnce
  <2>5. ASSUME NEW k \in DOMAIN todo', NEW i \in DOMAIN outputs' PROVE outputs'[i].of # todo'[k]
    <3>1. CASE i \in 1 .. n
      BY <1>2, <1>4, <1>9, <3>1 DEF IInv, EachRowOnce
    <3>2. ASSUME NEW l \in 1 .. c, i = n + l PROVE outputs'[i].of # todo'[k]
      BY <1>5, <2>4, <3>2
    <3> QED
      BY <1>7, <3>1, <3>2
  <2>6. ASSUME NEW k \in DOMAIN todo', NEW e \in errors' PROVE e.of # todo'[k]
    <3>1. CASE e \in errors
      BY <1>2, <1>9, <3>1 DEF IInv, EachRowOnce
    <3> QED
      BY <1>10, <2>4, <3>1
  <2> QED
    BY <1>1, <2>1, <2>2, <2>3, <2>5, <2>6 DEF EachRowOnce
<1>14. UnansweredIsEmpty'
  <2> SUFFICES ASSUME NEW e \in errors', NEW i \in DOMAIN outputs',
                      e.reason = "unanswered", outputs'[i].of = e.of
               PROVE  outputs'[i].says = EmptyEnrichment
    <3>1. EmptyEnrichment' = EmptyEnrichment
      BY DEF EmptyEnrichment, Unknown
    <3> QED
      BY <3>1 DEF UnansweredIsEmpty
  <2>1. CASE e \in errors /\ i \in 1 .. n
    BY <1>4, <2>1 DEF IInv, UnansweredIsEmpty
  <2>2. ASSUME NEW k \in 1 .. c, e \in errors, i = n + k PROVE FALSE
    BY <1>5, <1>8, <2>2 DEF IInv, EachRowOnce
  <2>3. ASSUME NEW k \in 1 .. c, e.of = todo[k], i \in 1 .. n PROVE FALSE
    BY <1>4, <1>8, <2>3 DEF IInv, EachRowOnce
  <2>4. ASSUME NEW k \in 1 .. c, NEW l \in 1 .. c, e.of = todo[k], answers[k] = Unanswered,
               i = n + l
        PROVE  outputs'[i].says = EmptyEnrichment
    <3>1. k = l
      BY <1>5, <1>8, <2>4 DEF IInv, EachRowOnce
    <3> QED
      BY <1>4, <2>4, <3>1
  <2> QED
    BY <1>7, <1>10, <2>1, <2>2, <2>3, <2>4
<1>15. OutputsInStep'
  <2> SUFFICES ASSUME LaterRowsNeed'
               PROVE  /\ \A k \in DOMAIN todo' : todo'[k] = Len(batch) - Len(todo') + k
                      /\ \/ Len(outputs') = Len(batch) - Len(todo')
                         \/ FailedUpTo(Len(outputs) + 1)'
                      /\ \A i \in DOMAIN outputs' : outputs'[i].of = i \/ FailedUpTo(i)'
    BY <1>1 DEF OutputsInStep
  <2>1. LaterRowsNeed
    BY <1>1 DEF LaterRowsNeed, Needs, Row
  <2>2. /\ \A k \in DOMAIN todo : todo[k] = Len(batch) - Len(todo) + k
        /\ n = Len(batch) - Len(todo) \/ FailedUpTo(n + 1)
        /\ \A i \in DOMAIN outputs : outputs[i].of = i \/ FailedUpTo(i)
    BY <1>1, <2>1 DEF IInv, OutputsInStep, n
  <2>3. \A k \in DOMAIN todo' : todo'[k] = Len(batch) - Len(todo') + k
    <3> SUFFICES ASSUME NEW k \in DOMAIN todo' PROVE todo'[k] = Len(batch) - Len(todo') + k
      OBVIOUS
    <3>1. todo'[k] = todo[c + k] /\ todo[c + k] = Len(batch) - Len(todo) + (c + k)
      BY <1>2, <1>9, <2>2
    <3>2. k \in Int /\ c \in Int /\ Len(todo) \in Int /\ Len(batch) \in Int
      BY <1>2
    <3> QED
      BY <1>2, <3>1, <3>2
  <2>4. ASSUME NEW i \in Int, NEW j \in Int, i <= j, FailedUpTo(i)
        PROVE  \E e \in errors' : e.reason = "failed" /\ e.of <= j
    <3>1. PICK e \in errors : e.reason = "failed" /\ e.of <= i
      BY <2>4 DEF FailedUpTo
    <3>2. e.of \in Int
      BY <1>1, <1>2 DEF Typed, TypeOK
    <3>3. e.of <= j
      BY <2>4, <3>1, <3>2
    <3> QED
      BY <1>3, <3>1, <3>3
  <2>5. Len(outputs') = Len(batch) - Len(todo') \/ FailedUpTo(Len(outputs) + 1)'
    <3>1. CASE n = Len(batch) - Len(todo)
      BY <1>2, <1>4, <3>1
    <3>2. CASE FailedUpTo(n + 1)
      <4>1. n + 1 \in Int /\ Len(outputs') + 1 \in Int /\ n + 1 <= Len(outputs') + 1
        BY <1>2, <1>4
      <4>2. \E e \in errors' : e.reason = "failed" /\ e.of <= Len(outputs') + 1
        BY <2>4, <3>2, <4>1
      <4> QED
        BY <4>2 DEF FailedUpTo
    <3> QED
      BY <2>2, <3>1, <3>2
  <2>6. ASSUME NEW i \in DOMAIN outputs'
        PROVE  outputs'[i].of = i \/ \E e \in errors' : e.reason = "failed" /\ e.of <= i
    <3>1. CASE i \in 1 .. n
      <4>1. i \in Int /\ i <= i /\ i \in DOMAIN outputs
        BY <1>4, <3>1
      <4> QED
        BY <1>4, <2>2, <2>4, <3>1, <4>1
    <3>2. ASSUME NEW k \in 1 .. c, i = n + k
          PROVE  outputs'[i].of = i \/ \E e \in errors' : e.reason = "failed" /\ e.of <= i
      <4>1. outputs'[i].of = todo[k] /\ todo[k] = Len(batch) - Len(todo) + k
        BY <1>5, <1>8, <2>2, <3>2
      <4>2. n + 1 \in Int /\ i \in Int /\ n + 1 <= i
        BY <1>2, <1>4, <3>2
      <4>3. CASE n = Len(batch) - Len(todo)
        BY <3>2, <4>1, <4>3
      <4>4. CASE FailedUpTo(n + 1)
        BY <2>4, <4>2, <4>4
      <4> QED
        BY <2>2, <4>3, <4>4
    <3> QED
      BY <1>7, <3>1, <3>2
  <2> QED
    BY <2>3, <2>5, <2>6 DEF FailedUpTo
<1> QED
  BY <1>1, <1>11, <1>12, <1>13, <1>14, <1>15 DEF IInv, Typed

-----------------------------------------------------------------------------
(* The theorems.                                                           *)

\* The invariant holds in every state: until a batch is scored, its rows are those that
\* are put out, those with an error and those to do, each in one of them.
THEOREM EnrichmentInvariance == Spec => []IInv
<1>1. Init => IInv
  BY InitIInv
<1>2. IInv /\ [Next]_vars => IInv'
  BY InferIInv, GivenUpIInv, ClassifyIInv, InferBatchIInv, AnsweredIInv, ThrowsIInv, ScoreIInv,
     StoreIInv, StutterIInv DEF Next
<1> QED
  BY <1>1, <1>2, PTL DEF Spec

\* Every variable keeps its type; a confidence lies between 0 and 1 whatever the LLM says.
THEOREM EnrichmentTypeCorrect == Spec => []TypeOK
<1>1. IInv => TypeOK
  BY DEF IInv, Typed
<1> QED
  BY EnrichmentInvariance, <1>1, PTL

\* A schema made without the LLM uses no column for two fields.
THEOREM FallbackMapsOnce == Spec => []FallbackMapsEachColumnOnce
<1>1. IInv => FallbackMapsEachColumnOnce
  BY DEF IInv
<1> QED
  BY EnrichmentInvariance, <1>1, PTL

\* An enriched field joins a row's raw value to the enrichment of the same row, if the rows
\* that need no LLM come first and no call before it failed.
THEOREM FieldsJoinTheirRow == Spec => []FieldsCarryTheirRow
<1>1. IInv => FieldsCarryTheirRow
  <2> SUFFICES ASSUME IInv, NEW i \in DOMAIN fields, LaterRowsNeed,
                      \A e \in errors : e.reason = "failed" => e.of > i
               PROVE  fields[i].of = i
    BY DEF FieldsCarryTheirRow, LaterRowsNeed, Needs
  <2>1. i \in DOMAIN outputs /\ fields[i].of = outputs[i].of
    BY DEF IInv, StepByStep, FieldData
  <2>2. i \in Int /\ \A e \in errors : e.of \in Int
    BY <2>1 DEF IInv, Typed, TypeOK
  <2>3. ~ FailedUpTo(i)
    BY <2>2 DEF FailedUpTo
  <2> QED
    BY <2>1, <2>3 DEF IInv, OutputsInStep
<1> QED
  BY EnrichmentInvariance, <1>1, PTL

\* Once a batch is scored each of its rows has given a field or an error, and no row gives
\* two fields.
THEOREM RowsAreAccountedFor == Spec => []EveryRowAccountedFor
<1>1. IInv => EveryRowAccountedFor
  <2> SUFFICES ASSUME IInv, pc \in Scored
               PROVE  /\ DOMAIN batch = {fields[i].of : i \in DOMAIN fields} \union {e.of : e \in errors}
                      /\ \A i, j \in DOMAIN fields : fields[i].of = fields[j].of => i = j
    BY DEF EveryRowAccountedFor, Scored
  <2>1. /\ todo = <<>> /\ DOMAIN fields = DOMAIN outputs
        /\ \A i \in DOMAIN fields : fields[i].of = outputs[i].of
    BY DEF IInv, StepByStep, FieldData
  <2>2. \A p \in DOMAIN batch : \/ \E i \in DOMAIN fields : fields[i].of = p
                                \/ \E e \in errors : e.of = p
    BY <2>1 DEF IInv, EachRowOnce
  <2>3. \A i \in DOMAIN fields : fields[i].of \in DOMAIN batch
    BY <2>1 DEF IInv, Typed, TypeOK
  <2>4. \A e \in errors : e.of \in DOMAIN batch
    BY DEF IInv, Typed, TypeOK
  <2>5. \A i, j \in DOMAIN fields : fields[i].of = fields[j].of => i = j
    BY <2>1 DEF IInv, EachRowOnce
  <2> QED
    BY <2>2, <2>3, <2>4, <2>5
<1> QED
  BY EnrichmentInvariance, <1>1, PTL

\* A row the LLM gave no answer for is never approved, whatever columns are mapped.
THEOREM UnansweredIsReviewed == Spec => []NoAnswerIsReviewed
<1>1. IInv => NoAnswerIsReviewed
  <2> SUFFICES ASSUME IInv, NEW i \in DOMAIN fields, NEW e \in errors,
                      e.of = fields[i].of, e.reason = "unanswered"
               PROVE  ~ Approved(fields[i]) /\ fields[i].escalated
    BY DEF NoAnswerIsReviewed
  <2>1. i \in DOMAIN outputs /\ fields[i] = FieldData(i)
    BY DEF IInv, StepByStep
  <2>2. outputs[i].of = e.of
    BY <2>1 DEF FieldData
  <2>3. outputs[i].says = EmptyEnrichment
    BY <2>1, <2>2 DEF IInv, UnansweredIsEmpty
  <2>4. /\ fields[i].confidence = 0
        /\ fields[i].escalated = ShouldEscalate(Issues(EmptyEnrichment), 0)
    BY <2>1, <2>3, EmptyIsNotTrusted DEF FieldData
  <2> QED
    BY <2>4, EmptyIsNotTrusted DEF Approved, ShouldEscalate
<1> QED
  BY EnrichmentInvariance, <1>1, PTL

\* A field that is approved and that no review is asked for is sound.
THEOREM SilentApprovals == Spec => []SilentApprovalIsSound
<1>1. IInv => SilentApprovalIsSound
  <2> SUFFICES ASSUME IInv, NEW i \in DOMAIN fields, ~ fields[i].escalated
               PROVE  LET e == fields[i].says IN
                      /\ e.name # "blank"
                      /\ e.currency \in {"absent", "null", "valid"}
                      /\ {e.latitude, e.longitude} \subseteq {"absent", "null", "ok", "precise"}
                      /\ ~ (e.latitude = "precise" /\ e.longitude = "precise")
    BY DEF SilentApprovalIsSound
  <2>1. fields[i] = FieldData(i) /\ fields[i] \in FieldRecords
    BY DEF IInv, StepByStep, Typed, TypeOK
  <2>2. PICK e \in Enrichments : e = fields[i].says
    BY <2>1 DEF FieldRecords
  <2>3. ~ ShouldEscalate(Issues(e), fields[i].confidence)
    BY <2>1, <2>2 DEF FieldData
  <2> QED
    BY <2>2, <2>3, NoReasonIsSound
<1> QED
  BY EnrichmentInvariance, <1>1, PTL

-----------------------------------------------------------------------------
(* Which rows reach the LLM.                                               *)

\* The names detectAmbiguity looks up: the fields' own names, not those of the columns.
LookedUp == {"currencyColumn", "jurisdictionColumn", "assetTypeColumn", "latitudeColumn", "longitudeColumn"}

EnrichedOnlyByName == batch # <<>> => \E f \in Field : schema.mapping[f] \in LookedUp

\* A row is ambiguous only under a mapping to a column that bears the name of a field.
LEMMA AmbiguousByName ==
  ASSUME NEW row, NEW mapping, IsAmbiguous(row, mapping)
  PROVE  \E f \in Field : mapping[f] \in LookedUp
<1> DEFINE map == SchemaMap(mapping)
<1>1. DOMAIN map = {mapping[f] : f \in Field} \ {NoColumn}
  BY DEF SchemaMap
<1> HIDE DEF map
<1>2. \E name \in LookedUp : name \in DOMAIN map
  <2>1. DetectAmbiguity(row, map)
    BY DEF IsAmbiguous, map
  <2> QED
    BY <2>1 DEF DetectAmbiguity, LookedUp
<1> QED
  BY <1>1, <1>2

\* No row of any file is ever sent to the LLM unless the schema maps a field to a column
\* that is itself called currencyColumn, or like another of the fields looked up: whatever
\* values are missing, and whatever the LLM answers (detectAmbiguity,
\* deterministic.helpers.ts 129-170, given the map of buildSchemaMap, batch.helper.ts
\* 90-102, which goes from columns to roles).
THEOREM RowsAreAmbiguousByName == Spec => []EnrichedOnlyByName
<1>1. Init => EnrichedOnlyByName
  BY DEF Init, EnrichedOnlyByName
<1>2. IInv /\ EnrichedOnlyByName /\ [Next]_vars => EnrichedOnlyByName'
  <2> SUFFICES ASSUME IInv, EnrichedOnlyByName, [Next]_vars PROVE EnrichedOnlyByName'
    OBVIOUS
  <2>1. CASE Classify
    <3> DEFINE S == {n \in DOMAIN sheet.rows : IsAmbiguous(sheet.rows[n], schema.mapping)}
    <3>1. PICK n \in Nat : DOMAIN sheet.rows = 1 .. n
      BY DEF IInv, Typed, SheetOK
    <3>2. S \in SUBSET Int /\ IsFiniteSet(S)
      BY <3>1, PositionsFinite
    <3>3. batch' = InOrder(S) /\ schema' = schema
      BY <2>1 DEF Classify
    <3>4. InOrder(S) \in Seq(S)
      BY <3>2, InOrderSorts
    <3>5. batch' # <<>> => \E m \in S : TRUE
      <4> HIDE DEF S
      <4> SUFFICES ASSUME batch' # <<>> PROVE S # {}
        OBVIOUS
      <4>1. batch' \in Seq(S)
        BY <3>3, <3>4
      <4>2. Len(batch') \in Nat /\ Len(batch') # 0
        BY <4>1
      <4>3. batch'[1] \in S
        BY <4>1, <4>2
      <4> QED
        BY <4>3
    <3> QED
      BY <3>3, <3>5, AmbiguousByName DEF EnrichedOnlyByName
  <2>2. CASE InferSchema
    <3>1. batch' = <<>>
      BY <2>2 DEF InferSchema, IInv, StepByStep
    <3> QED
      BY <3>1 DEF EnrichedOnlyByName
  <2>3. CASE ~ Classify /\ ~ InferSchema
    <3>1. batch' = batch /\ schema' = schema
      BY <2>3 DEF Next, InferMalformed, SkipUnconfigured, InferBatchSchema, ChunkAnswered,
                  ChunkThrows, Score, StoreFields, StoreFieldsFails, StoreIssues, vars
    <3> QED
      BY <3>1 DEF EnrichedOnlyByName
  <2> QED
    BY <2>1, <2>2, <2>3
<1> QED
  BY <1>1, <1>2, EnrichmentInvariance, PTL DEF Spec

-----------------------------------------------------------------------------
(* The way to the end.                                                     *)

Stage ==
  CASE pc = "infer" -> 6
    [] pc = "classify" -> 5
    [] pc = "batch" -> 4
    [] pc = "enrich" -> 3
    [] pc = "fields" -> 2
    [] pc = "issues" -> 1
    [] OTHER -> 0

Onward ==
  \/ Stage' < Stage
  \/ Stage' = Stage /\ Len(todo)' < Len(todo)

StageAndTodoAreNumbers == Stage \in 0 .. 6 /\ Len(todo) \in Nat

\* Every step is one to a later stage or shortens what is to do, so that no number of
\* failing calls keeps an extraction: the part of EnrichmentEnds that is no matter of
\* fairness, for batches and chunks of any size.
THEOREM ChunksRunOut == Spec => []StageAndTodoAreNumbers /\ [][Onward]_vars
<1>1. IInv => StageAndTodoAreNumbers
  BY DEF IInv, Typed, TypeOK, Stage, StageAndTodoAreNumbers
<1>2. IInv /\ [Next]_vars => [Onward]_vars
  <2> SUFFICES ASSUME IInv, Next, vars' # vars PROVE Onward
    BY DEF vars
  <2>1. CASE ChunkAnswered \/ ChunkThrows
    <3>1. Stage' = Stage
      BY <2>1, ChunkLeaves DEF Stage
    <3>2. Len(Rest) = Len(todo) - ChunkLength /\ ChunkLength \in 1 .. Len(todo) /\ Len(todo) \in Nat
      BY <2>1, ChunkLeaves, ChunkFacts
    <3>3. Len(todo)' = Len(Rest)
      BY <2>1, ChunkLeaves
    <3> QED
      BY <3>1, <3>2, <3>3 DEF Onward
  <2>2. CASE InferSchema \/ InferMalformed \/ Classify \/ SkipUnconfigured \/ InferBatchSchema
    <3>1. Stage' < Stage
      BY <2>2 DEF InferSchema, InferMalformed, Classify, SkipUnconfigured, InferBatchSchema, Stage
    <3> QED
      BY <3>1 DEF Onward
  <2>3. CASE Score \/ StoreFields \/ StoreFieldsFails \/ StoreIssues
    <3>1. Stage' < Stage
      BY <2>3 DEF Score, StoreFields, StoreFieldsFails, StoreIssues, Stage
    <3> QED
      BY <3>1 DEF Onward
  <2> QED
    BY <2>1, <2>2, <2>3 DEF Next
<1> QED
  BY <1>1, <1>2, EnrichmentInvariance, PTL DEF Spec
=============================================================================
