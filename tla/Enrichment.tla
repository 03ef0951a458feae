------------------------------ MODULE Enrichment ------------------------------
(***************************************************************************)
(* One file's way through the LLM: its mapped rows, the schema inferred    *)
(* from its sample rows, the rows the schema calls ambiguous, and their    *)
(* enrichment, scoring and storing (src/backend/src:                       *)
(* helpers/extraction-processor.helper.ts, services/llmService/*.ts).      *)
(*                                                                         *)
(* The rows are few enough for one ambiguous batch; RowPipeline has the    *)
(* batching.  The calls follow each other without concurrency; what varies *)
(* is the file, the LLM's answers, its failures and those of the database. *)
(***************************************************************************)
EXTENDS EnrichmentScoring

CONSTANTS
  Files,     \* the files: their columns and, per row, the kinds of its cells
  Answers,   \* the field mappings the LLM may answer with
  Outputs,   \* the enrichments the LLM may answer with
  Unanswered, \* no enrichment for a row (an answer that is no array has none for any)
  Malformed, \* an enrichment without signals, or with a name that is no text
  ChunkSize  \* rows per LLM call; DEFAULT_BATCH_SIZE is 50

ASSUME EnrichmentAssumption ==
  /\ \A file \in Files :
       /\ file.columns \in Seq(STRING)
       /\ \A n \in DOMAIN file.columns : MappedName(file.columns[n]) \in Name
       /\ file.rows \in Seq([DOMAIN file.columns -> Kinds])
  /\ Answers \subseteq Mapping
  /\ Outputs \subseteq Enrichments
  /\ Unanswered # Malformed /\ {Unanswered, Malformed} \intersect Outputs = {}
  /\ ChunkSize \in Nat \ {0}

VARIABLES
  configured, \* is an LLM provider configured?
  sheet,      \* the file's valid rows and their columns, mapped
  pc,         \* the step the extraction is at
  schema,     \* the file's schema: a mapping, and whether it was made without the LLM
  batch,      \* the ambiguous rows, in the order of the file
  batchSchema, \* the schema inferred from the batch alone
  todo,       \* the positions in the batch whose chunk is not yet enriched
  outputs,    \* the enrichments, each with the position of the row it was made for
  errors,     \* the positions without a real enrichment, each with the reason
  fields,     \* the enriched fields, in the order of the outputs
  stored      \* the enriched fields in the database

vars == <<configured, sheet, pc, schema, batch, batchSchema, todo, outputs, errors, fields, stored>>

Steps == {"infer", "classify", "batch", "enrich", "score", "fields", "issues",
          "done", "dropped", "unreviewed", "threw"}
Ended == {"done", "dropped", "unreviewed", "threw"}

Schemas == [mapping : Mapping, byHand : BOOLEAN]
NoSchema == [mapping |-> [f \in Field |-> NoColumn], byHand |-> FALSE]

Init ==
  /\ configured \in BOOLEAN
  /\ sheet \in {MapFile(file) : file \in Files}
  /\ pc = "infer"
  /\ schema = NoSchema /\ batchSchema = NoSchema
  /\ batch = <<>> /\ todo = <<>> /\ outputs = <<>> /\ fields = <<>> /\ stored = <<>>
  /\ errors = {}

-----------------------------------------------------------------------------
(* SchemaInferenceService.inferSchema.                                     *)

\* The LLM answers in time; or it fails, or its answer comes after ten seconds and is
\* dropped, and the mapping is made from the columns' names.
Inferred(rows, start) ==
  (IF configured THEN {[mapping |-> answer, byHand |-> FALSE] : answer \in Answers} ELSE {})
    \union {[mapping |-> ManualMapping(sheet.columns, SampleFrom(start, rows, sheet.columns)),
             byHand |-> TRUE]}

\* inferInitialSchema, called once all the sample rows are read.
InferSchema ==
  /\ pc = "infer"
  /\ schema' \in Inferred(sheet.rows, DataStart(sheet.rows))
  /\ pc' = "classify"
  /\ UNCHANGED <<configured, sheet, batch, batchSchema, todo, outputs, errors, fields, stored>>

\* An answer without columns or without a field mapping: mergeWithDeterministic throws.
\* The extraction fails with it, the enrichment of a batch returns no fields.
InferMalformed ==
  /\ configured
  /\ \/ pc = "infer" /\ pc' = "threw"
     \/ pc = "batch" /\ pc' = "dropped"
  /\ UNCHANGED <<configured, sheet, schema, batch, batchSchema, todo, outputs, errors, fields, stored>>

-----------------------------------------------------------------------------
(* BatchHelper.processRow, for every row, and ExtractionProcessor.flush.   *)

Classify ==
  /\ pc = "classify"
  /\ batch' = InOrder({n \in DOMAIN sheet.rows : IsAmbiguous(sheet.rows[n], schema.mapping)})
  /\ pc' = IF batch' = <<>> THEN "done" ELSE "batch"
  /\ UNCHANGED <<configured, sheet, schema, batchSchema, todo, outputs, errors, fields, stored>>

-----------------------------------------------------------------------------
(* LLMEnrichmentService.enrichExtraction, EnrichmentService.               *)

Row(i) == sheet.rows[batch[i]]
Given(row, name) == Cell(row, name) \notin {"null", "zero"}

NeedsEnrichment(row, mapping) ==
  \/ ~ Mapped(mapping, "currencyColumn") /\ ~ Given(row, "currency")
  \/ ~ Mapped(mapping, "jurisdictionColumn") /\ ~ Given(row, "jurisdiction")
  \/ /\ ~ Mapped(mapping, "latitudeColumn") \/ ~ Mapped(mapping, "longitudeColumn")
     /\ ~ Given(row, "latitude") \/ ~ Given(row, "longitude")

ColumnOr(mapping, f, name) == IF Mapped(mapping, f) THEN mapping[f] ELSE name

Unknown == [name |-> "absent", currency |-> "absent", jurisdiction |-> "absent",
            latitude |-> "absent", longitude |-> "absent", mostlyInferred |-> FALSE,
            exactValueMatch |-> FALSE, fieldMissing |-> FALSE, needsReview |-> FALSE]

\* basicOutputs: what a row that needs no LLM gives.
Basic(row, mapping) ==
  [Unknown EXCEPT
     !.name = IF Given(row, ColumnOr(mapping, "assetNameColumn", "asset_name")) THEN "given" ELSE "blank",
     !.currency = IF Cell(row, ColumnOr(mapping, "currencyColumn", "currency")) = "code"
                  THEN "valid" ELSE "absent",
     !.exactValueMatch = TRUE]

\* createEmptyEnrichment.
EmptyEnrichment == [Unknown EXCEPT !.fieldMissing = TRUE, !.needsReview = TRUE]

Needing(mapping) == InOrder({i \in DOMAIN batch : NeedsEnrichment(Row(i), mapping)})
NotNeeding(mapping) == InOrder({i \in DOMAIN batch : ~ NeedsEnrichment(Row(i), mapping)})

SkipUnconfigured ==
  /\ pc = "batch" /\ ~ configured
  /\ pc' = "dropped"
  /\ UNCHANGED <<configured, sheet, schema, batch, batchSchema, todo, outputs, errors, fields, stored>>

InferBatchSchema ==
  /\ pc = "batch" /\ configured
  /\ batchSchema' \in Inferred([i \in DOMAIN batch |-> Row(i)], 1)
  /\ todo' = Needing(batchSchema'.mapping)
  /\ LET basic == NotNeeding(batchSchema'.mapping) IN
     outputs' = [i \in DOMAIN basic |->
                   [of |-> basic[i], says |-> Basic(Row(basic[i]), batchSchema'.mapping)]]
  /\ pc' = "enrich"
  /\ UNCHANGED <<configured, sheet, schema, batch, errors, fields, stored>>

ChunkLength == IF Len(todo) < ChunkSize THEN Len(todo) ELSE ChunkSize
Rest == SubSeq(todo, ChunkLength + 1, Len(todo))

\* Mutant of Enriched: a row without an answer gets nothing.
EnrichedAnswered(answers) ==
  LET answered == InOrder({i \in DOMAIN answers : answers[i] # Unanswered})
  IN [i \in DOMAIN answered |-> [of |-> todo[answered[i]], says |-> answers[answered[i]]]]

\* The enrichments of a chunk's rows; a row without an answer gets the empty one.
Enriched(answers) ==
  [i \in DOMAIN answers |->
     [of |-> todo[i],
      says |-> IF answers[i] = Unanswered THEN EmptyEnrichment ELSE answers[i]]]

ChunkAnswered ==
  /\ pc = "enrich" /\ todo # <<>>
  /\ \E answers \in [1 .. ChunkLength -> Outputs \union {Unanswered, Malformed}] :
       /\ outputs' = outputs \o Enriched(answers)
       /\ errors' = errors \union
            {[of |-> todo[i], reason |-> "unanswered"] : i \in {k \in DOMAIN answers : answers[k] = Unanswered}}
  /\ todo' = Rest
  /\ UNCHANGED <<configured, sheet, pc, schema, batch, batchSchema, fields, stored>>

\* Mutant of ChunkErrors: a failed call leaves no trace.
ChunkErrorsForgotten == {}

ChunkErrors == {[of |-> todo[i], reason |-> "failed"] : i \in 1 .. ChunkLength}

ChunkThrows ==
  /\ pc = "enrich" /\ todo # <<>>
  /\ errors' = errors \union ChunkErrors
  /\ todo' = Rest
  /\ UNCHANGED <<configured, sheet, pc, schema, batch, batchSchema, outputs, fields, stored>>

\* The field made of the i-th output: its raw value is the batch's i-th row.
FieldData(i) ==
  LET e == outputs[i].says
      confidence == Confidence(e, batchSchema.mapping)
  IN [row |-> i, of |-> outputs[i].of, says |-> e, confidence |-> confidence,
      escalated |-> ShouldEscalate(Issues(e), confidence)]

\* A malformed enrichment throws, and every field of the batch is lost with it.
Score ==
  /\ pc = "enrich" /\ todo = <<>>
  /\ IF \E i \in DOMAIN outputs : outputs[i].says = Malformed
     THEN pc' = "dropped" /\ UNCHANGED fields
     ELSE /\ fields' = [i \in DOMAIN outputs |-> FieldData(i)]
          /\ pc' = IF outputs = <<>> THEN "done" ELSE "fields"
  /\ UNCHANGED <<configured, sheet, schema, batch, batchSchema, todo, outputs, errors, stored>>

-----------------------------------------------------------------------------
(* LLMEnrichmentService.persistEnrichmentResults.                          *)

StoreFields ==
  /\ pc = "fields"
  /\ stored' = fields
  /\ pc' = "issues"
  /\ UNCHANGED <<configured, sheet, schema, batch, batchSchema, todo, outputs, errors, fields>>

\* The transaction is rolled back; enrichBatch logs the error and goes on.
StoreFieldsFails ==
  /\ pc = "fields"
  /\ pc' = "dropped"
  /\ UNCHANGED <<configured, sheet, schema, batch, batchSchema, todo, outputs, errors, fields, stored>>

\* Mutant of StoreIssues: the refused flag or review is tried again and again.
StoreIssuesAgain ==
  /\ pc = "issues"
  /\ pc' = IF \E i \in DOMAIN fields : Issues(fields[i].says) # {} \/ fields[i].escalated
           THEN "issues" ELSE "done"
  /\ UNCHANGED <<configured, sheet, schema, batch, batchSchema, todo, outputs, errors, fields, stored>>

\* The flags and reviews name their field "field_<document>_<i>", which the uuid columns
\* refuse: the first one throws, and none is stored.
StoreIssues ==
  /\ pc = "issues"
  /\ pc' = IF \E i \in DOMAIN fields : Issues(fields[i].says) # {} \/ fields[i].escalated
           THEN "unreviewed" ELSE "done"
  /\ UNCHANGED <<configured, sheet, schema, batch, batchSchema, todo, outputs, errors, fields, stored>>

Next ==
  \/ InferSchema \/ InferMalformed \/ Classify
  \/ SkipUnconfigured \/ InferBatchSchema
  \/ ChunkAnswered \/ ChunkThrows \/ Score
  \/ StoreFields \/ StoreFieldsFails \/ StoreIssues
  \/ pc \in Ended /\ UNCHANGED vars

Spec == Init /\ [][Next]_vars

\* Every call to the provider and to the database returns or throws.
FairSpec == Spec /\ WF_vars(Next)

-----------------------------------------------------------------------------
(* Properties.                                                             *)

FieldRecords ==
  [row : Nat, of : Nat, says : Enrichments, confidence : 0 .. 10, escalated : BOOLEAN]

\* Types.  A confidence lies between 0 and 1.
TypeOK ==
  /\ configured \in BOOLEAN /\ pc \in Steps
  /\ schema \in Schemas /\ batchSchema \in Schemas
  /\ batch \in Seq(DOMAIN sheet.rows) /\ todo \in Seq(DOMAIN batch)
  /\ \A i \in DOMAIN outputs : /\ outputs[i].of \in DOMAIN batch
                               /\ outputs[i].says \in Enrichments \/ outputs[i].says = Malformed
  /\ errors \subseteq [of : DOMAIN batch, reason : {"unanswered", "failed"}]
  /\ \A i \in DOMAIN fields : fields[i] \in FieldRecords
  /\ stored \in {<<>>, fields}

\* A schema made without the LLM uses no column for two fields, so that a name such as
\* "asset_type" does not become both the asset's name and its type (createManualSchema).
FallbackMapsEachColumnOnce ==
  \A s \in {schema, batchSchema} :
    s.byHand => \A f, g \in Field : s.mapping[f] = s.mapping[g] /\ s.mapping[f] # NoColumn => f = g

\* An enriched field joins a row's raw value to the enrichment of the same row, as long as
\* the rows that need no LLM are the first of the batch and no call before it failed:
\* enrichExtraction pairs them by position alone, and puts the former before the latter.
FieldsCarryTheirRow ==
  LET Needs(i) == NeedsEnrichment(Row(i), batchSchema.mapping)
      inOrder == \A i, j \in DOMAIN batch : i < j /\ Needs(i) => Needs(j)
  IN \A i \in DOMAIN fields :
       inOrder /\ (\A e \in errors : e.reason = "failed" => e.of > i) => fields[i].of = i

\* Once a batch is scored each of its rows has given a field or an error, and no row gives
\* two fields (processBatch, inferSchemaAndEnrich).
EveryRowAccountedFor ==
  pc \in {"fields", "issues", "unreviewed", "done"} =>
    /\ DOMAIN batch = {fields[i].of : i \in DOMAIN fields} \union {e.of : e \in errors}
    /\ \A i, j \in DOMAIN fields : fields[i].of = fields[j].of => i = j

Approved(field) == ~ LowConfidence(field.confidence)

\* A row the LLM gave no answer for is never approved, whatever the schema says: the
\* columns that are mapped do not outweigh the missing answer.
NoAnswerIsReviewed ==
  \A i \in DOMAIN fields :
    (\E e \in errors : e.of = fields[i].of /\ e.reason = "unanswered")
      => ~ Approved(fields[i]) /\ fields[i].escalated

\* A field that is approved and that no review is asked for has a sound currency and
\* position, a name that is not empty, and at most one coordinate that is too precise.
SilentApprovalIsSound ==
  \A i \in DOMAIN fields :
    Approved(fields[i]) /\ ~ fields[i].escalated =>
      LET e == fields[i].says IN
      /\ e.name # "blank"
      /\ e.currency \in {"absent", "null", "valid"}
      /\ {e.latitude, e.longitude} \subseteq {"absent", "null", "ok", "precise"}
      /\ ~ (e.latitude = "precise" /\ e.longitude = "precise")

\* The extraction's part with the LLM ends.
EnrichmentEnds == <>(pc \in Ended)

\* What the pipeline's description says: a row whose currency is missing is ambiguous and
\* goes to the LLM.
AmbiguousRowsAreEnriched ==
  pc \notin {"infer", "classify", "threw"} =>
    \A n \in DOMAIN sheet.rows :
      /\ Mapped(schema.mapping, "currencyColumn")
      /\ schema.mapping["currencyColumn"] \in DOMAIN sheet.rows[n]
      /\ Cell(sheet.rows[n], schema.mapping["currencyColumn"]) = "null"
      => \E i \in DOMAIN batch : batch[i] = n
=============================================================================
