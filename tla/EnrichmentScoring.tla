-------------------------- MODULE EnrichmentScoring --------------------------
(***************************************************************************)
(* How far an enriched row is trusted, and whether a human is to review    *)
(* it: helpers/llm-validation.helper.ts and helpers/llm-review.helper.ts   *)
(* (src/backend/src).  Scores are in tenths.                               *)
(*                                                                         *)
(* An enrichment is a record.  "absent" is JavaScript's undefined, "null"  *)
(* its null, "blank" is '', "precise" a coordinate with more than six   *)
(* decimals.  Of the four ...Inferred signals it matters whether at least  *)
(* half of those given are set (mostlyInferred).                           *)
(***************************************************************************)
EXTENDS SchemaInference

Coordinates == {"absent", "null", "ok", "precise", "out"}
Enrichments ==
  [name : {"absent", "null", "blank", "given"},
   currency : {"absent", "null", "blank", "malformed", "unknown", "valid"},
   jurisdiction : {"absent", "null", "given"},
   latitude : Coordinates, longitude : Coordinates,
   mostlyInferred : BOOLEAN, exactValueMatch : BOOLEAN, fieldMissing : BOOLEAN,
   needsReview : BOOLEAN]

Absent(value) == value = "absent"
Truthy(value) == value \notin {"absent", "null", "blank"}

-----------------------------------------------------------------------------
(* validateEnrichmentOutput.                                               *)

CoordinateIssues(field, value) ==
  CASE value = "out" -> {[field |-> field, severity |-> "critical", about |-> "coordinate"]}
    [] value = "precise" -> {[field |-> field, severity |-> "low", about |-> "precision"]}
    [] OTHER -> {}

CurrencyIssues(value) ==
  CASE value \in {"blank", "malformed"} -> {[field |-> "currency", severity |-> "high", about |-> "currency"]}
    [] value = "unknown" -> {[field |-> "currency", severity |-> "medium", about |-> "currency"]}
    [] OTHER -> {}

NameIssues(value) ==
  IF value = "blank" THEN {[field |-> "name", severity |-> "high", about |-> "name"]} ELSE {}

Issues(e) ==
  CoordinateIssues("latitude", e.latitude) \union CoordinateIssues("longitude", e.longitude)
    \union CurrencyIssues(e.currency) \union NameIssues(e.name)

Severe(issues) == {i \in issues : i.severity \in {"critical", "high"}}

Penalty(issues) ==
  LET Count(severity) == Cardinality({i \in issues : i.severity = severity})
      total == Count("low") + 2 * Count("medium") + 3 * Count("high") + 4 * Count("critical")
  IN IF total > 10 THEN 10 ELSE total

-----------------------------------------------------------------------------
(* calculateConfidence.                                                    *)

\* The mapped fields, and those of them the enrichment has.
Mapped(mapping, f) == mapping[f] # NoColumn
Expected(mapping) ==
  {f \in {"assetNameColumn", "valueColumn", "currencyColumn", "jurisdictionColumn"} : Mapped(mapping, f)}
    \union (IF Mapped(mapping, "latitudeColumn") /\ Mapped(mapping, "longitudeColumn")
            THEN {"coordinates"} ELSE {})
Has(e, f) ==
  CASE f = "assetNameColumn" -> Truthy(e.name)
    [] f \in {"valueColumn", "currencyColumn"} -> Truthy(e.currency)
    [] f = "jurisdictionColumn" -> Truthy(e.jurisdiction)
    [] f = "coordinates" -> ~ Absent(e.latitude) /\ ~ Absent(e.longitude)

ExactColumnMappingScore(e, mapping) ==
  LET total == Cardinality(Expected(mapping))
      found == Cardinality({f \in Expected(mapping) : Has(e, f)}) IN
  CASE total = 0 -> 0
    [] total > 0 /\ 10 * found >= 8 * total -> 3
    [] total > 0 /\ 10 * found < 8 * total /\ 2 * found >= total -> 1
    [] OTHER -> 0

DeterministicScore(e) == IF e.exactValueMatch THEN 2 ELSE 0
InferenceScore(e) == IF e.mostlyInferred THEN -2 ELSE 0
ReviewScore(e) == IF e.needsReview THEN -3 ELSE 0

\* A null counts as a value here.
MissingFieldScore(e, mapping) ==
  IF \/ Mapped(mapping, "assetNameColumn") /\ Absent(e.name)
     \/ Mapped(mapping, "currencyColumn") /\ Absent(e.currency)
     \/ Mapped(mapping, "jurisdictionColumn") /\ Absent(e.jurisdiction)
     \/ e.fieldMissing
  THEN -3 ELSE 0

Signals(e, mapping) ==
  5 + ExactColumnMappingScore(e, mapping) + DeterministicScore(e) + InferenceScore(e)
    - Penalty(Issues(e))

Clamped(score) == IF score < 0 THEN 0 ELSE IF score > 10 THEN 10 ELSE score

\* Mutant of Confidence: the score is not limited to 0 .. 10.
ConfidenceUnlimited(e, mapping) ==
  Signals(e, mapping) + MissingFieldScore(e, mapping) + ReviewScore(e)

\* Mutant of Confidence: the negative scores are subtracted.
ConfidenceSubtracting(e, mapping) ==
  Clamped(Signals(e, mapping) - MissingFieldScore(e, mapping) - ReviewScore(e))

Confidence(e, mapping) ==
  Clamped(Signals(e, mapping) + MissingFieldScore(e, mapping) + ReviewScore(e))

LowConfidence(confidence) == 100 * confidence < 650  \* CONFIDENCE_THRESHOLD is 0.65

-----------------------------------------------------------------------------
(* shouldEscalate.  No enrichment has two 'llm_inference_required' factors.*)

\* Mutant of ShouldEscalate: an unknown currency alone is no reason.
ShouldEscalateSevere(issues, confidence) ==
  \/ LowConfidence(confidence)
  \/ Severe(issues) # {}
  \/ Cardinality(issues) >= 2

ShouldEscalate(issues, confidence) ==
  \/ LowConfidence(confidence)
  \/ Severe(issues) # {}
  \/ Cardinality(issues) >= 2
  \/ \E i \in issues : i.about \in {"coordinate", "currency"}
=============================================================================
