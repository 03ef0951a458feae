--------------------------- MODULE SchemaInference ---------------------------
(***************************************************************************)
(* Which column of a file holds which field, and which rows the file's     *)
(* schema sends to the LLM: the pure parts of                              *)
(* services/llmService/schema-inference.service.ts, helpers/batch.helper.ts*)
(* and helpers/deterministic.helpers.ts (src/backend/src).                 *)
(*                                                                         *)
(* Of a column's name only the keywords it contains matter (WordsIn), of a *)
(* value only its kind, where "null" also stands for an absent value.  The *)
(* roles, confidences and notes of a schema are left out: no step reads    *)
(* them.                                                                   *)
(***************************************************************************)
EXTENDS AssetMapping

CONSTANTS
  Name,     \* the names of columns
  NoColumn, \* "no column is mapped to this field"
  WordsIn   \* per name: the keywords it contains

ASSUME NameAssumption ==
  /\ NoColumn \notin Name
  /\ \A name \in Name : WordsIn[name] \subseteq STRING

\* columnKeywords, in the order in which its fields are tried, with the role that
\* buildSchemaMap gives to the field's column.
Fields ==
  <<[field |-> "assetNameColumn", role |-> "assetName",
     words |-> {"asset", "name", "property", "building", "facility", "site", "location"}],
    [field |-> "valueColumn", role |-> "value",
     words |-> {"value", "amount", "price", "valuation", "cost", "total", "market"}],
    [field |-> "currencyColumn", role |-> "currency", words |-> {"currency", "curr"}],
    [field |-> "jurisdictionColumn", role |-> "jurisdiction",
     words |-> {"jurisdiction", "location", "country", "state", "province", "region", "city", "address"}],
    [field |-> "latitudeColumn", role |-> "latitude", words |-> {"lat", "latitude"}],
    [field |-> "longitudeColumn", role |-> "longitude", words |-> {"lng", "lon", "longitude"}],
    [field |-> "assetTypeColumn", role |-> "assetType",
     words |-> {"type", "category", "classification", "kind"}]>>

Field == {Fields[n].field : n \in DOMAIN Fields}
Mapping == [Field -> Name \union {NoColumn}]

Contains(name, words) == WordsIn[name] \intersect words # {}

-----------------------------------------------------------------------------
(* deterministicColumnProfile: what the values of a column tell.           *)

IsEmpty(kinds) == kinds \subseteq {"null"}
IsNumber(kinds) == ~ IsEmpty(kinds) /\ kinds \subseteq Numbers \union {"null"}
IsCoordinate(name, kinds) == IsNumber(kinds) /\ Contains(name, {"lat", "y", "lng", "lon", "x"})
IsCurrency(name, kinds) == Contains(name, {"currency", "curr"}) \/ "code" \in kinds

\* The columns the profile does not decide.
Plain(columns, sample) ==
  {c \in DOMAIN columns : /\ ~ IsEmpty(sample[columns[c]])
                          /\ ~ IsCoordinate(columns[c], sample[columns[c]])
                          /\ ~ IsCurrency(columns[c], sample[columns[c]])}

\* The first field with a keyword in the name, as its place in Fields; 0 if there is none.
FirstOf(numbers) == IF numbers = {} THEN 0 ELSE CHOOSE n \in numbers : \A m \in numbers : n <= m
FieldFor(name) == FirstOf({n \in DOMAIN Fields : Contains(name, Fields[n].words)})

MappedTo(columns, chosen) ==
  IF chosen = {} THEN NoColumn ELSE columns[FirstOf(chosen)]

\* Mutant of ManualMapping: the fields after the first match are tried too.
ManualMappingOfEach(columns, sample) ==
  [f \in Field |->
     LET n == CHOOSE m \in DOMAIN Fields : Fields[m].field = f IN
     MappedTo(columns, {c \in Plain(columns, sample) : Contains(columns[c], Fields[n].words)})]

\* createManualSchema: every field gets the first plain column it is the field for.
ManualMapping(columns, sample) ==
  [f \in Field |->
     MappedTo(columns, {c \in Plain(columns, sample) :
                          FieldFor(columns[c]) # 0 /\ Fields[FieldFor(columns[c])].field = f})]

-----------------------------------------------------------------------------
(* inferInitialSchema: the rows it shows to the inference.                 *)

\* detectDataStartRow: the first row with two values or more.
DataStart(rows) ==
  LET full == {n \in DOMAIN rows : Cardinality({c \in DOMAIN rows[n] : rows[n][c] # "null"}) >= 2}
  IN IF full = {} THEN 1 ELSE FirstOf(full)

\* The kinds of values per column of the rows from the given one on.
SampleFrom(start, rows, columns) ==
  [c \in {columns[n] : n \in DOMAIN columns} |-> {rows[n][c] : n \in start .. Len(rows)}]

-----------------------------------------------------------------------------
(* BatchHelper.processRow: is a row deterministic or ambiguous?            *)

\* The value of a row under a name; of a column the row does not have, none.
Cell(row, name) == IF name \in DOMAIN row THEN row[name] ELSE "null"

\* buildSchemaMap: from the column to its role; of two fields with the same column
\* the later one counts.
SchemaMap(mapping) ==
  [c \in {mapping[f] : f \in Field} \ {NoColumn} |->
     LET n == CHOOSE m \in DOMAIN Fields :
                /\ mapping[Fields[m].field] = c
                /\ \A k \in DOMAIN Fields : mapping[Fields[k].field] = c => k <= m
     IN Fields[n].role]

\* detectAmbiguity: it takes the map for one from field names to columns, so that it
\* looks for columns of these names and at the values under their roles.
DetectAmbiguity(row, map) ==
  LET Has(field) == field \in DOMAIN map
      Value(field) == Cell(row, map[field]) IN
  \/ Has("currencyColumn") /\ Value("currencyColumn") \notin {"code", "minorCode"}
  \/ Has("jurisdictionColumn") /\ Value("jurisdictionColumn") = "null"
  \/ Has("assetTypeColumn") /\ Value("assetTypeColumn") = "null"
  \/ /\ Has("latitudeColumn") /\ Has("longitudeColumn")
     /\ Value("latitudeColumn") = "far" \/ Value("longitudeColumn") = "far"

IsAmbiguous(row, mapping) == DetectAmbiguity(row, SchemaMap(mapping))
=============================================================================
