----------------------------- MODULE AssetMapping -----------------------------
(***************************************************************************)
(* From the cells of a file's row to the record the rest of the extraction *)
(* works on: RowValidationHelper.parseRow and AssetMappingHelper.mapRow    *)
(* (helpers/row-validation.helper.ts, helpers/asset-mapping.helper.ts,     *)
(* under src/backend/src).                                                 *)
(*                                                                         *)
(* Of a cell only its kind matters: "code" is a currency code of the short *)
(* lists of codes, "minorCode" one that only the long list has, "zero" and *)
(* "number" and "far" are what parseFloat reads as 0, as a coordinate and  *)
(* as a number that is none, "null" is an empty cell or one of spaces.     *)
(***************************************************************************)
EXTENDS InOrder

Kinds == {"null", "code", "minorCode", "text", "zero", "number", "far"}
Numbers == {"zero", "number", "far"}

FieldMapping ==
  [name |-> "asset_name", assetname |-> "asset_name", value |-> "asset_value",
   assetvalue |-> "asset_value", type |-> "asset_type", assettype |-> "asset_type",
   address |-> "location", country |-> "jurisdiction", lat |-> "latitude",
   lng |-> "longitude", lon |-> "longitude", notes |-> "description"]

MappedName(column) == IF column \in DOMAIN FieldMapping THEN FieldMapping[column] ELSE column

NormalizeValue(name, value) ==
  IF name \in {"latitude", "longitude", "asset_value", "capacity"} /\ value \notin Numbers
  THEN "null" ELSE value

\* The columns of the mapped rows: each name at the place of its first column.
MapColumns(columns) ==
  LET firsts == InOrder({n \in DOMAIN columns :
                           \A m \in 1 .. n - 1 : MappedName(columns[m]) # MappedName(columns[n])})
  IN [k \in DOMAIN firsts |-> MappedName(columns[firsts[k]])]

\* Of several columns with one name the last one's value is kept, empty or not.
MapRow(columns, values) ==
  [name \in {MappedName(columns[n]) : n \in DOMAIN columns} |->
     LET last == CHOOSE n \in DOMAIN columns :
                   /\ MappedName(columns[n]) = name
                   /\ \A m \in DOMAIN columns : MappedName(columns[m]) = name => m <= n
     IN NormalizeValue(name, values[last])]

\* validateRow: a row without a value is rejected.
IsValid(values) == \E n \in DOMAIN values : values[n] # "null"

\* A file as the rest of the extraction sees it: its valid rows, mapped.
MapFile(file) ==
  LET valid == InOrder({n \in DOMAIN file.rows : IsValid(file.rows[n])}) IN
  [columns |-> MapColumns(file.columns),
   rows |-> [k \in DOMAIN valid |-> MapRow(file.columns, file.rows[valid[k]])]]
=============================================================================
