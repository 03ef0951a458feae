----------------------------- MODULE MCEnrichment -----------------------------
EXTENDS Enrichment

MCName == {"asset_name", "asset_type", "asset_value", "currency", "jurisdiction", "latitude",
           "longitude", "currencyColumn", "jurisdictionColumn", "assetTypeColumn",
           "latitudeColumn", "longitudeColumn"}
MCWordsIn ==
  [asset_name |-> {"asset", "name"}, asset_type |-> {"asset", "type"},
   asset_value |-> {"asset", "value"}, currency |-> {"currency", "curr"},
   jurisdiction |-> {"jurisdiction"}, latitude |-> {"lat", "latitude"},
   longitude |-> {"lon", "longitude"}, currencyColumn |-> {"currency", "curr"},
   jurisdictionColumn |-> {"jurisdiction"}, assetTypeColumn |-> {"asset", "type"},
   latitudeColumn |-> {"lat", "latitude"}, longitudeColumn |-> {"lon", "longitude"}]

Values(name) ==
  CASE name = "currency" -> {"null", "code", "text"}
    [] name \in {"lat", "latitude", "latitudeColumn"} -> {"zero", "far"}
    [] name \in {"lng", "longitude", "longitudeColumn"} -> {"number"}
    [] name = "name" -> {"null", "text"}
    [] OTHER -> {"text"}

Headers ==
  {<<"name", "currency">>,
   <<"type", "jurisdictionColumn", "currency">>,
   <<"asset_name", "name", "currencyColumn", "currency", "lat", "lng">>,
   <<"assetTypeColumn", "country", "currency", "latitude", "longitude">>,
   <<"latitudeColumn", "longitudeColumn", "latitude", "longitude">>}

RowsOf(columns) ==
  {row \in [DOMAIN columns -> Kinds] : \A n \in DOMAIN columns : row[n] \in Values(columns[n])}
MCFiles ==
  UNION {{[columns |-> columns, rows |-> rows] : rows \in [1 .. 2 -> RowsOf(columns)]} : columns \in Headers}

MappingOf(chosen) ==
  [f \in Field |-> IF f \in DOMAIN chosen THEN chosen[f] ELSE NoColumn]
MCAnswers ==
  {MappingOf([currencyColumn |-> "currencyColumn", assetNameColumn |-> "asset_name"]),
   MappingOf([currencyColumn |-> "currency", jurisdictionColumn |-> "jurisdiction"]),
   MappingOf([latitudeColumn |-> "latitudeColumn", longitudeColumn |-> "longitudeColumn"])}

Good == [name |-> "given", currency |-> "valid", jurisdiction |-> "given", latitude |-> "ok",
         longitude |-> "ok", mostlyInferred |-> FALSE, exactValueMatch |-> TRUE,
         fieldMissing |-> FALSE, needsReview |-> FALSE]
MCOutputs ==
  {Good, [Good EXCEPT !.currency = "unknown"], [Good EXCEPT !.latitude = "precise"],
   [Good EXCEPT !.name = "null", !.longitude = "out", !.mostlyInferred = TRUE],
   [Good EXCEPT !.needsReview = TRUE]}
=============================================================================
