SPECIFICATION FairSpec
CONSTANTS
  RowCount = 6
  DETERMINISTIC_BATCH_SIZE = 2
  AMBIGUOUS_BATCH_SIZE = 1
INVARIANTS
  EachRowOnce
  LossIsBounded
PROPERTIES
  ExtractionEnds
  ImplementsExtraction
CHECK_DEADLOCK FALSE
