SPECIFICATION Spec
CONSTANTS
  RowCount = 4
  DETERMINISTIC_BATCH_SIZE = 2
  AMBIGUOUS_BATCH_SIZE = 2
INVARIANTS
  EveryRowHandedOver
CHECK_DEADLOCK FALSE
