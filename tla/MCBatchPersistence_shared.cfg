SPECIFICATION FairSpec
CONSTANTS
  i1 = i1
  i2 = i2
  i3 = i3
  d1 = d1
  d2 = d2
  NoInstance = NoInstance
  Document = {d1, d2}
  Instance = {i1, i2}
  DocumentOf <- TwoFiles
  Streaming = {i1}
  BatchesOf <- TwoAndOne
  MaxConcurrency = 1
  MaxQueueSize = 1
  MaxCrashes = 0
  MaxStalled = 1
INVARIANTS
  RowsKeepTheirDocument
  NoLeftoverAfterDrain
  CountersCoverUnfinished
PROPERTIES
  CallsReturn
CHECK_DEADLOCK FALSE
