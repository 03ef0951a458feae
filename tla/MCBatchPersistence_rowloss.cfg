SPECIFICATION Spec
CONSTANTS
  i1 = i1
  i2 = i2
  i3 = i3
  d1 = d1
  d2 = d2
  NoInstance = NoInstance
  Document = {d1, d2}
  Instance = {i1}
  DocumentOf <- OneFile
  Streaming = {}
  BatchesOf <- TwoBatches
  MaxConcurrency = 1
  MaxQueueSize = 2
  MaxCrashes = 0
  MaxStalled = 1
INVARIANT
  NoRowLoss
CHECK_DEADLOCK FALSE
