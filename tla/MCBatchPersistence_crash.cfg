SPECIFICATION FairSpec
CONSTANTS
  i1 = i1
  i2 = i2
  i3 = i3
  d1 = d1
  d2 = d2
  NoInstance = NoInstance
  Document = {d1, d2}
  Instance = {i1, i2, i3}
  DocumentOf <- ThreeAttempts
  Streaming = {}
  BatchesOf <- TwoOfThree
  MaxConcurrency = 2
  MaxQueueSize = 2
  MaxCrashes = 2
  MaxStalled = 1
INVARIANTS
  IInv
  SavedOncePerDelivery
PROPERTIES
  ImplementsDelivery
  OrphanRecovered
CHECK_DEADLOCK FALSE
