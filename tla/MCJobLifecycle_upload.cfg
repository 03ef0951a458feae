SPECIFICATION FairSpec
CONSTANTS
  j1 = j1
  j2 = j2
  r1 = r1
  r2 = r2
  NoDoc = NoDoc
  Job = {j1, j2}
  Request = {r1}
  FilesOf <- TwoFiles
  Acceptable = {j1, j2}
  Tabular = {j1}
  Attempts = 3
  Concurrency = 1
  MaxStalled = 1
  MaxCrashes = 1
  Unanswered = {r1}
  MaxDeletes = 0
  PromptListeners = TRUE
INVARIANTS
  TypeOK
  RestingStatusIsTruthful
  DispatchedInOrder
PROPERTIES
  ImplementsJobStatus
  JobSettles
CHECK_DEADLOCK FALSE
