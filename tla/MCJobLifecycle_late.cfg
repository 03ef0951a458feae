SPECIFICATION Spec
CONSTANTS
  j1 = j1
  j2 = j2
  r1 = r1
  r2 = r2
  NoDoc = NoDoc
  Job = {j1, j2}
  Request = {r1, r2}
  FilesOf <- TwoRequests
  Acceptable = {j1, j2}
  Tabular = {j1}
  Attempts = 2
  Concurrency = 2
  MaxStalled = 1
  MaxCrashes = 2
  Unanswered = {}
  MaxDeletes = 1
  PromptListeners = FALSE
INVARIANTS
  OneStrayPerAttempt
  HandedOverOncePerAttempt
  ExtractsUnderLinkedDocument
CHECK_DEADLOCK FALSE
