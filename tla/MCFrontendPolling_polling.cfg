SPECIFICATION FairSpec
CONSTANTS
  Job = {j1}
  Tabular = {}
  NoMount = NoMount
  Mount = {m1, m2}
  MaxFlight = 2
  MaxHanded = 0
INVARIANTS
  TypeOK
  CompletedIsTrue
PROPERTIES
  JobsAreKept
  RestIsShown
  PollingStops
CHECK_DEADLOCK FALSE
