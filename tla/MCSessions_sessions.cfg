SPECIFICATION FairSpec
CONSTANTS
  MaxSessions = 2
  Local = {l1}
  NoSession = NoSession
  Text = {t1}
  New = New
  PageSize = 1
  MaxShown = 3
  Save = {u1}
  Fetch = {g1}
INVARIANTS
  TypeOK
  NamesAreTheirOwn
PROPERTIES
  StoreConverges
CHECK_DEADLOCK FALSE
