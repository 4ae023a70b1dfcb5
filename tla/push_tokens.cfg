CONSTANTS
  p1 = p1
  u1 = u1
  u2 = u2
  NoOne = NoOne
  Phones = {p1}
  Users = {u1, u2}
  NoUser = NoOne
  MaxTokens = 2
  MaxRequests = 3
SPECIFICATION FairSpec
INVARIANTS
  OneRowUnlessCrossed
  QuietAfterLogout
PROPERTIES
  LiveTokenKept
  StaleRowsGo
CHECK_DEADLOCK FALSE
