CONSTANTS
  ana = ana
  ben = ben
  eva = eva
  Users = {ana, ben, eva}
  MaxRequests = 4
  MaxOpen = 3
  MaxTime = 6
  TicksPerSecond = 3
  SecondsPerStep = 1
  CodesPerBatch = 1
  MaxAttempts = 1
SPECIFICATION Spec
SYMMETRY Names
INVARIANTS
  InvitationMakesOneUser
  UsedOnceUnlessOverlap
  OldSessionsEnd
CHECK_DEADLOCK FALSE
