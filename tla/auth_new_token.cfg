CONSTANTS
  ana = ana
  ben = ben
  eva = eva
  Users = {ana, ben, eva}
  MaxRequests = 3
  MaxOpen = 2
  MaxTime = 6
  TicksPerSecond = 3
  SecondsPerStep = 1
  CodesPerBatch = 1
  MaxAttempts = 1
SPECIFICATION Spec
SYMMETRY Names
INVARIANTS
  NewTokenAccepted
CHECK_DEADLOCK FALSE
