CONSTANTS
  h1 = h1
  Hosts = {h1}
  MaxFiles = 2
  MaxProbes = 1
  MaxFaults = 1
SPECIFICATION FairSpec
INVARIANTS
  IspKept
  MixedOnlyIfOverlap
  SnapshotsComplete
PROPERTIES
  BackOnlyIfOverlap
  PipelinesEnd
CHECK_DEADLOCK FALSE
