CONSTANTS
  c1 = c1
  c2 = c2
  Clients = {c1, c2}
  MaxPackets = 4
  MaxSecond = 3
  MaxFaults = 1
  None = None
SPECIFICATION FairSpec
INVARIANTS
  HandedInOrder
  RecordsWhole
  NoPacketLost
  EveryFileHanded
PROPERTIES
  HandedIsFinal
  LockIsReleased
CHECK_DEADLOCK FALSE
