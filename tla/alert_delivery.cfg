CONSTANTS
  s1 = s1
  s2 = s2
  Sockets = {s1, s2}
  MaxAlerts = 2
  OneProcess = TRUE
SPECIFICATION FairSpec
INVARIANTS
  ReceivedOnce
PROPERTIES
  ImplementsFeed
  AlertReachesClients
  CountConverges
CHECK_DEADLOCK FALSE
