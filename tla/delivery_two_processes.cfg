CONSTANTS
  s1 = s1
  s2 = s2
  Sockets = {s1, s2}
  MaxAlerts = 1
  OneProcess = FALSE
SPECIFICATION FairSpec
PROPERTY AlertReachesClients
CHECK_DEADLOCK FALSE
