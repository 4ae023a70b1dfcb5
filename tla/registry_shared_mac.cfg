CONSTANTS
  a1 = a1
  a2 = a2
  m1 = m1
  m2 = m2
  ip1 = ip1
  Agents = {a1, a2}
  Macs = {m1}
  MacOf <- SharedMacOf
  IPs = {ip1}
  MaxDevices = 3
  Timeout = 0
  MaxFaults = 0
  None = None
SPECIFICATION Spec
INVARIANTS
  AtMostTwoRowsPerMac
  ActiveAgentNotDisconnected
  DeadlockNeedsSharedDevice
