CONSTANTS
  a1 = a1
  a2 = a2
  m1 = m1
  m2 = m2
  ip1 = ip1
  Agents = {a1}
  Macs = {m1, m2}
  MacOf <- SingleMacOf
  IPs = {ip1}
  MaxDevices = 4
  Timeout = 0
  MaxFaults = 1
  None = None
SPECIFICATION Spec
INVARIANTS
  TypeOK
  AgentsOwnTheirDevice
  AgentlessUnique
PROPERTY ImplementsInventory
