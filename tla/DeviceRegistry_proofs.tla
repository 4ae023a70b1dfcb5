----------------------- MODULE DeviceRegistry_proofs -----------------------
(***************************************************************************)
(* Theorems about DeviceRegistry for every set of agents, MACs and         *)
(* addresses, every timeout and every bound.  RegistryInv is inductive:    *)
(* one lemma per group of actions, one step per conjunct; RowsInv,         *)
(* StatusInv and LockOrderInv, for the races of its threads and their row  *)
(* locks, are inductive relative to it.                                    *)
(***************************************************************************)
EXTENDS DeviceRegistry, FiniteSetTheorems, TLAPS

\* The shapes of the rows the transactions write.
LEMMA UdpTxnType ==
  ASSUME NEW pc \in UdpPc, NEW a \in Agents \cup {None}, NEW d \in 0..MaxDevices,
         NEW row \in DeviceRow \cup {None}, NEW status \in AgentStatus,
         NEW ip \in IPs \cup {None}
  PROVE  UdpTxn(pc, a, d, row, status, ip) \in UdpState
BY BoundsAssumption DEF UdpTxn, UdpState, Ages

\* The same for the record of the ARP scanner.
LEMMA ArpTxnType ==
  ASSUME NEW pc \in ArpPc, NEW todo \in SUBSET Macs, NEW seen \in SUBSET Macs,
         NEW m \in Macs \cup {None}, NEW d \in 0..MaxDevices,
         NEW row \in DeviceRow \cup {None}, NEW ip \in IPs \cup {None},
         NEW stale \in SUBSET DeviceIds
  PROVE  ArpTxn(pc, todo, seen, m, d, row, ip, stale) \in ArpState
BY DEF ArpTxn, ArpState

\* The literals the code writes in the status columns and program counters.
LEMMA Literals ==
  /\ "active" \in AgentStatus /\ 0 \in 0..MaxDevices /\ DeviceIds \subseteq 0..MaxDevices
  /\ {"idle", "dead", "save", "heartbeat", "metrics", "register",
      "heartbeatFlushed", "metricsFlushed"} \subseteq UdpPc
BY BoundsAssumption DEF AgentStatus, UdpPc, DeviceIds

\* The threads between two transactions.
LEMMA IdleTypes == UdpIdle \in UdpState /\ CheckerIdle \in CheckerState /\ ArpIdle \in ArpState
<1>1. UdpIdle \in UdpState
  BY UdpTxnType, Literals DEF UdpIdle
<1>2. ArpIdle \in ArpState
  BY ArpTxnType, BoundsAssumption DEF ArpIdle, ArpPc
<1>3. CheckerIdle \in CheckerState
  BY DEF CheckerIdle, CheckerState, DeviceStatus
<1>. QED
  BY <1>1, <1>2, <1>3

\* What a look-up by MAC returns.
LEMMA FirstByMacType ==
  ASSUME TypeOK, NEW m \in Macs, NEW found \in FirstByMac(m)
  PROVE  /\ found.id \in 0..MaxDevices /\ found.row \in DeviceRow \cup {None}
         /\ found.id # 0 => found.id \in RowsOfMac(m) /\ found.row \in DeviceRow
         /\ found.id = 0 => RowsOfMac(m) = {}
<1>1. \A d \in RowsOfMac(m) : d \in 1..MaxDevices /\ devices[d] \in DeviceRow
  BY DEF RowsOfMac, TypeOK, DeviceIds
<1>2. CASE RowsOfMac(m) = {}
  BY <1>2, BoundsAssumption DEF FirstByMac
<1>3. CASE RowsOfMac(m) # {}
  BY <1>1, <1>3, BoundsAssumption DEF FirstByMac
<1>. QED
  BY <1>2, <1>3

\* A fresh key is above every key in use.
LEMMA NewIdIsFresh ==
  ASSUME NEW d \in DeviceIds, NewId(d), DOMAIN devices \subseteq DeviceIds
  PROVE  d \notin DOMAIN devices
BY DEF NewId, FreeIds, DeviceIds

\* Empty tables and idle threads satisfy the inductive invariant.
THEOREM InitRegistryInv == Init => RegistryInv
<1>. SUFFICES ASSUME Init PROVE RegistryInv
  OBVIOUS
<1>1. TypeOK
  BY IdleTypes, BoundsAssumption DEF Init, TypeOK
<1>2. AgentsOwnTheirDevice /\ AgentlessUnique /\ AgentlessNeverDisconnected
  BY DEF Init, AgentsOwnTheirDevice, AgentlessUnique, AgentlessNeverDisconnected
<1>3. UdpInv /\ CheckerInv /\ ArpInv
  BY DEF Init, UdpInv, CheckerInv, ArpInv, UdpIdle, UdpTxn, CheckerIdle,
         ArpIdle, ArpTxn
<1>. QED
  BY <1>1, <1>2, <1>3 DEF RegistryInv

\* Steps of the UDP thread that only load rows or take a lock.
LEMMA UdpLoads ==
  ASSUME RegistryInv,
         \/ \E a \in Agents : HeartbeatLoad(a)
         \/ \E a \in Agents, ip \in IPs : MetricsLoad(a, ip) \/ RegisterLookup(a, ip)
         \/ UdpFlush
         \/ UdpFail
         \/ BreakCycle /\ UNCHANGED chk
  PROVE  RegistryInv'
<1>1. UNCHANGED <<devices, agents, metricRows, up, chk, arp>>
  BY DEF HeartbeatLoad, MetricsLoad, RegisterLookup, UdpFlush, UdpFail, BreakCycle
<1>2. udp' \in UdpState /\ UdpInv'
  <2>1. ASSUME NEW a \in Agents, HeartbeatLoad(a)
        PROVE  udp' \in UdpState /\ UdpInv'
    <3>1. agents[a].status \in AgentStatus
      BY <2>1 DEF HeartbeatLoad, RegistryInv, TypeOK, AgentRow
    <3>2. udp' \in UdpState
      BY <2>1, <3>1, UdpTxnType, Literals DEF HeartbeatLoad
    <3>. QED
      BY <2>1, <1>1, <3>2 DEF HeartbeatLoad, UdpInv, UdpTxn
  <2>2. ASSUME NEW a \in Agents, NEW ip \in IPs, MetricsLoad(a, ip)
        PROVE  udp' \in UdpState /\ UdpInv'
    <3>1. udp' \in UdpState
      BY <2>2, UdpTxnType, Literals DEF MetricsLoad
    <3>. QED
      BY <2>2, <1>1, <3>1 DEF MetricsLoad, UdpInv, UdpTxn
  <2>3. ASSUME NEW a \in Agents, NEW ip \in IPs, RegisterLookup(a, ip)
        PROVE  udp' \in UdpState /\ UdpInv'
    <3>1. PICK found \in FirstByMac(MacOf[a]) :
            udp' = UdpTxn("register", a, found.id, found.row, "active", ip)
      BY <2>3 DEF RegisterLookup
    <3>2. MacOf[a] \in Macs /\ TypeOK
      BY MacOfAssumption DEF RegistryInv
    <3>3. udp' \in UdpState
      BY <3>1, <3>2, FirstByMacType, UdpTxnType, Literals
    <3>. QED
      BY <2>3, <1>1, <3>1, <3>2, <3>3, FirstByMacType
      DEF RegisterLookup, UdpInv, UdpTxn, RowsOfMac
  <2>4. CASE UdpFlush
    <3>. DEFINE flushed == IF udp.pc = "heartbeat" THEN "heartbeatFlushed" ELSE "metricsFlushed"
    <3>1. udp.agent \in DOMAIN agents /\ udp \in UdpState
      BY <2>4 DEF UdpFlush, RegistryInv, UdpInv, TypeOK
    <3>2. PICK d \in DeviceIds : d = agents[udp.agent].device /\ devices[d] \in DeviceRow
      BY <3>1 DEF RegistryInv, AgentsOwnTheirDevice, TypeOK
    <3>3. udp' = [udp EXCEPT !.pc = flushed, !.dev = d, !.row = devices[d]]
      BY <2>4, <3>2 DEF UdpFlush
    <3>4. udp' \in UdpState
      <4>1. flushed \in UdpPc /\ d \in 0..MaxDevices
        BY <3>2, Literals
      <4>. HIDE DEF flushed
      <4>. QED
        BY <3>1, <3>2, <3>3, <4>1 DEF UdpState
    <3>5. udp'.agent = udp.agent /\ udp'.ip = udp.ip /\ udp'.dev = d
          /\ udp'.row = devices[d] /\ udp'.pc = flushed
      BY <3>1, <3>3 DEF UdpState
    <3>. QED
      BY <2>4, <1>1, <3>1, <3>2, <3>4, <3>5 DEF UdpFlush, UdpInv, RegistryInv
  <2>5. CASE UdpAbort
    <3>1. UdpDead \in UdpState
      BY UdpTxnType, Literals DEF UdpDead
    <3>. QED
      BY <2>5, <1>1, <3>1, IdleTypes DEF UdpAbort, UdpInv, UdpDead, UdpIdle, UdpTxn
  <2>6. CASE UNCHANGED udp
    BY <2>6, <1>1 DEF RegistryInv, TypeOK, UdpInv
  <2>. QED
    BY <2>1, <2>2, <2>3, <2>4, <2>5, <2>6 DEF UdpFail, BreakCycle
<1>3. faults' \in 0..MaxFaults
  BY BoundsAssumption
  DEF HeartbeatLoad, MetricsLoad, RegisterLookup, UdpFlush, UdpFail, BreakCycle, RegistryInv,
      TypeOK
<1>. QED
  BY <1>1, <1>2, <1>3
  DEF RegistryInv, TypeOK, AgentsOwnTheirDevice, AgentlessUnique, AgentlessNeverDisconnected,
      CheckerInv, ArpInv, RowsOfMac

\* A step that keeps the rows, their MACs and owners keeps everything that is
\* about identity; it may change status, addresses and ages.
LEMMA IdentityKept ==
  ASSUME RegistryInv,
         agents' \in [DOMAIN agents -> AgentRow], devices' \in [DOMAIN devices -> DeviceRow],
         \A a \in DOMAIN agents : agents'[a].device = agents[a].device,
         \A d \in DOMAIN devices :
           /\ devices'[d].mac = devices[d].mac /\ devices'[d].hasAgent = devices[d].hasAgent
           /\ devices'[d].status = "disconnected" =>
                devices[d].status = "disconnected" \/ devices[d].hasAgent,
         UNCHANGED metricRows
  PROVE  /\ DOMAIN agents' = DOMAIN agents /\ DOMAIN devices' = DOMAIN devices
         /\ AgentsOwnTheirDevice' /\ AgentlessUnique' /\ AgentlessNeverDisconnected'
         /\ UNCHANGED udp => UdpInv'
         /\ UNCHANGED chk => CheckerInv'
         /\ UNCHANGED arp => ArpInv'
<1>1. DOMAIN agents' = DOMAIN agents /\ DOMAIN devices' = DOMAIN devices
  OBVIOUS
<1>2. AgentsOwnTheirDevice'
  BY <1>1 DEF RegistryInv, AgentsOwnTheirDevice
<1>3. AgentlessUnique' /\ AgentlessNeverDisconnected'
  BY <1>1 DEF RegistryInv, AgentlessUnique, AgentlessNeverDisconnected
<1>4. UNCHANGED udp => UdpInv'
  BY <1>1 DEF RegistryInv, UdpInv
<1>5. (UNCHANGED chk => CheckerInv') /\ (UNCHANGED arp => ArpInv')
  BY <1>1 DEF RegistryInv, CheckerInv, ArpInv, RowsOfMac
<1>. QED
  BY <1>1, <1>2, <1>3, <1>4, <1>5

\* A heartbeat and the metrics of a known agent touch status, age and address,
\* never who owns which row.
LEMMA UdpTouchCommits ==
  ASSUME RegistryInv, HeartbeatCommit \/ MetricsCommit \/ SaveMetrics
  PROVE  RegistryInv'
<1>1. CASE HeartbeatCommit
  <2>. DEFINE a == udp.agent
              d == udp.dev
  <2>1. a \in DOMAIN agents /\ d = agents[a].device /\ d \in DOMAIN devices /\ udp.age \in Ages
    BY <1>1 DEF HeartbeatCommit, RegistryInv, UdpInv, AgentsOwnTheirDevice, TypeOK, UdpState
  <2>2. /\ agents' \in [DOMAIN agents -> AgentRow]
        /\ \A b \in DOMAIN agents : agents'[b].device = agents[b].device
    BY <1>1, <2>1 DEF HeartbeatCommit, RegistryInv, TypeOK, AgentRow, AgentStatus, Col
  <2>3. /\ devices' \in [DOMAIN devices -> DeviceRow]
        /\ \A e \in DOMAIN devices :
             /\ devices'[e].mac = devices[e].mac
             /\ devices'[e].hasAgent = devices[e].hasAgent
             /\ devices'[e].status = "disconnected" => devices[e].status = "disconnected"
    BY <1>1, <2>1 DEF HeartbeatCommit, RegistryInv, TypeOK, DeviceRow, DeviceStatus, Col
  <2>4. udp' \in UdpState /\ UdpInv'
    BY <1>1, IdleTypes DEF HeartbeatCommit, UdpInv, UdpIdle, UdpTxn
  <2>. HIDE DEF a, d
  <2>. QED
    BY <1>1, <2>2, <2>3, <2>4, IdentityKept DEF HeartbeatCommit, RegistryInv, TypeOK
<1>2. CASE MetricsCommit
  <2>. DEFINE a == udp.agent
              d == udp.dev
  <2>1. /\ a \in DOMAIN agents /\ d = agents[a].device /\ d \in DOMAIN devices /\ udp.age \in Ages
        /\ udp.ip \in IPs /\ devices[d].hasAgent /\ d \in 0..MaxDevices
    BY <1>2, Literals DEF MetricsCommit, RegistryInv, UdpInv, AgentsOwnTheirDevice, TypeOK, UdpState
  <2>2. /\ agents' \in [DOMAIN agents -> AgentRow]
        /\ \A b \in DOMAIN agents : agents'[b].device = agents[b].device
    BY <1>2, <2>1 DEF MetricsCommit, RegistryInv, TypeOK, AgentRow
  <2>3. /\ devices' \in [DOMAIN devices -> DeviceRow]
        /\ \A e \in DOMAIN devices :
             /\ devices'[e].mac = devices[e].mac
             /\ devices'[e].hasAgent = devices[e].hasAgent
             /\ devices'[e].status = devices[e].status
    BY <1>2, <2>1 DEF MetricsCommit, RegistryInv, TypeOK, DeviceRow, Col
  <2>4. udp' \in UdpState /\ UdpInv'
    <3>1. udp' = UdpSave(d)
      BY <1>2 DEF MetricsCommit
    <3>2. UdpSave(d) \in UdpState
      BY <2>1, UdpTxnType, Literals DEF UdpSave
    <3>. QED
      BY <2>1, <2>3, <3>1, <3>2 DEF UdpInv, UdpSave, UdpTxn
  <2>. HIDE DEF a, d
  <2>. QED
    BY <1>2, <2>2, <2>3, <2>4, IdentityKept DEF MetricsCommit, RegistryInv, TypeOK
<1>3. CASE SaveMetrics
  <2>1. udp.dev \in DOMAIN devices /\ devices[udp.dev].hasAgent
    BY <1>3 DEF SaveMetrics, RegistryInv, UdpInv
  <2>2. udp' \in UdpState /\ UdpInv'
    BY <1>3, IdleTypes DEF SaveMetrics, UdpInv, UdpIdle, UdpTxn
  <2>. QED
    BY <1>3, <2>1, <2>2
    DEF SaveMetrics, RegistryInv, TypeOK, AgentsOwnTheirDevice, AgentlessUnique,
        AgentlessNeverDisconnected, CheckerInv, ArpInv, RowsOfMac
<1>. QED
  BY <1>1, <1>2, <1>3

\* Registration binds an unknown agent to a row of its MAC: the row that was
\* looked up, or a new one.
LEMMA UdpRegisters ==
  ASSUME RegistryInv, RegisterUpgrade \/ RegisterInsert
  PROVE  RegistryInv'
<1>. DEFINE a == udp.agent
<1>1. /\ a \in Agents /\ a \notin DOMAIN agents /\ udp.ip \in IPs /\ MacOf[a] \in Macs
      /\ udp.dev \in 0..MaxDevices
  BY MacOfAssumption DEF RegisterUpgrade, RegisterInsert, RegistryInv, UdpInv, TypeOK, UdpState
<1>2. PICK d \in DeviceIds :
        /\ Enrol(a, d) /\ udp' = UdpSave(d)
        /\ devices' \in [DOMAIN devices \cup {d} -> DeviceRow]
        /\ d \in DOMAIN devices => devices[d].mac = MacOf[a]
        /\ devices'[d].mac = MacOf[a] /\ devices'[d].hasAgent
        /\ \A e \in DOMAIN devices \ {d} : devices'[e] = devices[e]
        /\ UNCHANGED <<metricRows, up, chk, arp, faults>>
  <2>1. CASE RegisterUpgrade
    <3>. DEFINE d == udp.dev
    <3>1. d \in DOMAIN devices /\ devices[d].mac = MacOf[a] /\ d \in DeviceIds
      BY <2>1 DEF RegisterUpgrade, RegistryInv, UdpInv, TypeOK
    <3>2. /\ devices' \in [DOMAIN devices -> DeviceRow]
          /\ devices'[d].mac = MacOf[a] /\ devices'[d].hasAgent
          /\ \A e \in DOMAIN devices \ {d} : devices'[e] = devices[e]
      <4>. DEFINE ip == Col(devices[d].ip, udp.row.ip, udp.ip)
                  status == Col(devices[d].status, udp.row.status, "active")
      <4>1. devices \in [DOMAIN devices -> DeviceRow]
        BY DEF RegistryInv, TypeOK
      <4>2. ip \in IPs /\ status \in DeviceStatus
        BY <1>1, <3>1, <4>1 DEF Col, DeviceRow, DeviceStatus
      <4>3. devices' = [devices EXCEPT ![d].ip = ip, ![d].hasAgent = TRUE, ![d].status = status]
        BY <2>1 DEF RegisterUpgrade
      <4>. HIDE DEF d, ip, status
      <4>. QED
        BY <3>1, <4>1, <4>2, <4>3 DEF DeviceRow
    <3>3. DOMAIN devices \cup {d} = DOMAIN devices
      BY <3>1
    <3>. QED
      BY <2>1, <3>1, <3>2, <3>3 DEF RegisterUpgrade
  <2>2. CASE RegisterInsert
    <3>1. PICK d \in DeviceIds :
            /\ NewId(d)
            /\ devices' = WithRow(devices, d,
                 [mac |-> MacOf[a], ip |-> udp.ip, hasAgent |-> TRUE, status |-> "active"])
            /\ Enrol(a, d) /\ udp' = UdpSave(d)
      BY <2>2 DEF RegisterInsert
    <3>2. d \notin DOMAIN devices
      BY <3>1, NewIdIsFresh DEF RegistryInv, TypeOK
    <3>3. [mac |-> MacOf[a], ip |-> udp.ip, hasAgent |-> TRUE, status |-> "active"] \in DeviceRow
      BY <1>1 DEF DeviceRow, DeviceStatus
    <3>. QED
      BY <2>2, <3>1, <3>2, <3>3 DEF RegisterInsert, WithRow, RegistryInv, TypeOK
  <2>. QED
    BY <2>1, <2>2
<1>3. /\ agents' \in [DOMAIN agents \cup {a} -> AgentRow]
      /\ agents'[a].device = d
      /\ \A b \in DOMAIN agents : agents'[b] = agents[b]
  <2>1. [device |-> d, status |-> "active", age |-> 0] \in AgentRow
    BY BoundsAssumption DEF AgentRow, AgentStatus, Ages
  <2>. QED
    BY <1>1, <1>2, <2>1 DEF Enrol, WithRow, RegistryInv, TypeOK
<1>4. udp' \in UdpState
  BY <1>2, UdpTxnType, Literals DEF UdpSave
<1>5. TypeOK'
  BY <1>1, <1>2, <1>3, <1>4 DEF RegistryInv, TypeOK
<1>6. AgentsOwnTheirDevice'
  <2>1. ASSUME NEW b \in DOMAIN agents'
        PROVE  agents'[b].device \in DOMAIN devices' /\ devices'[agents'[b].device].mac = MacOf[b]
    BY <1>2, <1>3 DEF RegistryInv, AgentsOwnTheirDevice
  <2>2. ASSUME NEW e \in DOMAIN devices'
        PROVE  devices'[e].hasAgent <=> \E b \in DOMAIN agents' : agents'[b].device = e
    BY <1>1, <1>2, <1>3 DEF RegistryInv, AgentsOwnTheirDevice
  <2>3. ASSUME NEW e \in metricRows'
        PROVE  e \in DOMAIN devices' /\ devices'[e].hasAgent
    BY <1>2 DEF RegistryInv, AgentsOwnTheirDevice
  <2>. QED
    BY <2>1, <2>2, <2>3 DEF AgentsOwnTheirDevice
<1>7. AgentlessUnique' /\ AgentlessNeverDisconnected'
  BY <1>2 DEF RegistryInv, AgentlessUnique, AgentlessNeverDisconnected
<1>8. UdpInv' /\ CheckerInv'
  BY <1>2, <1>3 DEF RegistryInv, UdpInv, CheckerInv, UdpSave, UdpTxn
<1>9. ArpInv'
  BY <1>2 DEF RegistryInv, ArpInv, RowsOfMac
<1>. QED
  BY <1>5, <1>6, <1>7, <1>8, <1>9 DEF RegistryInv

\* The health checker changes status columns of agents it has loaded and of
\* their devices, which have an agent.
LEMMA CheckerSteps ==
  ASSUME RegistryInv, CheckerStep \/ CheckFail \/ (BreakCycle /\ UNCHANGED udp)
  PROVE  RegistryInv'
<1>1. CASE \/ CheckLoad \/ CheckFail \/ (BreakCycle /\ UNCHANGED udp)
           \/ CheckSendDevices \/ \E a \in Agents : CheckVisitNew(a) \/ CheckVisitSame(a)
  <2>1. UNCHANGED <<devices, agents, metricRows, up, udp, arp>>
        /\ (UNCHANGED faults \/ (faults < MaxFaults /\ faults' = faults + 1))
    BY <1>1 DEF CheckLoad, CheckFail, BreakCycle, CheckSendDevices, CheckVisitNew, CheckVisitSame
  <2>2. chk' \in CheckerState /\ CheckerInv'
    <3>1. CASE CheckLoad
      <4>1. StaleAgents \subseteq Agents /\ StaleAgents \subseteq DOMAIN agents
        BY DEF StaleAgents, RegistryInv, TypeOK
      <4>. QED
        BY <3>1, <2>1, <4>1 DEF CheckLoad, RegistryInv, TypeOK, CheckerState, CheckerInv
    <3>2. CASE chk' = CheckerIdle
      BY <3>2, <2>1, IdleTypes DEF CheckerInv, CheckerIdle
    <3>3. ASSUME NEW a \in Agents, CheckVisitNew(a)
          PROVE  chk' \in CheckerState /\ CheckerInv'
      <4>1. a \in chk.stale /\ chk \in CheckerState /\ a \in DOMAIN agents
        BY <3>3 DEF CheckVisitNew, RegistryInv, TypeOK, CheckerInv
      <4>2. PICK status \in DeviceStatus :
              chk' = [chk EXCEPT !.stale = @ \ {a}, !.visited = @ \cup {a},
                                 !.flushed = chk.visited \cup {a},
                                 !.loaded[a] = status]
        <5>1. devices[agents[a].device].status \in DeviceStatus
          BY <4>1 DEF RegistryInv, TypeOK, AgentsOwnTheirDevice, DeviceRow
        <5>. QED
          BY <3>3, <5>1 DEF CheckVisitNew
      <4>. QED
        BY <2>1, <4>1, <4>2 DEF CheckerState, CheckerInv, RegistryInv
    <3>4. ASSUME NEW a \in Agents, CheckVisitSame(a)
          PROVE  chk' \in CheckerState /\ CheckerInv'
      <4>1. a \in chk.stale /\ chk \in CheckerState /\ a \in DOMAIN agents
        BY <3>4 DEF CheckVisitSame, RegistryInv, TypeOK, CheckerInv
      <4>2. PICK status \in DeviceStatus :
              chk' = [chk EXCEPT !.stale = @ \ {a}, !.visited = @ \cup {a},
                                 !.loaded[a] = status]
        BY <3>4, <4>1 DEF CheckVisitSame, Sharers, CheckerState
      <4>. QED
        BY <2>1, <4>1, <4>2 DEF CheckerState, CheckerInv, RegistryInv
    <3>5. CASE CheckSendDevices
      <4>1. Changed \subseteq DeviceIds
        BY DEF Changed, RegistryInv, CheckerInv, TypeOK, AgentRow
      <4>. QED
        BY <2>1, <3>5, <4>1 DEF CheckSendDevices, CheckerState, CheckerInv, RegistryInv, TypeOK
    <3>. QED
      BY <1>1, <3>1, <3>2, <3>3, <3>4, <3>5, <2>1
      DEF CheckFail, BreakCycle, UdpAbort, UdpIdle, UdpDead, UdpTxn
  <2>. QED
    <3>1. agents' \in [DOMAIN agents -> AgentRow] /\ devices' \in [DOMAIN devices -> DeviceRow]
      BY <2>1 DEF RegistryInv, TypeOK
    <3>2. AgentsOwnTheirDevice' /\ AgentlessUnique' /\ AgentlessNeverDisconnected'
          /\ UdpInv' /\ ArpInv'
      BY <2>1, <3>1, IdentityKept
    <3>. QED
      BY <2>1, <2>2, <3>2, BoundsAssumption DEF RegistryInv, TypeOK
<1>2. CASE CheckCommit
  <2>1. /\ agents' \in [DOMAIN agents -> AgentRow]
        /\ \A a \in DOMAIN agents : agents'[a].device = agents[a].device
    BY <1>2 DEF CheckCommit, RegistryInv, TypeOK, AgentRow, AgentStatus
  <2>2. /\ \A d \in Changed : devices[d].hasAgent
        /\ devices' = [d \in DOMAIN devices |->
             IF d \in Changed THEN [devices[d] EXCEPT !.status = "disconnected"]
             ELSE devices[d]]
    <3>1. \A d \in Changed : d \in DOMAIN devices /\ devices[d].hasAgent
      BY DEF Changed, RegistryInv, CheckerInv, AgentsOwnTheirDevice
    <3>. QED
      BY <1>2, <3>1 DEF CheckCommit
  <2>3. /\ devices' \in [DOMAIN devices -> DeviceRow]
        /\ \A d \in DOMAIN devices :
             /\ devices'[d].mac = devices[d].mac /\ devices'[d].hasAgent = devices[d].hasAgent
             /\ devices'[d].status = "disconnected" =>
                  devices[d].status = "disconnected" \/ devices[d].hasAgent
    BY <2>2 DEF RegistryInv, TypeOK, DeviceRow, DeviceStatus
  <2>4. chk' \in CheckerState /\ CheckerInv'
    BY <1>2, IdleTypes DEF CheckCommit, CheckerInv, CheckerIdle
  <2>. QED
    BY <1>2, <2>1, <2>3, <2>4, IdentityKept DEF CheckCommit, RegistryInv, TypeOK
<1>. QED
  BY <1>1, <1>2 DEF CheckerStep

\* Steps of the ARP scanner that write nothing.
LEMMA ArpLoads ==
  ASSUME RegistryInv,
         \/ \E answers \in SUBSET Macs : ScanStart(answers)
         \/ \E m \in Macs, ip \in IPs : DiscoverLookup(m, ip)
         \/ SweepLoad
         \/ ArpFail
  PROVE  RegistryInv'
<1>1. UNCHANGED <<devices, agents, metricRows, up, udp, chk>>
      /\ (UNCHANGED faults \/ (faults < MaxFaults /\ faults' = faults + 1))
  BY DEF ScanStart, DiscoverLookup, SweepLoad, ArpFail
<1>2. arp' \in ArpState /\ ArpInv'
  <2>0. arp \in ArpState /\ TypeOK /\ {"idle", "scan", "found", "sweep"} \subseteq ArpPc
    BY DEF RegistryInv, TypeOK, ArpPc
  <2>1. ASSUME NEW answers \in SUBSET Macs, ScanStart(answers)
        PROVE  arp' \in ArpState /\ ArpInv'
    <3>1. ArpScan(answers, answers) \in ArpState
      BY <2>0, ArpTxnType, Literals DEF ArpScan
    <3>. QED
      BY <2>1, <3>1 DEF ScanStart, ArpInv, ArpScan, ArpTxn
  <2>2. ASSUME NEW m \in Macs, NEW ip \in IPs, DiscoverLookup(m, ip)
        PROVE  arp' \in ArpState /\ ArpInv'
    <3>1. PICK found \in FirstByMac(m) :
            arp' = ArpTxn("found", arp.todo \ {m}, arp.seen, m, found.id, found.row, ip, {})
      BY <2>2 DEF DiscoverLookup
    <3>2. arp.todo \ {m} \in SUBSET Macs /\ arp.seen \in SUBSET Macs
      BY <2>0 DEF ArpState
    <3>3. /\ found.id \in 0..MaxDevices /\ found.row \in DeviceRow \cup {None}
          /\ found.id # 0 => found.id \in RowsOfMac(m) /\ found.row \in DeviceRow
          /\ found.id = 0 => RowsOfMac(m) = {}
      BY <2>0, FirstByMacType
    <3>4. arp' \in ArpState
      BY <2>0, <3>1, <3>2, <3>3, ArpTxnType
    <3>. QED
      BY <1>1, <3>1, <3>3, <3>4 DEF ArpInv, ArpTxn, RowsOfMac
  <2>3. CASE SweepLoad
    <3>1. ArpSweep(Unseen) \in ArpState
      <4>1. Unseen \in SUBSET DeviceIds
        BY <2>0 DEF Unseen, TypeOK
      <4>. QED
        BY <2>0, <4>1, ArpTxnType, Literals DEF ArpSweep
    <3>. QED
      BY <2>3, <3>1, IdleTypes DEF SweepLoad, ArpInv, ArpSweep, ArpIdle, ArpTxn
  <2>4. CASE ArpFail
    <3>1. NextAnswer \in ArpState
      BY <2>0, ArpTxnType, Literals DEF NextAnswer, ArpScan, ArpState
    <3>. QED
      BY <2>4, <3>1, IdleTypes DEF ArpFail, ArpInv, NextAnswer, ArpScan, ArpIdle, ArpTxn
  <2>. QED
    BY <2>1, <2>2, <2>3, <2>4
<1>3. agents' \in [DOMAIN agents -> AgentRow] /\ devices' \in [DOMAIN devices -> DeviceRow]
  BY <1>1 DEF RegistryInv, TypeOK
<1>4. AgentsOwnTheirDevice' /\ AgentlessUnique' /\ AgentlessNeverDisconnected'
      /\ UdpInv' /\ CheckerInv'
  BY <1>1, <1>3, IdentityKept
<1>. QED
  BY <1>1, <1>2, <1>4, BoundsAssumption DEF RegistryInv, TypeOK

\* The scanner inserts a row without agent only for a MAC whose rows all have one.
LEMMA ArpCommits ==
  ASSUME RegistryInv, DiscoverUpdate \/ DiscoverInsert \/ SweepCommit
  PROVE  RegistryInv'
<1>0. arp \in ArpState /\ devices \in [DOMAIN devices -> DeviceRow]
      /\ agents \in [DOMAIN agents -> AgentRow] /\ DOMAIN devices \subseteq DeviceIds
  BY DEF RegistryInv, TypeOK
<1>1. NextAnswer \in ArpState /\ NextAnswer.pc = "scan"
  <2>1. "scan" \in ArpPc /\ arp.todo \in SUBSET Macs /\ arp.seen \in SUBSET Macs
    BY <1>0 DEF ArpPc, ArpState
  <2>2. NextAnswer \in ArpState
    BY <2>1, ArpTxnType, Literals DEF NextAnswer, ArpScan
  <2>. QED
    BY <2>2 DEF NextAnswer, ArpScan, ArpTxn
<1>2. CASE DiscoverUpdate
  <2>. DEFINE d == arp.dev
              ip == Col(devices[d].ip, arp.row.ip, arp.ip)
              status == IF arp.row.hasAgent THEN devices[d].status
                        ELSE Col(devices[d].status, arp.row.status, "active")
  <2>1. d \in DOMAIN devices /\ arp.ip \in IPs
    BY <1>2 DEF DiscoverUpdate, RegistryInv, ArpInv
  <2>2. ip \in IPs /\ status \in DeviceStatus
        /\ (status = "disconnected" => devices[d].status = "disconnected")
    BY <1>0, <2>1 DEF Col, DeviceRow, DeviceStatus
  <2>3. devices' = [devices EXCEPT ![d].ip = ip, ![d].status = status]
    BY <1>2 DEF DiscoverUpdate
  <2>4. UNCHANGED <<agents, metricRows, up, udp, chk, faults>> /\ arp' = NextAnswer
    BY <1>2 DEF DiscoverUpdate
  <2>. HIDE DEF d, ip, status
  <2>5. /\ devices' \in [DOMAIN devices -> DeviceRow]
        /\ \A e \in DOMAIN devices :
             /\ devices'[e].mac = devices[e].mac /\ devices'[e].hasAgent = devices[e].hasAgent
             /\ devices'[e].status = "disconnected" => devices[e].status = "disconnected"
    BY <1>0, <2>1, <2>2, <2>3 DEF DeviceRow
  <2>6. ArpInv'
    BY <1>1, <2>4 DEF ArpInv
  <2>. QED
    BY <1>0, <1>1, <2>4, <2>5, <2>6, IdentityKept DEF RegistryInv, TypeOK
<1>3. CASE DiscoverInsert
  <2>1. PICK d \in DeviceIds :
          /\ NewId(d)
          /\ devices' = WithRow(devices, d,
               [mac |-> arp.mac, ip |-> arp.ip, hasAgent |-> FALSE, status |-> "active"])
    BY <1>3 DEF DiscoverInsert
  <2>2. d \notin DOMAIN devices
    BY <1>0, <2>1, NewIdIsFresh
  <2>3. /\ arp.mac \in Macs /\ arp.ip \in IPs
        /\ \A e \in DOMAIN devices : devices[e].mac = arp.mac => devices[e].hasAgent
    BY <1>3 DEF DiscoverInsert, RegistryInv, ArpInv, RowsOfMac
  <2>4. UNCHANGED <<agents, metricRows, up, udp, chk, faults>> /\ arp' = NextAnswer
    BY <1>3 DEF DiscoverInsert
  <2>5. /\ devices' \in [DOMAIN devices \cup {d} -> DeviceRow]
        /\ devices'[d].mac = arp.mac /\ devices'[d].hasAgent = FALSE
        /\ devices'[d].status = "active"
        /\ \A e \in DOMAIN devices : devices'[e] = devices[e]
    BY <1>0, <2>1, <2>2, <2>3 DEF WithRow, DeviceRow, DeviceStatus
  <2>6. TypeOK'
    BY <1>1, <2>4, <2>5 DEF RegistryInv, TypeOK
  <2>7. AgentsOwnTheirDevice'
    BY <2>2, <2>4, <2>5 DEF RegistryInv, AgentsOwnTheirDevice
  <2>8. AgentlessUnique' /\ AgentlessNeverDisconnected'
    BY <2>3, <2>5 DEF RegistryInv, AgentlessUnique, AgentlessNeverDisconnected
  <2>9. UdpInv' /\ CheckerInv' /\ ArpInv'
    BY <1>1, <2>4, <2>5 DEF RegistryInv, UdpInv, CheckerInv, ArpInv
  <2>. QED
    BY <2>6, <2>7, <2>8, <2>9 DEF RegistryInv
<1>4. CASE SweepCommit
  <2>1. /\ devices' \in [DOMAIN devices -> DeviceRow]
        /\ \A e \in DOMAIN devices :
             /\ devices'[e].mac = devices[e].mac /\ devices'[e].hasAgent = devices[e].hasAgent
             /\ devices'[e].status = "disconnected" => devices[e].status = "disconnected"
    BY <1>0, <1>4 DEF SweepCommit, DeviceRow, DeviceStatus
  <2>2. UNCHANGED <<agents, metricRows, up, udp, chk, faults>> /\ arp' = ArpIdle
    BY <1>4 DEF SweepCommit
  <2>3. ArpInv'
    BY <2>2 DEF ArpInv, ArpIdle, ArpTxn
  <2>. QED
    BY <1>0, <2>1, <2>2, <2>3, IdleTypes, IdentityKept DEF RegistryInv, TypeOK
<1>. QED
  BY <1>2, <1>3, <1>4

\* Time, agent programs coming and going, and a restart of the server.
LEMMA EnvironmentSteps ==
  ASSUME RegistryInv,
         Tick \/ Restart \/ \E a \in Agents : AgentStart(a) \/ AgentStop(a)
  PROVE  RegistryInv'
<1>0. /\ devices \in [DOMAIN devices -> DeviceRow] /\ agents \in [DOMAIN agents -> AgentRow]
      /\ udp \in UdpState
  BY DEF RegistryInv, TypeOK
<1>1. CASE Tick
  <2>1. \A age \in Ages : Older(age) \in Ages
    BY BoundsAssumption DEF Ages, Older
  <2>2. /\ agents' \in [DOMAIN agents -> AgentRow]
        /\ \A a \in DOMAIN agents : agents'[a].device = agents[a].device
    BY <1>0, <1>1, <2>1 DEF Tick, AgentRow
  <2>3. PICK age \in Ages : udp' = [udp EXCEPT !.age = age]
    BY <1>0, <1>1, <2>1 DEF Tick, UdpState
  <2>4. UNCHANGED <<devices, metricRows, up, chk, arp, faults>>
    BY <1>1 DEF Tick
  <2>5. udp' \in UdpState
    BY <1>0, <2>3 DEF UdpState
  <2>6. UdpInv'
    BY <1>0, <2>2, <2>3, <2>4 DEF RegistryInv, UdpInv, UdpState
  <2>. QED
    BY <1>0, <2>2, <2>4, <2>5, <2>6, IdentityKept DEF RegistryInv, TypeOK
<1>2. CASE Restart
  <2>1. UNCHANGED <<devices, agents, metricRows, up>> /\ faults' = faults + 1 /\ faults < MaxFaults
        /\ udp' = UdpIdle /\ chk' = CheckerIdle /\ arp' = ArpIdle
    BY <1>2 DEF Restart
  <2>2. UdpInv' /\ CheckerInv' /\ ArpInv'
    BY <2>1 DEF UdpInv, CheckerInv, ArpInv, UdpIdle, UdpTxn, CheckerIdle, ArpIdle, ArpTxn
  <2>. QED
    BY <1>0, <2>1, <2>2, IdleTypes, IdentityKept, BoundsAssumption DEF RegistryInv, TypeOK
<1>3. ASSUME NEW a \in Agents, AgentStart(a) \/ AgentStop(a)
      PROVE  RegistryInv'
  <2>1. UNCHANGED <<devices, agents, metricRows, udp, chk, arp, faults>>
        /\ (up' = up \cup {a} \/ up' = up \ {a})
    BY <1>3 DEF AgentStart, AgentStop
  <2>. QED
    BY <1>0, <2>1, IdentityKept DEF RegistryInv, TypeOK
<1>. QED
  BY <1>1, <1>2, <1>3

\* Every step of every thread, every failure and every restart keeps it.
THEOREM NextRegistryInv == RegistryInv /\ [Next]_vars => RegistryInv'
<1>. SUFFICES ASSUME RegistryInv, [Next]_vars PROVE RegistryInv'
  OBVIOUS
<1>1. CASE \/ \E a \in Agents : HeartbeatLoad(a)
           \/ \E a \in Agents, ip \in IPs : MetricsLoad(a, ip) \/ RegisterLookup(a, ip)
  BY <1>1, UdpLoads
<1>2. CASE \E a \in Agents : AgentStart(a) \/ AgentStop(a)
  BY <1>2, EnvironmentSteps
<1>3. CASE UdpStep \/ UdpFail
  BY <1>3, UdpLoads, UdpTouchCommits, UdpRegisters DEF UdpStep
<1>4. CASE CheckerStep \/ CheckFail \/ BreakCycle
  BY <1>4, CheckerSteps, UdpLoads DEF BreakCycle
<1>5. CASE \/ \E answers \in SUBSET Macs : ScanStart(answers)
           \/ ArpStep
           \/ ArpFail
  BY <1>5, ArpLoads, ArpCommits DEF ArpStep
<1>6. CASE Tick \/ Restart
  BY <1>6, EnvironmentSteps
<1>7. CASE UNCHANGED vars
  BY <1>7
  DEF vars, RegistryInv, TypeOK, AgentsOwnTheirDevice, AgentlessUnique,
      AgentlessNeverDisconnected, UdpInv, CheckerInv, ArpInv, RowsOfMac
<1>. QED
  BY <1>1, <1>2, <1>3, <1>4, <1>5, <1>6, <1>7 DEF Next

\* The inductive invariant of the device and agent tables.
THEOREM RegistryInvariant == Spec => []RegistryInv
BY InitRegistryInv, NextRegistryInv, PTL DEF Spec

-----------------------------------------------------------------------------
\* Rows and open transactions are well formed.
THEOREM TypeCorrect == Spec => []TypeOK
BY RegistryInvariant, PTL DEF RegistryInv

\* has_agent is true of exactly the devices that an agent row of the same MAC
\* refers to.
THEOREM AgentOwnership == Spec => []AgentsOwnTheirDevice
BY RegistryInvariant, PTL DEF RegistryInv

\* The ARP scanner never has two rows without agent for one MAC.
THEOREM OneAgentlessRowPerMac == Spec => []AgentlessUnique
BY RegistryInvariant, PTL DEF RegistryInv

\* "disconnected" is only ever the status of a device with an agent.
THEOREM DisconnectedMeansAgent == Spec => []AgentlessNeverDisconnected
BY RegistryInvariant, PTL DEF RegistryInv

-----------------------------------------------------------------------------
(***************************************************************************)
(* The registry implements DeviceInventory.                                *)
(***************************************************************************)

\* Updates of status, address and age columns are invisible in the inventory.
LEMMA UpdatesAreInvisible ==
  ASSUME DOMAIN devices' = DOMAIN devices, DOMAIN agents' = DOMAIN agents,
         \A d \in DOMAIN devices :
           devices'[d].mac = devices[d].mac /\ devices'[d].hasAgent = devices[d].hasAgent,
         \A a \in DOMAIN agents : agents'[a].device = agents[a].device
  PROVE  UNCHANGED <<KnownDevices, AgentDevices>>
BY DEF KnownDevices, AgentDevices

\* Every action but the three that insert or upgrade a row is a stuttering step.
LEMMA StutteringSteps ==
  ASSUME RegistryInv, [Next]_vars, ~RegisterUpgrade, ~RegisterInsert, ~DiscoverInsert
  PROVE  UNCHANGED <<KnownDevices, AgentDevices>>
<1>0. devices \in [DOMAIN devices -> DeviceRow] /\ agents \in [DOMAIN agents -> AgentRow]
  BY DEF RegistryInv, TypeOK
<1>1. CASE UNCHANGED <<devices, agents>>
  BY <1>1, UpdatesAreInvisible
<1>2. CASE HeartbeatCommit
  <2>1. \A a \in DOMAIN agents : agents'[a].device = agents[a].device
    BY <1>0, <1>2 DEF HeartbeatCommit, AgentRow
  <2>2. \A d \in DOMAIN devices :
          devices'[d].mac = devices[d].mac /\ devices'[d].hasAgent = devices[d].hasAgent
    BY <1>0, <1>2 DEF HeartbeatCommit, DeviceRow
  <2>3. DOMAIN devices' = DOMAIN devices /\ DOMAIN agents' = DOMAIN agents
    BY <1>2 DEF HeartbeatCommit
  <2>. QED
    BY <2>1, <2>2, <2>3, UpdatesAreInvisible
<1>3. CASE MetricsCommit
  <2>1. \A a \in DOMAIN agents : agents'[a].device = agents[a].device
    BY <1>0, <1>3 DEF MetricsCommit, AgentRow
  <2>2. \A d \in DOMAIN devices :
          devices'[d].mac = devices[d].mac /\ devices'[d].hasAgent = devices[d].hasAgent
    BY <1>0, <1>3 DEF MetricsCommit, DeviceRow
  <2>3. DOMAIN devices' = DOMAIN devices /\ DOMAIN agents' = DOMAIN agents
    BY <1>3 DEF MetricsCommit
  <2>. QED
    BY <2>1, <2>2, <2>3, UpdatesAreInvisible
<1>4. CASE CheckCommit
  <2>1. DOMAIN devices' = DOMAIN devices /\ DOMAIN agents' = DOMAIN agents
    BY <1>4 DEF CheckCommit
  <2>2. \A a \in DOMAIN agents : agents'[a].device = agents[a].device
    BY <1>0, <1>4 DEF CheckCommit, AgentRow
  <2>3. \A d \in DOMAIN devices :
          devices'[d].mac = devices[d].mac /\ devices'[d].hasAgent = devices[d].hasAgent
    BY <1>0, <1>4 DEF CheckCommit, DeviceRow
  <2>. QED
    BY <2>1, <2>2, <2>3, UpdatesAreInvisible
<1>5. CASE DiscoverUpdate
  <2>1. \A d \in DOMAIN devices :
          devices'[d].mac = devices[d].mac /\ devices'[d].hasAgent = devices[d].hasAgent
    BY <1>0, <1>5 DEF DiscoverUpdate, DeviceRow
  <2>2. DOMAIN devices' = DOMAIN devices /\ agents' = agents
    BY <1>5 DEF DiscoverUpdate
  <2>. QED
    BY <2>1, <2>2, UpdatesAreInvisible
<1>6. CASE SweepCommit
  <2>1. \A d \in DOMAIN devices :
          devices'[d].mac = devices[d].mac /\ devices'[d].hasAgent = devices[d].hasAgent
    BY <1>0, <1>6 DEF SweepCommit, DeviceRow
  <2>2. DOMAIN devices' = DOMAIN devices /\ agents' = agents
    BY <1>6 DEF SweepCommit
  <2>. QED
    BY <2>1, <2>2, UpdatesAreInvisible
<1>7. CASE Tick
  <2>1. \A a \in DOMAIN agents : agents'[a].device = agents[a].device
    BY <1>0, <1>7 DEF Tick, AgentRow
  <2>2. devices' = devices /\ DOMAIN agents' = DOMAIN agents
    BY <1>7 DEF Tick
  <2>. QED
    BY <2>1, <2>2, UpdatesAreInvisible
<1>8. \/ UNCHANGED <<devices, agents>> \/ HeartbeatCommit \/ MetricsCommit \/ CheckCommit
      \/ DiscoverUpdate \/ SweepCommit \/ Tick
  BY DEF Next, vars, UdpStep, CheckerStep, ArpStep, HeartbeatLoad, AgentStart, AgentStop,
         MetricsLoad, RegisterLookup, UdpFlush, SaveMetrics, UdpFail, CheckLoad, CheckSendDevices,
         CheckVisitNew, CheckVisitSame, CheckFail, BreakCycle, ScanStart, DiscoverLookup, SweepLoad, ArpFail, Restart
<1>. QED
  BY <1>1, <1>2, <1>3, <1>4, <1>5, <1>6, <1>7, <1>8

\* A new agent row is a binding of an agent that had none.
LEMMA EnrolBinds ==
  ASSUME NEW a \in Agents, NEW d \in DeviceIds, a \notin DOMAIN agents, Enrol(a, d)
  PROVE  Inventory!Bound(a, d)
<1>1. DOMAIN AgentDevices = DOMAIN agents
  BY DEF AgentDevices
<1>2. AgentDevices' = [b \in DOMAIN agents \cup {a} |-> IF b = a THEN d ELSE agents[b].device]
  BY DEF Enrol, WithRow, AgentDevices
<1>3. \A b \in DOMAIN agents : AgentDevices[b] = agents[b].device
  BY DEF AgentDevices
<1>. QED
  BY <1>1, <1>2, <1>3 DEF Inventory!Bound

\* A new device row is an addition to the inventory.
LEMMA InsertAdds ==
  ASSUME RegistryInv, NEW d \in DeviceIds, NewId(d), NEW m, NEW ip, NEW managed, NEW status,
         devices' = WithRow(devices, d,
           [mac |-> m, ip |-> ip, hasAgent |-> managed, status |-> status])
  PROVE  Inventory!Added(d, m, managed)
<1>1. DOMAIN KnownDevices = DOMAIN devices
  BY DEF KnownDevices
<1>3. d \notin DOMAIN devices
  BY NewIdIsFresh DEF RegistryInv, TypeOK
<1>4. KnownDevices' = [e \in DOMAIN devices \cup {d} |->
                         IF e = d THEN [mac |-> m, managed |-> managed]
                         ELSE [mac |-> devices[e].mac, managed |-> devices[e].hasAgent]]
  BY DEF WithRow, KnownDevices
<1>5. \A e \in DOMAIN devices :
        KnownDevices[e] = [mac |-> devices[e].mac, managed |-> devices[e].hasAgent]
  BY DEF KnownDevices
<1>6. d \in Inventory!DeviceIds
  BY DEF DeviceIds, Inventory!DeviceIds
<1>. QED
  BY <1>1, <1>3, <1>4, <1>5, <1>6 DEF Inventory!Added

\* A step of the registry is a step of the inventory or changes none of it.
LEMMA RegistrySteps ==
  ASSUME RegistryInv, [Next]_vars
  PROVE  [Inventory!Next]_<<KnownDevices, AgentDevices>>
<1>1. CASE RegisterUpgrade
  <2>. DEFINE d == udp.dev
              a == udp.agent
  <2>1. /\ d \in DOMAIN devices /\ d \in DeviceIds /\ devices[d].mac = MacOf[a]
        /\ a \in Agents /\ a \notin DOMAIN agents /\ Enrol(a, d)
    BY <1>1 DEF RegisterUpgrade, RegistryInv, UdpInv, TypeOK
  <2>2. Inventory!Bound(a, d)
    BY <2>1, EnrolBinds
  <2>3. /\ DOMAIN devices' = DOMAIN devices
        /\ \A e \in DOMAIN devices :
             /\ devices'[e].mac = devices[e].mac
             /\ devices'[e].hasAgent = IF e = d THEN TRUE ELSE devices[e].hasAgent
    BY <1>1, <2>1 DEF RegisterUpgrade, RegistryInv, TypeOK, DeviceRow
  <2>. HIDE DEF d, a
  <2>4. KnownDevices' = [KnownDevices EXCEPT ![d].managed = TRUE]
    BY <2>1, <2>3 DEF KnownDevices
  <2>5. d \in DOMAIN KnownDevices /\ KnownDevices[d].mac = MacOf[a] /\ d \in Inventory!DeviceIds
    BY <2>1 DEF KnownDevices, DeviceIds, Inventory!DeviceIds
  <2>6. Inventory!EnrolKnown(a, d)
    BY <2>2, <2>4, <2>5 DEF Inventory!EnrolKnown
  <2>. QED
    BY <2>1, <2>5, <2>6 DEF Inventory!Next
<1>2. CASE RegisterInsert
  <2>. DEFINE a == udp.agent
  <2>1. a \in Agents /\ a \notin DOMAIN agents
    BY <1>2 DEF RegisterInsert, RegistryInv, UdpInv
  <2>2. PICK d \in DeviceIds :
          /\ NewId(d) /\ Enrol(a, d)
          /\ devices' = WithRow(devices, d,
               [mac |-> MacOf[a], ip |-> udp.ip, hasAgent |-> TRUE, status |-> "active"])
    BY <1>2 DEF RegisterInsert
  <2>3. Inventory!Bound(a, d)
    BY <2>1, <2>2, EnrolBinds
  <2>4. Inventory!Added(d, MacOf[a], TRUE)
    BY <2>2, InsertAdds
  <2>5. Inventory!EnrolNew(a, d) /\ d \in Inventory!DeviceIds
    BY <2>3, <2>4 DEF Inventory!EnrolNew, DeviceIds, Inventory!DeviceIds
  <2>. QED
    BY <2>1, <2>5 DEF Inventory!Next
<1>3. CASE DiscoverInsert
  <2>1. PICK d \in DeviceIds :
          /\ NewId(d)
          /\ devices' = WithRow(devices, d,
               [mac |-> arp.mac, ip |-> arp.ip, hasAgent |-> FALSE, status |-> "active"])
    BY <1>3 DEF DiscoverInsert
  <2>2. Inventory!Added(d, arp.mac, FALSE)
    BY <2>1, InsertAdds
  <2>3. arp.mac \in Macs /\ \A e \in DOMAIN devices : devices[e].mac = arp.mac => devices[e].hasAgent
    BY <1>3 DEF DiscoverInsert, RegistryInv, ArpInv, RowsOfMac
  <2>4. \A e \in DOMAIN KnownDevices : KnownDevices[e].mac = arp.mac => KnownDevices[e].managed
    BY <2>3 DEF KnownDevices
  <2>5. UNCHANGED AgentDevices
    BY <1>3 DEF DiscoverInsert, AgentDevices
  <2>6. Inventory!Discover(d, arp.mac) /\ d \in Inventory!DeviceIds
    BY <2>2, <2>4, <2>5 DEF Inventory!Discover, DeviceIds, Inventory!DeviceIds
  <2>. QED
    BY <2>3, <2>6 DEF Inventory!Next
<1>. QED
  BY <1>1, <1>2, <1>3, StutteringSteps

\* Every behaviour of the registry is one of the append-only inventory.
THEOREM RegistryImplementsInventory == Spec => ImplementsInventory
<1>1. Init => Inventory!Init
  BY DEF Init, Inventory!Init, KnownDevices, AgentDevices
<1>2. RegistryInv /\ [Next]_vars => [Inventory!Next]_<<KnownDevices, AgentDevices>>
  BY RegistrySteps
<1>. QED
  BY <1>1, <1>2, RegistryInvariant, PTL DEF Spec, Inventory!Spec, ImplementsInventory


-----------------------------------------------------------------------------
(***************************************************************************)
(* The race of the two threads that look a MAC up and insert a row.        *)
(* RowsInv is inductive relative to RegistryInv.                           *)
(***************************************************************************)
\* While a thread remembers that a MAC has no row, only the other thread can have
\* inserted one: the scanner a row without agent, the receiver one with.
RowsInv ==
  /\ \A x, y, z \in DOMAIN devices :
       devices[x].mac = devices[y].mac /\ devices[y].mac = devices[z].mac =>
         x = y \/ y = z \/ x = z
  /\ udp.pc = "register" /\ udp.dev = 0 =>
       \A d \in DOMAIN devices : devices[d].mac = MacOf[udp.agent] => ~devices[d].hasAgent
  /\ arp.pc = "found" /\ arp.dev = 0 =>
       \A x, y \in DOMAIN devices : devices[x].mac = arp.mac /\ devices[y].mac = arp.mac => x = y

\* What the inventory shows of a row is all that RowsInv reads.
LEMMA SameInventory ==
  ASSUME UNCHANGED KnownDevices
  PROVE  /\ DOMAIN devices' = DOMAIN devices
         /\ \A d \in DOMAIN devices :
              devices'[d].mac = devices[d].mac /\ devices'[d].hasAgent = devices[d].hasAgent
<1>1. DOMAIN KnownDevices = DOMAIN devices /\ DOMAIN KnownDevices' = DOMAIN devices'
  BY DEF KnownDevices
<1>2. ASSUME NEW d \in DOMAIN devices
      PROVE  devices'[d].mac = devices[d].mac /\ devices'[d].hasAgent = devices[d].hasAgent
  <2>1. KnownDevices[d] = [mac |-> devices[d].mac, managed |-> devices[d].hasAgent]
    BY DEF KnownDevices
  <2>2. KnownDevices'[d] = [mac |-> devices'[d].mac, managed |-> devices'[d].hasAgent]
    BY <1>1 DEF KnownDevices
  <2>. QED
    BY <2>1, <2>2
<1>. QED
  BY <1>1, <1>2

\* A registration is under way only after its look-up.
LEMMA RegisterFollowsLookup ==
  ASSUME RegistryInv, [Next]_vars, udp'.pc = "register"
  PROVE  \/ udp.pc = "register" /\ udp'.agent = udp.agent /\ udp'.dev = udp.dev
         \/ \E a \in Agents, ip \in IPs : RegisterLookup(a, ip)
<1>1. udp \in UdpState
  BY DEF RegistryInv, TypeOK
<1>2. CASE UNCHANGED udp
  BY <1>2
<1>3. CASE \E a \in Agents, ip \in IPs : HeartbeatLoad(a) \/ MetricsLoad(a, ip)
  BY <1>3 DEF HeartbeatLoad, MetricsLoad, UdpTxn
<1>4. CASE UdpFlush
  <2>. DEFINE flushed == IF udp.pc = "heartbeat" THEN "heartbeatFlushed" ELSE "metricsFlushed"
  <2>1. \E d, row : udp' = [udp EXCEPT !.pc = flushed, !.dev = d, !.row = row]
    BY <1>4 DEF UdpFlush
  <2>2. udp'.pc = flushed
    BY <1>1, <2>1 DEF UdpState
  <2>. QED
    BY <2>2
<1>5. CASE HeartbeatCommit \/ MetricsCommit \/ RegisterUpgrade \/ RegisterInsert \/ SaveMetrics
           \/ UdpAbort \/ Restart
  BY <1>5 DEF HeartbeatCommit, MetricsCommit, RegisterUpgrade, RegisterInsert, SaveMetrics,
              UdpAbort, Restart, UdpIdle, UdpDead, UdpSave, UdpTxn
<1>6. CASE Tick
  <2>1. PICK age : udp' = [udp EXCEPT !.age = age]
    BY <1>6 DEF Tick
  <2>. QED
    BY <1>1, <2>1 DEF UdpState
<1>7. CASE \E a \in Agents : HeartbeatLoad(a) \/ AgentStart(a) \/ AgentStop(a)
  <2>1. PICK a \in Agents : HeartbeatLoad(a) \/ AgentStart(a) \/ AgentStop(a)
    BY <1>7
  <2>. QED
    BY <1>2, <2>1 DEF HeartbeatLoad, UdpTxn, AgentStart, AgentStop
<1>8. CASE \E a \in Agents, ip \in IPs : MetricsLoad(a, ip) \/ RegisterLookup(a, ip)
  BY <1>8, <1>3
<1>9. CASE UdpStep \/ UdpFail \/ BreakCycle
  BY <1>2, <1>4, <1>5, <1>9 DEF UdpStep, UdpFail, BreakCycle
<1>10. CASE CheckerStep \/ CheckFail
  BY <1>2, <1>10
  DEF CheckerStep, CheckLoad, CheckVisitNew, CheckVisitSame, CheckSendDevices, CheckCommit, CheckFail
<1>11. CASE (\E answers \in SUBSET Macs : ScanStart(answers)) \/ ArpStep \/ ArpFail
  BY <1>2, <1>11
  DEF ScanStart, ArpStep, DiscoverLookup, DiscoverUpdate, DiscoverInsert, SweepLoad, SweepCommit,
      ArpFail
<1>12. CASE UNCHANGED vars
  BY <1>2, <1>12 DEF vars
<1>. QED
  BY <1>5, <1>6, <1>7, <1>8, <1>9, <1>10, <1>11, <1>12 DEF Next

\* The scanner's answer is under way only after its look-up.
LEMMA FoundFollowsLookup ==
  ASSUME [Next]_vars, arp'.pc = "found"
  PROVE  arp' = arp \/ \E m \in Macs, ip \in IPs : DiscoverLookup(m, ip)
<1>1. CASE \E a \in Agents : HeartbeatLoad(a) \/ AgentStart(a) \/ AgentStop(a)
  BY <1>1 DEF HeartbeatLoad, AgentStart, AgentStop
<1>2. CASE \E a \in Agents, ip \in IPs : MetricsLoad(a, ip) \/ RegisterLookup(a, ip)
  BY <1>2 DEF MetricsLoad, RegisterLookup
<1>3. CASE UdpStep \/ UdpFail \/ BreakCycle \/ CheckerStep \/ CheckFail \/ Tick
  BY <1>3
  DEF UdpStep, UdpFlush, HeartbeatCommit, MetricsCommit, RegisterUpgrade, RegisterInsert,
      SaveMetrics, UdpFail, BreakCycle, CheckerStep, CheckLoad, CheckVisitNew, CheckVisitSame,
      CheckSendDevices, CheckCommit, CheckFail, Tick
<1>4. CASE (\E answers \in SUBSET Macs : ScanStart(answers)) \/ ArpStep \/ ArpFail \/ Restart
  BY <1>4
  DEF ScanStart, ArpStep, DiscoverUpdate, DiscoverInsert, SweepLoad, SweepCommit, ArpFail,
      Restart, ArpIdle, ArpSweep, NextAnswer, ArpScan, ArpTxn
<1>5. CASE UNCHANGED vars
  BY <1>5 DEF vars
<1>. QED
  BY <1>1, <1>2, <1>3, <1>4, <1>5 DEF Next

\* A look-up that found nothing saw no row of the MAC.
LEMMA LookupsSeeNoRow ==
  ASSUME RegistryInv
  PROVE  /\ \A a \in Agents, ip \in IPs : RegisterLookup(a, ip) /\ udp'.dev = 0 =>
              udp'.agent = a /\ RowsOfMac(MacOf[a]) = {} /\ UNCHANGED <<devices, arp>>
         /\ \A m \in Macs, ip \in IPs : DiscoverLookup(m, ip) /\ arp'.dev = 0 =>
              arp'.mac = m /\ RowsOfMac(m) = {} /\ UNCHANGED <<devices, udp>>
<1>1. ASSUME NEW a \in Agents, NEW ip \in IPs, RegisterLookup(a, ip), udp'.dev = 0
      PROVE  udp'.agent = a /\ RowsOfMac(MacOf[a]) = {} /\ UNCHANGED <<devices, arp>>
  <2>1. PICK found \in FirstByMac(MacOf[a]) :
          udp' = UdpTxn("register", a, found.id, found.row, "active", ip)
    BY <1>1 DEF RegisterLookup
  <2>2. MacOf[a] \in Macs /\ found.id = 0 /\ udp'.agent = a
    BY <1>1, <2>1, MacOfAssumption DEF UdpTxn
  <2>3. RowsOfMac(MacOf[a]) = {}
    BY <2>2, FirstByMacType DEF RegistryInv
  <2>. QED
    BY <1>1, <2>2, <2>3 DEF RegisterLookup
<1>2. ASSUME NEW m \in Macs, NEW ip \in IPs, DiscoverLookup(m, ip), arp'.dev = 0
      PROVE  arp'.mac = m /\ RowsOfMac(m) = {} /\ UNCHANGED <<devices, udp>>
  <2>1. PICK found \in FirstByMac(m) :
          arp' = ArpTxn("found", arp.todo \ {m}, arp.seen, m, found.id, found.row, ip, {})
    BY <1>2 DEF DiscoverLookup
  <2>2. found.id = 0 /\ arp'.mac = m
    BY <1>2, <2>1 DEF ArpTxn
  <2>3. RowsOfMac(m) = {}
    BY <2>2, FirstByMacType DEF RegistryInv
  <2>. QED
    BY <1>2, <2>2, <2>3 DEF DiscoverLookup
<1>. QED
  BY <1>1, <1>2

\* A new row of MAC m, and the others as they were.
LEMMA InsertShape ==
  ASSUME RegistryInv, NEW d \in DeviceIds, NewId(d), NEW m, NEW ip, NEW managed, NEW status,
         devices' = WithRow(devices, d,
           [mac |-> m, ip |-> ip, hasAgent |-> managed, status |-> status])
  PROVE  /\ d \notin DOMAIN devices /\ DOMAIN devices' = DOMAIN devices \cup {d}
         /\ devices'[d].mac = m /\ devices'[d].hasAgent = managed
         /\ \A e \in DOMAIN devices : devices'[e] = devices[e]
<1>1. d \notin DOMAIN devices
  BY NewIdIsFresh DEF RegistryInv, TypeOK
<1>. QED
  BY <1>1 DEF WithRow

\* Every step keeps at most two rows of an address.
LEMMA NextRowsInv == RegistryInv /\ RowsInv /\ [Next]_vars => RowsInv'
<1>. SUFFICES ASSUME RegistryInv, RowsInv, [Next]_vars PROVE RowsInv'
  OBVIOUS
<1>1. CASE RegisterUpgrade
  <2>1. udp' = UdpSave(udp.dev) /\ arp' = arp /\ udp.dev \in DOMAIN devices
    BY <1>1 DEF RegisterUpgrade, RegistryInv, UdpInv
  <2>2. /\ DOMAIN devices' = DOMAIN devices
        /\ \A e \in DOMAIN devices : devices'[e].mac = devices[e].mac
    BY <1>1, <2>1 DEF RegisterUpgrade, RegistryInv, TypeOK, DeviceRow
  <2>3. udp'.pc # "register"
    BY <2>1 DEF UdpSave, UdpTxn
  <2>. QED
    BY <2>1, <2>2, <2>3 DEF RowsInv
<1>2. CASE RegisterInsert
  <2>. DEFINE m == MacOf[udp.agent]
  <2>1. PICK d \in DeviceIds :
          /\ NewId(d) /\ udp' = UdpSave(d)
          /\ devices' = WithRow(devices, d,
               [mac |-> m, ip |-> udp.ip, hasAgent |-> TRUE, status |-> "active"])
    BY <1>2 DEF RegisterInsert
  <2>2. udp'.pc # "register" /\ arp' = arp
    BY <1>2, <2>1 DEF RegisterInsert, UdpSave, UdpTxn
  <2>3. \A e \in DOMAIN devices : devices[e].mac = m => ~devices[e].hasAgent
    BY <1>2 DEF RegisterInsert, RowsInv
  <2>. HIDE DEF m
  <2>4. /\ d \notin DOMAIN devices /\ DOMAIN devices' = DOMAIN devices \cup {d}
        /\ devices'[d].mac = m
        /\ \A e \in DOMAIN devices : devices'[e] = devices[e]
    BY <2>1, InsertShape
  <2>5. \A x, y \in DOMAIN devices : devices[x].mac = m /\ devices[y].mac = m => x = y
    BY <2>3 DEF RegistryInv, AgentlessUnique
  <2>6. ASSUME NEW x \in DOMAIN devices', NEW y \in DOMAIN devices', NEW z \in DOMAIN devices',
               devices'[x].mac = devices'[y].mac, devices'[y].mac = devices'[z].mac
        PROVE  x = y \/ y = z \/ x = z
    <3>1. CASE x # d /\ y # d /\ z # d
      BY <2>4, <2>6, <3>1 DEF RowsInv
    <3>2. CASE x = d \/ y = d \/ z = d
      BY <2>4, <2>5, <2>6, <3>2
    <3>. QED
      BY <3>1, <3>2
  <2>7. ASSUME arp.pc = "found", arp.dev = 0,
               NEW x \in DOMAIN devices', NEW y \in DOMAIN devices',
               devices'[x].mac = arp.mac, devices'[y].mac = arp.mac
        PROVE  x = y
    <3>1. CASE arp.mac = m
      <4>1. \A e \in DOMAIN devices : devices[e].mac # m
        BY <2>3, <2>7, <3>1 DEF RegistryInv, ArpInv, RowsOfMac
      <4>. QED
        BY <2>4, <2>7, <3>1, <4>1
    <3>2. CASE arp.mac # m
      BY <2>4, <2>7, <3>2 DEF RowsInv
    <3>. QED
      BY <3>1, <3>2
  <2>. QED
    BY <2>2, <2>6, <2>7 DEF RowsInv
<1>3. CASE DiscoverInsert
  <2>1. PICK d \in DeviceIds :
          /\ NewId(d)
          /\ devices' = WithRow(devices, d,
               [mac |-> arp.mac, ip |-> arp.ip, hasAgent |-> FALSE, status |-> "active"])
    BY <1>3 DEF DiscoverInsert
  <2>2. arp'.pc # "found" /\ udp' = udp
    BY <1>3 DEF DiscoverInsert, NextAnswer, ArpScan, ArpTxn
  <2>3. \A x, y \in DOMAIN devices : devices[x].mac = arp.mac /\ devices[y].mac = arp.mac => x = y
    BY <1>3 DEF DiscoverInsert, RowsInv
  <2>4. /\ d \notin DOMAIN devices /\ DOMAIN devices' = DOMAIN devices \cup {d}
        /\ devices'[d].mac = arp.mac /\ ~devices'[d].hasAgent
        /\ \A e \in DOMAIN devices : devices'[e] = devices[e]
    BY <2>1, InsertShape
  <2>5. ASSUME NEW x \in DOMAIN devices', NEW y \in DOMAIN devices', NEW z \in DOMAIN devices',
               devices'[x].mac = devices'[y].mac, devices'[y].mac = devices'[z].mac
        PROVE  x = y \/ y = z \/ x = z
    <3>1. CASE x # d /\ y # d /\ z # d
      BY <2>4, <2>5, <3>1 DEF RowsInv
    <3>2. CASE x = d \/ y = d \/ z = d
      BY <2>3, <2>4, <2>5, <3>2
    <3>. QED
      BY <3>1, <3>2
  <2>6. udp.pc = "register" /\ udp.dev = 0 =>
          \A e \in DOMAIN devices' : devices'[e].mac = MacOf[udp.agent] => ~devices'[e].hasAgent
    BY <2>4 DEF RowsInv
  <2>. QED
    BY <2>2, <2>5, <2>6 DEF RowsInv
<1>4. CASE ~RegisterUpgrade /\ ~RegisterInsert /\ ~DiscoverInsert
  <2>1. /\ DOMAIN devices' = DOMAIN devices
        /\ \A d \in DOMAIN devices :
             devices'[d].mac = devices[d].mac /\ devices'[d].hasAgent = devices[d].hasAgent
    BY <1>4, StutteringSteps, SameInventory
  <2>2. \A x, y, z \in DOMAIN devices' :
          devices'[x].mac = devices'[y].mac /\ devices'[y].mac = devices'[z].mac =>
            x = y \/ y = z \/ x = z
    BY <2>1 DEF RowsInv
  <2>3. ASSUME udp'.pc = "register", udp'.dev = 0,
               NEW d \in DOMAIN devices', devices'[d].mac = MacOf[udp'.agent]
        PROVE  ~devices'[d].hasAgent
    <3>1. CASE udp.pc = "register" /\ udp'.agent = udp.agent /\ udp'.dev = udp.dev
      BY <2>1, <2>3, <3>1 DEF RowsInv
    <3>2. CASE \E a \in Agents, ip \in IPs : RegisterLookup(a, ip)
      BY <2>3, <3>2, LookupsSeeNoRow DEF RowsOfMac
    <3>. QED
      BY <2>3, <3>1, <3>2, RegisterFollowsLookup
  <2>4. ASSUME arp'.pc = "found", arp'.dev = 0,
               NEW x \in DOMAIN devices', NEW y \in DOMAIN devices',
               devices'[x].mac = arp'.mac, devices'[y].mac = arp'.mac
        PROVE  x = y
    <3>1. CASE arp' = arp
      BY <2>1, <2>4, <3>1 DEF RowsInv
    <3>2. CASE \E m \in Macs, ip \in IPs : DiscoverLookup(m, ip)
      BY <2>4, <3>2, LookupsSeeNoRow DEF RowsOfMac
    <3>. QED
      BY <2>4, <3>1, <3>2, FoundFollowsLookup
  <2>. QED
    BY <2>2, <2>3, <2>4 DEF RowsInv
<1>. QED
  BY <1>1, <1>2, <1>3, <1>4

\* No row at the start, no transaction open.
LEMMA InitRowsInv == Init => RowsInv
BY DEF Init, RowsInv, UdpIdle, UdpTxn, ArpIdle, ArpTxn

\* A set without three different elements has at most two.
LEMMA TwoElements ==
  ASSUME NEW S, \A x, y, z \in S : x = y \/ y = z \/ x = z
  PROVE  Cardinality(S) <= 2
<1>1. CASE S = {}
  BY <1>1, FS_EmptySet
<1>2. CASE S # {}
  <2>1. PICK x \in S : TRUE
    BY <1>2
  <2>2. CASE S = {x}
    <3>1. Cardinality({x}) = 1
      BY FS_Singleton
    <3>. QED
      BY <2>2, <3>1
  <2>3. CASE S # {x}
    <3>1. PICK y \in S : y # x
      BY <2>1, <2>3
    <3>2. S = {x} \cup {y}
      BY <2>1, <3>1
    <3>3. IsFiniteSet({x}) /\ Cardinality({x}) = 1
      BY FS_Singleton
    <3>4. Cardinality({x} \cup {y}) = 2
      BY <3>1, <3>3, FS_AddElement
    <3>. QED
      BY <3>2, <3>4
  <2>. QED
    BY <2>2, <2>3
<1>. QED
  BY <1>1, <1>2

\* Whatever the look-ups and inserts of the two threads overlap with, restarts
\* included, a MAC never gets a third row.
THEOREM TwoRowsPerMac == Spec => []AtMostTwoRowsPerMac
<1>1. RowsInv => AtMostTwoRowsPerMac
  <2>1. ASSUME RowsInv, NEW m \in Macs
        PROVE  \A x, y, z \in RowsOfMac(m) : x = y \/ y = z \/ x = z
    BY <2>1 DEF RowsInv, RowsOfMac
  <2>. QED
    BY <2>1, TwoElements DEF AtMostTwoRowsPerMac
<1>. QED
  BY <1>1, InitRowsInv, NextRowsInv, RegistryInvariant, PTL DEF Spec

-----------------------------------------------------------------------------
(***************************************************************************)
(* The two status columns.  StatusInv is inductive relative to             *)
(* RegistryInv: what a heartbeat writes rests on the row it loaded, and    *)
(* the row locks keep the health checker away from the agent meanwhile.    *)
(***************************************************************************)
Flushed == {"heartbeatFlushed", "metricsFlushed"}

\* No other uid shares the device of a.
Sole(a) == \A b \in DOMAIN agents : agents[b].device = agents[a].device => b = a

StatusInv ==
  /\ ActiveAgentNotDisconnected
  /\ udp.pc \in Flushed => udp.agent \notin chk.flushed
  /\ udp.pc = "heartbeatFlushed" /\ Sole(udp.agent) /\ udp.row.status = "active" =>
       devices[udp.dev].status # "disconnected"

\* An agent of the table stays there and keeps its device.
LEMMA AgentsStay ==
  ASSUME RegistryInv, [Next]_vars
  PROVE  /\ \A a \in DOMAIN agents : a \in DOMAIN agents' /\ agents'[a].device = agents[a].device
         /\ \A a \in DOMAIN agents : Sole(a)' => Sole(a)
<1>1. \A a \in DOMAIN agents : a \in DOMAIN agents' /\ agents'[a].device = agents[a].device
  <2>1. CASE RegisterUpgrade \/ RegisterInsert
    <3>1. PICK d \in 0..MaxDevices \cup DeviceIds : Enrol(udp.agent, d) /\ udp.agent \notin DOMAIN agents
      BY <2>1 DEF RegisterUpgrade, RegisterInsert, RegistryInv, UdpInv, TypeOK, UdpState
    <3>. QED
      BY <3>1 DEF Enrol, WithRow
  <2>2. CASE DiscoverInsert
    BY <2>2 DEF DiscoverInsert
  <2>3. CASE ~RegisterUpgrade /\ ~RegisterInsert /\ ~DiscoverInsert
    <3>1. UNCHANGED AgentDevices
      BY <2>3, StutteringSteps
    <3>2. DOMAIN AgentDevices = DOMAIN agents /\ DOMAIN AgentDevices' = DOMAIN agents'
      BY DEF AgentDevices
    <3>3. ASSUME NEW a \in DOMAIN agents PROVE agents'[a].device = agents[a].device
      <4>1. AgentDevices[a] = agents[a].device
        BY DEF AgentDevices
      <4>2. AgentDevices'[a] = agents'[a].device
        BY <3>1, <3>2 DEF AgentDevices
      <4>. QED
        BY <3>1, <4>1, <4>2
    <3>. QED
      BY <3>1, <3>2, <3>3
  <2>. QED
    BY <2>1, <2>2, <2>3
<1>. QED
  BY <1>1 DEF Sole

\* Only the health checker disconnects a device.
LEMMA WhoDisconnects ==
  ASSUME RegistryInv, [Next]_vars, ~CheckCommit,
         NEW d \in DOMAIN devices', devices'[d].status = "disconnected"
  PROVE  d \in DOMAIN devices /\ devices[d].status = "disconnected"
<1>0. devices \in [DOMAIN devices -> DeviceRow]
  BY DEF RegistryInv, TypeOK
<1>1. CASE UNCHANGED devices
  BY <1>1
<1>2. CASE HeartbeatCommit
  BY <1>0, <1>2 DEF HeartbeatCommit, DeviceRow, Col
<1>3. CASE MetricsCommit
  BY <1>0, <1>3 DEF MetricsCommit, DeviceRow
<1>4. CASE RegisterUpgrade
  BY <1>0, <1>4 DEF RegisterUpgrade, DeviceRow, Col
<1>5. CASE RegisterInsert
  <2>1. PICK e \in DeviceIds :
          /\ NewId(e)
          /\ devices' = WithRow(devices, e,
               [mac |-> MacOf[udp.agent], ip |-> udp.ip, hasAgent |-> TRUE, status |-> "active"])
    BY <1>5 DEF RegisterInsert
  <2>. QED
    BY <2>1 DEF WithRow
<1>6. CASE DiscoverUpdate
  BY <1>0, <1>6 DEF DiscoverUpdate, DeviceRow, Col
<1>7. CASE DiscoverInsert
  <2>1. PICK e \in DeviceIds :
          /\ NewId(e)
          /\ devices' = WithRow(devices, e,
               [mac |-> arp.mac, ip |-> arp.ip, hasAgent |-> FALSE, status |-> "active"])
    BY <1>7 DEF DiscoverInsert
  <2>. QED
    BY <2>1 DEF WithRow
<1>8. CASE SweepCommit
  BY <1>0, <1>8 DEF SweepCommit, DeviceRow
<1>9. \/ UNCHANGED devices \/ HeartbeatCommit \/ MetricsCommit \/ RegisterUpgrade \/ RegisterInsert
      \/ DiscoverUpdate \/ DiscoverInsert \/ SweepCommit
  BY DEF Next, vars, UdpStep, CheckerStep, ArpStep, HeartbeatLoad, AgentStart, AgentStop,
         MetricsLoad, RegisterLookup, UdpFlush, SaveMetrics, UdpFail, CheckLoad,
         CheckSendDevices, CheckVisitNew, CheckVisitSame, CheckFail, BreakCycle, ScanStart,
         DiscoverLookup, SweepLoad, ArpFail, Restart, Tick
<1>. QED
  BY <1>1, <1>2, <1>3, <1>4, <1>5, <1>6, <1>7, <1>8, <1>9

\* Only a heartbeat or a registration makes an agent active.
LEMMA WhoActivates ==
  ASSUME RegistryInv, [Next]_vars, ~HeartbeatCommit, ~RegisterUpgrade, ~RegisterInsert,
         NEW a \in DOMAIN agents', agents'[a].status = "active"
  PROVE  a \in DOMAIN agents /\ agents[a].status = "active"
<1>0. agents \in [DOMAIN agents -> AgentRow]
  BY DEF RegistryInv, TypeOK
<1>1. CASE UNCHANGED agents
  BY <1>1
<1>2. CASE MetricsCommit
  BY <1>0, <1>2 DEF MetricsCommit, AgentRow
<1>3. CASE CheckCommit
  BY <1>0, <1>3 DEF CheckCommit, AgentRow
<1>4. CASE Tick
  BY <1>0, <1>4 DEF Tick, AgentRow
<1>5. UNCHANGED agents \/ MetricsCommit \/ CheckCommit \/ Tick
  BY DEF Next, vars, UdpStep, CheckerStep, ArpStep, HeartbeatLoad, AgentStart, AgentStop,
         MetricsLoad, RegisterLookup, UdpFlush, SaveMetrics, UdpFail, CheckLoad,
         CheckSendDevices, CheckVisitNew, CheckVisitSame, CheckFail, BreakCycle, ScanStart,
         DiscoverLookup, DiscoverUpdate, DiscoverInsert, SweepLoad, SweepCommit, ArpFail, Restart
<1>. QED
  BY <1>1, <1>2, <1>3, <1>4, <1>5

\* A transaction of the receiver has a row lock only since its flush.
LEMMA FlushedFollowsFlush ==
  ASSUME RegistryInv, [Next]_vars, udp'.pc \in Flushed
  PROVE  \/ /\ udp.pc = udp'.pc /\ udp'.agent = udp.agent /\ udp'.dev = udp.dev
            /\ udp'.row = udp.row
         \/ UdpFlush
<1>1. udp \in UdpState
  BY DEF RegistryInv, TypeOK
<1>2. CASE UNCHANGED udp
  BY <1>2
<1>3. CASE \E a \in Agents : HeartbeatLoad(a) \/ AgentStart(a) \/ AgentStop(a)
  <2>1. PICK a \in Agents : HeartbeatLoad(a) \/ AgentStart(a) \/ AgentStop(a)
    BY <1>3
  <2>. QED
    BY <1>2, <2>1 DEF HeartbeatLoad, UdpTxn, AgentStart, AgentStop, Flushed
<1>4. CASE \E a \in Agents, ip \in IPs : MetricsLoad(a, ip) \/ RegisterLookup(a, ip)
  BY <1>4 DEF MetricsLoad, RegisterLookup, UdpTxn, Flushed
<1>5. CASE HeartbeatCommit \/ MetricsCommit \/ RegisterUpgrade \/ RegisterInsert \/ SaveMetrics
           \/ UdpAbort \/ Restart
  BY <1>5 DEF HeartbeatCommit, MetricsCommit, RegisterUpgrade, RegisterInsert, SaveMetrics,
              UdpAbort, Restart, UdpIdle, UdpDead, UdpSave, UdpTxn, Flushed
<1>6. CASE Tick
  <2>1. PICK age : udp' = [udp EXCEPT !.age = age]
    BY <1>6 DEF Tick
  <2>. QED
    BY <1>1, <2>1 DEF UdpState
<1>7. CASE UdpStep \/ UdpFail \/ BreakCycle
  BY <1>2, <1>5, <1>7 DEF UdpStep, UdpFail, BreakCycle
<1>8. CASE CheckerStep \/ CheckFail
  BY <1>2, <1>8
  DEF CheckerStep, CheckLoad, CheckVisitNew, CheckVisitSame, CheckSendDevices, CheckCommit, CheckFail
<1>9. CASE (\E answers \in SUBSET Macs : ScanStart(answers)) \/ ArpStep \/ ArpFail
  BY <1>2, <1>9
  DEF ScanStart, ArpStep, DiscoverLookup, DiscoverUpdate, DiscoverInsert, SweepLoad, SweepCommit,
      ArpFail
<1>10. CASE UNCHANGED vars
  BY <1>2, <1>10 DEF vars
<1>. QED
  BY <1>3, <1>4, <1>5, <1>6, <1>7, <1>8, <1>9, <1>10 DEF Next

\* An active agent's device after a step.
LEMMA ActiveStep ==
  ASSUME RegistryInv, StatusInv, [Next]_vars
  PROVE  ActiveAgentNotDisconnected'
<1>0. /\ devices \in [DOMAIN devices -> DeviceRow] /\ agents \in [DOMAIN agents -> AgentRow]
      /\ \A a \in DOMAIN agents : agents[a].device \in DOMAIN devices
  BY DEF RegistryInv, TypeOK, AgentsOwnTheirDevice
<1>. SUFFICES ASSUME NEW a \in DOMAIN agents', agents'[a].status = "active", Sole(a)'
              PROVE  devices'[agents'[a].device].status # "disconnected"
  BY DEF ActiveAgentNotDisconnected, Sole
<1>1. RegistryInv' /\ agents'[a].device \in DOMAIN devices'
  BY NextRegistryInv DEF RegistryInv, AgentsOwnTheirDevice
<1>2. ASSUME a \in DOMAIN agents
      PROVE  /\ agents'[a].device = agents[a].device /\ Sole(a)
             /\ agents[a].status = "active" => devices[agents[a].device].status # "disconnected"
  <2>1. agents'[a].device = agents[a].device /\ Sole(a)
    BY <1>2, AgentsStay
  <2>. QED
    BY <1>2, <2>1 DEF StatusInv, ActiveAgentNotDisconnected, Sole
<1>3. CASE CheckCommit
  <2>1. /\ DOMAIN agents' = DOMAIN agents /\ DOMAIN devices' = DOMAIN devices
        /\ a \in chk.visited => agents'[a].status = "inactive"
        /\ a \notin chk.visited => agents'[a] = agents[a]
    BY <1>0, <1>3 DEF CheckCommit, AgentRow
  <2>2. a \notin chk.visited /\ agents[a].status = "active"
    BY <2>1
  <2>3. agents[a].device \notin Changed
    <3>1. chk.visited \subseteq DOMAIN agents
      BY DEF RegistryInv, CheckerInv
    <3>. QED
      BY <1>2, <2>1, <2>2, <3>1 DEF Changed, Sole
  <2>4. devices'[agents[a].device] = devices[agents[a].device]
    BY <1>0, <1>3, <2>1, <2>3 DEF CheckCommit
  <2>. QED
    BY <1>2, <2>1, <2>2, <2>4
<1>4. CASE HeartbeatCommit
  <2>. DEFINE d == agents[a].device
  <2>1. /\ a \in DOMAIN agents /\ DOMAIN devices' = DOMAIN devices /\ ~CheckCommit
        /\ udp.agent \in DOMAIN agents /\ udp.dev = agents[udp.agent].device
    BY <1>4 DEF HeartbeatCommit, CheckCommit, CheckerIdle, RegistryInv, UdpInv
  <2>2. CASE agents[a].status = "active"
    BY <1>1, <1>2, <2>1, <2>2, WhoDisconnects
  <2>3. CASE agents[a].status # "active"
    <3>1. a = udp.agent
      BY <1>0, <1>4, <2>1, <2>3 DEF HeartbeatCommit, AgentRow
    <3>2. udp.row.status = "active" => devices[d].status # "disconnected"
      BY <1>2, <1>4, <2>1, <3>1 DEF HeartbeatCommit, StatusInv
    <3>3. devices'[d].status = Col(devices[d].status, udp.row.status, "active")
      BY <1>0, <1>4, <2>1, <3>1 DEF HeartbeatCommit, DeviceRow
    <3>. QED
      BY <1>2, <2>1, <3>2, <3>3 DEF Col
  <2>. QED
    BY <2>2, <2>3
<1>5. CASE RegisterUpgrade \/ RegisterInsert
  <2>1. ~CheckCommit
    BY <1>5 DEF RegisterUpgrade, RegisterInsert, CheckCommit, Enrol, WithRow, RegistryInv, UdpInv
  <2>2. CASE a \in DOMAIN agents
    <3>1. PICK d : Enrol(udp.agent, d) /\ udp.agent \notin DOMAIN agents
      BY <1>5 DEF RegisterUpgrade, RegisterInsert, RegistryInv, UdpInv
    <3>2. agents'[a] = agents[a]
      BY <2>2, <3>1 DEF Enrol, WithRow
    <3>. QED
      BY <1>1, <1>2, <2>1, <2>2, <3>2, WhoDisconnects
  <2>3. CASE a \notin DOMAIN agents
    <3>1. \A b \in DOMAIN agents : agents[b].device # agents'[a].device
      BY <2>3, AgentsStay DEF Sole
    <3>2. agents'[a].device \in DOMAIN devices =>
            devices[agents'[a].device].status # "disconnected"
      BY <3>1 DEF RegistryInv, AgentsOwnTheirDevice, AgentlessNeverDisconnected
    <3>. QED
      BY <1>1, <2>1, <3>2, WhoDisconnects
  <2>. QED
    BY <2>2, <2>3
<1>6. CASE ~CheckCommit /\ ~HeartbeatCommit /\ ~RegisterUpgrade /\ ~RegisterInsert
  <2>1. a \in DOMAIN agents /\ agents[a].status = "active"
    BY <1>6, WhoActivates
  <2>. QED
    BY <1>1, <1>2, <1>6, <2>1, WhoDisconnects
<1>. QED
  BY <1>3, <1>4, <1>5, <1>6

\* No other thread touches the transaction of the checker.
LEMMA CheckerMoves ==
  ASSUME [Next]_vars
  PROVE  \/ chk' = chk \/ chk' = CheckerIdle \/ CheckLoad \/ CheckSendDevices
         \/ \E a \in Agents : CheckVisitNew(a) \/ CheckVisitSame(a)
BY DEF Next, vars, UdpStep, CheckerStep, ArpStep, HeartbeatLoad, AgentStart, AgentStop,
       MetricsLoad, RegisterLookup, UdpFlush, HeartbeatCommit, MetricsCommit,
       RegisterUpgrade, RegisterInsert, SaveMetrics, UdpFail, CheckCommit, CheckFail,
       BreakCycle, ScanStart, DiscoverLookup, DiscoverUpdate, DiscoverInsert, SweepLoad,
       SweepCommit, ArpFail, Restart, Tick

\* The checker does not get the row lock of an agent the receiver has.
LEMMA LockStep ==
  ASSUME RegistryInv, StatusInv, [Next]_vars, udp'.pc \in Flushed
  PROVE  udp'.agent \notin chk'.flushed
<1>0. chk \in CheckerState /\ udp \in UdpState
  BY DEF RegistryInv, TypeOK
<1>1. CASE UdpFlush
  <2>1. udp.agent \notin chk.flushed /\ chk' = chk
    BY <1>1 DEF UdpFlush
  <2>2. PICK flushed, d, row : udp' = [udp EXCEPT !.pc = flushed, !.dev = d, !.row = row]
    BY <1>1 DEF UdpFlush
  <2>. QED
    BY <1>0, <2>1, <2>2 DEF UdpState
<1>2. CASE udp.pc \in Flushed /\ udp'.agent = udp.agent
  <2>1. udp.agent \notin chk.flushed
    BY <1>2 DEF StatusInv
  <2>2. CASE chk' = chk
    BY <1>2, <2>1, <2>2
  <2>3. CASE chk' = CheckerIdle
    BY <2>3 DEF CheckerIdle
  <2>4. CASE \E a \in Agents : CheckVisitNew(a)
    <3>1. PICK a \in Agents : CheckVisitNew(a)
      BY <2>4
    <3>2. chk'.flushed = chk.visited \cup {a}
      BY <1>0, <3>1 DEF CheckVisitNew, CheckerState
    <3>3. ~UdpHolds((chk.visited \cup {a}) \ chk.flushed)
      BY <3>1 DEF CheckVisitNew
    <3>. QED
      BY <1>2, <2>1, <3>2, <3>3 DEF UdpHolds, Flushed
  <2>5. CASE CheckLoad \/ CheckSendDevices \/ \E a \in Agents : CheckVisitSame(a)
    <3>1. chk'.flushed = chk.flushed
      BY <1>0, <2>5 DEF CheckLoad, CheckSendDevices, CheckVisitSame, CheckerState
    <3>. QED
      BY <1>2, <2>1, <3>1
  <2>. QED
    BY <2>2, <2>3, <2>4, <2>5, CheckerMoves
<1>. QED
  BY <1>1, <1>2, FlushedFollowsFlush

\* The status a heartbeat has loaded is still that of the row.
LEMMA LoadedStep ==
  ASSUME RegistryInv, StatusInv, [Next]_vars,
         udp'.pc = "heartbeatFlushed", Sole(udp.agent)', udp'.row.status = "active"
  PROVE  devices'[udp'.dev].status # "disconnected"
<1>0. devices \in [DOMAIN devices -> DeviceRow] /\ udp \in UdpState
  BY DEF RegistryInv, TypeOK
<1>1. CASE UdpFlush
  <2>1. PICK flushed, d : /\ udp' = [udp EXCEPT !.pc = flushed, !.dev = d, !.row = devices[d]]
                          /\ UNCHANGED devices
    BY <1>1 DEF UdpFlush
  <2>2. udp'.dev = d /\ udp'.row = devices[d]
    BY <1>0, <2>1 DEF UdpState
  <2>. QED
    BY <2>1, <2>2
<1>2. CASE /\ udp.pc = "heartbeatFlushed" /\ udp'.agent = udp.agent /\ udp'.dev = udp.dev
           /\ udp'.row = udp.row
  <2>1. /\ udp.agent \in DOMAIN agents /\ udp.dev = agents[udp.agent].device
        /\ udp.dev \in DOMAIN devices
    BY <1>2 DEF RegistryInv, UdpInv, AgentsOwnTheirDevice
  <2>2. PICK a \in DOMAIN agents : a = udp.agent /\ a = udp'.agent
    BY <1>2, <2>1
  <2>3. Sole(a)
    <3>1. Sole(a)'
      BY <2>2 DEF Sole
    <3>. QED
      BY <3>1, AgentsStay
  <2>4. devices[udp.dev].status # "disconnected"
    BY <1>2, <2>2, <2>3 DEF StatusInv
  <2>5. CASE CheckCommit
    <3>1. udp.agent \notin chk.visited
      BY <1>2, <2>5 DEF StatusInv, CheckCommit, UdpHolds, Flushed
    <3>2. udp.dev \notin Changed
      <4>1. chk.visited \subseteq DOMAIN agents
        BY DEF RegistryInv, CheckerInv
      <4>. QED
        BY <2>1, <2>2, <2>3, <3>1, <4>1 DEF Changed, Sole
    <3>. QED
      BY <1>2, <2>1, <2>4, <2>5, <3>2 DEF CheckCommit
  <2>6. CASE ~CheckCommit
    <3>1. udp.dev \in DOMAIN devices'
      BY <1>2, <2>1, NextRegistryInv, AgentsStay DEF RegistryInv, AgentsOwnTheirDevice
    <3>. QED
      BY <1>2, <2>4, <2>6, <3>1, WhoDisconnects
  <2>. QED
    BY <2>5, <2>6
<1>. QED
  BY <1>1, <1>2, FlushedFollowsFlush DEF Flushed

\* Every step keeps the statuses of a device and its agent in line.
LEMMA NextStatusInv == RegistryInv /\ StatusInv /\ [Next]_vars => StatusInv'
<1>. SUFFICES ASSUME RegistryInv, StatusInv, [Next]_vars PROVE StatusInv'
  OBVIOUS
<1>1. ActiveAgentNotDisconnected'
  BY ActiveStep
<1>2. udp'.pc \in Flushed => udp'.agent \notin chk'.flushed
  BY LockStep
<1>3. udp'.pc = "heartbeatFlushed" /\ Sole(udp.agent)' /\ udp'.row.status = "active" =>
        devices'[udp'.dev].status # "disconnected"
  BY LoadedStep
<1>. QED
  BY <1>1, <1>2, <1>3 DEF StatusInv

\* The registry is empty at first.
LEMMA InitStatusInv == Init => StatusInv
BY DEF Init, StatusInv, ActiveAgentNotDisconnected, Flushed, UdpIdle, UdpTxn

\* Heartbeats and health checks may overlap in any way: the device of an agent whose
\* row says "active" is not left "disconnected" unless another uid shares it.
THEOREM ActiveAgentsAreNotDisconnected == Spec => []ActiveAgentNotDisconnected
<1>1. StatusInv => ActiveAgentNotDisconnected
  BY DEF StatusInv
<1>. QED
  BY <1>1, InitStatusInv, NextStatusInv, RegistryInvariant, PTL DEF Spec
-----------------------------------------------------------------------------
(***************************************************************************)
(* Row locks.  The lazy load of a device autoflushes the UPDATE of its     *)
(* agent, so for every device the checker knows it holds one of its agents;*)
(* an agent it does not hold shares its device with one it does.           *)
(***************************************************************************)
LockOrderInv ==
  /\ chk.flushed \subseteq chk.visited
  /\ \A b \in chk.visited : \E c \in chk.flushed : agents[c].device = agents[b].device

\* Every step keeps the order of the row locks.
LEMMA NextLockOrderInv == RegistryInv /\ LockOrderInv /\ [Next]_vars => LockOrderInv'
<1>. SUFFICES ASSUME RegistryInv, LockOrderInv, [Next]_vars PROVE LockOrderInv'
  OBVIOUS
<1>0. chk \in CheckerState /\ chk.visited \subseteq DOMAIN agents
  BY DEF RegistryInv, TypeOK, CheckerInv
<1>1. CASE chk' = chk
  <2>1. \A b \in DOMAIN agents : agents'[b].device = agents[b].device
    BY AgentsStay
  <2>. QED
    BY <1>0, <1>1, <2>1 DEF LockOrderInv
<1>2. CASE chk' = CheckerIdle
  BY <1>2 DEF LockOrderInv, CheckerIdle
<1>3. CASE CheckLoad \/ CheckSendDevices
  <2>1. chk'.flushed = chk.flushed /\ chk'.visited = chk.visited /\ UNCHANGED agents
    BY <1>0, <1>3 DEF CheckLoad, CheckSendDevices, CheckerState
  <2>. QED
    BY <2>1 DEF LockOrderInv
<1>4. ASSUME NEW a \in Agents, CheckVisitNew(a)
      PROVE  LockOrderInv'
  <2>1. chk'.flushed = chk.visited \cup {a} /\ chk'.visited = chk.visited \cup {a}
    BY <1>0, <1>4 DEF CheckVisitNew, CheckerState
  <2>. QED
    BY <2>1 DEF LockOrderInv
<1>5. ASSUME NEW a \in Agents, CheckVisitSame(a)
      PROVE  LockOrderInv'
  <2>1. /\ chk'.flushed = chk.flushed /\ chk'.visited = chk.visited \cup {a}
        /\ UNCHANGED agents
    BY <1>0, <1>5 DEF CheckVisitSame, CheckerState
  <2>2. PICK b \in chk.visited : agents[b].device = agents[a].device
    BY <1>5 DEF CheckVisitSame, Sharers
  <2>. QED
    BY <2>1, <2>2 DEF LockOrderInv
<1>. QED
  BY <1>1, <1>2, <1>3, <1>4, <1>5, CheckerMoves

\* The health checker and the UDP thread block each other only over a device that the
\* agent of the datagram shares with another uid.
THEOREM DeadlocksNeedSharedDevices == Spec => []DeadlockNeedsSharedDevice
<1>1. Init => LockOrderInv
  BY DEF Init, LockOrderInv, CheckerIdle
<1>2. RegistryInv /\ LockOrderInv => DeadlockNeedsSharedDevice
  <2>. SUFFICES ASSUME RegistryInv, LockOrderInv, LockCycle
                PROVE  \E b \in DOMAIN agents \ {udp.agent} :
                         agents[b].device = agents[udp.agent].device
    BY DEF DeadlockNeedsSharedDevice
  <2>1. udp.agent \in chk.visited /\ udp.agent \notin chk.flushed
    BY DEF LockCycle, UdpHolds
  <2>2. PICK c \in chk.flushed : agents[c].device = agents[udp.agent].device
    BY <2>1 DEF LockOrderInv
  <2>. QED
    BY <2>1, <2>2 DEF LockOrderInv, RegistryInv, CheckerInv
<1>. QED
  BY <1>1, <1>2, NextLockOrderInv, RegistryInvariant, PTL DEF Spec

=============================================================================
