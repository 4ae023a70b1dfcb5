--------------------------- MODULE DeviceRegistry ---------------------------
(***************************************************************************)
(* The "device" and "agent" tables of GOATGuard and the three threads of   *)
(* run.py that write them: the UDP receiver (metrics and heartbeats of the *)
(* capture agents), the health checker and the ARP scanner.                *)
(*                                                                         *)
(* Each repository method is one PostgreSQL transaction at READ COMMITTED. *)
(* It is split where another transaction can come in between: the step     *)
(* that loads rows, the autoflush that takes the row lock of an agent (the *)
(* lazy load of agent.device triggers it), and the commit.  SQLAlchemy     *)
(* puts in an UPDATE only the columns whose new value differs from the     *)
(* value it LOADED (operator Col), so a row that changed in the meantime   *)
(* keeps its other columns.                                                *)
(***************************************************************************)
EXTENDS Naturals, FiniteSets

CONSTANTS
  Agents,     \* agent uids, HOSTNAME__MAC
  Macs,       \* MAC addresses on the segment
  MacOf,      \* the MAC part of each uid
  IPs,        \* IP addresses DHCP hands out
  MaxDevices, \* bound on device ids: the autoincrement key stops here
  Timeout,    \* health checker timeout, in clock ticks
  MaxFaults,  \* bound on failed transactions and process restarts
  None        \* no agent, no address, no loaded row

ASSUME MacOfAssumption == MacOf \in [Agents -> Macs]
ASSUME BoundsAssumption ==
  /\ MaxDevices \in Nat \ {0} /\ Timeout \in Nat /\ MaxFaults \in Nat
ASSUME NoneAssumption == None \notin Agents /\ None \notin IPs

VARIABLES
  devices,    \* committed rows of "device", by id
  agents,     \* committed rows of "agent", by uid
  metricRows, \* ids with a row in "device_current_metrics"
  up,         \* the agent programs that are running and sending
  udp,        \* the UDP receiver thread and its open transaction
  chk,        \* the health checker thread and its open transaction
  arp,        \* the ARP scanner thread and its open transaction
  faults      \* failed transactions and restarts so far

vars == <<devices, agents, metricRows, up, udp, chk, arp, faults>>

DeviceIds == 1..MaxDevices
DeviceStatus == {"active", "inactive", "disconnected"}
AgentStatus == {"active", "inactive"}
Ages == 0..(Timeout + 1)   \* ticks since last_heartbeat, saturating once stale

DeviceRow == [mac : Macs, ip : IPs, hasAgent : BOOLEAN, status : DeviceStatus]
AgentRow == [device : DeviceIds, status : AgentStatus, age : Ages]

\* What the ORM writes in a column: nothing if the new value is the loaded one.
Col(current, loaded, new) == IF new = loaded THEN current ELSE new

RowsOfMac(m) == {d \in DOMAIN devices : devices[d].mac = m}

\* Mutation: the look-up passes over the rows that are not active.
FirstActiveByMac(m) ==
  LET Active == {d \in RowsOfMac(m) : devices[d].status = "active"}
  IN  IF Active = {} THEN {[id |-> 0, row |-> None]}
      ELSE {[id |-> d, row |-> devices[d]] : d \in Active}

\* filter_by(mac=m).first() has no ORDER BY: any row; id 0 if there is none.
FirstByMac(m) ==
  IF RowsOfMac(m) = {} THEN {[id |-> 0, row |-> None]}
  ELSE {[id |-> d, row |-> devices[d]] : d \in RowsOfMac(m)}

\* A fresh autoincrement key.  Nothing compares keys: the first free one will do.
FreeIds == {d \in DeviceIds \ DOMAIN devices : \A e \in DOMAIN devices : e < d}
NewId(d) == d \in FreeIds /\ \A e \in FreeIds : d <= e

WithRow(table, key, row) ==
  [k \in DOMAIN table \cup {key} |-> IF k = key THEN row ELSE table[k]]

-----------------------------------------------------------------------------
UdpPc == {"idle", "heartbeat", "metrics", "heartbeatFlushed", "metricsFlushed",
          "register", "save", "dead"}

\* dev = 0 is "no device row found".  status and row are the loaded values.
UdpState == [pc : UdpPc, agent : Agents \cup {None}, dev : 0..MaxDevices,
             row : DeviceRow \cup {None}, status : AgentStatus,
             ip : IPs \cup {None}, age : Ages]

UdpTxn(pc, a, d, row, status, ip) ==
  [pc |-> pc, agent |-> a, dev |-> d, row |-> row, status |-> status, ip |-> ip, age |-> 0]
UdpIdle == UdpTxn("idle", None, 0, None, "active", None)
UdpDead == UdpTxn("dead", None, 0, None, "active", None)
UdpSave(d) == UdpTxn("save", None, d, None, "active", None)

\* stale: agents of the query still to visit; loaded: device status found for a
\* visited one; flushed, held: agent and device rows whose UPDATE has been sent.
CheckerState == [stale : SUBSET Agents, visited : SUBSET Agents, flushed : SUBSET Agents,
                 held : SUBSET DeviceIds, loaded : [Agents -> DeviceStatus]]
CheckerIdle == [stale |-> {}, visited |-> {}, flushed |-> {}, held |-> {},
                loaded |-> [a \in Agents |-> "active"]]

ArpPc == {"idle", "scan", "found", "sweep"}
ArpState == [pc : ArpPc, todo : SUBSET Macs, seen : SUBSET Macs,
             mac : Macs \cup {None}, dev : 0..MaxDevices,
             row : DeviceRow \cup {None}, ip : IPs \cup {None},
             stale : SUBSET DeviceIds]
ArpTxn(pc, todo, seen, m, d, row, ip, stale) ==
  [pc |-> pc, todo |-> todo, seen |-> seen, mac |-> m, dev |-> d, row |-> row, ip |-> ip,
   stale |-> stale]
ArpIdle == ArpTxn("idle", {}, {}, None, 0, None, None, {})
ArpScan(todo, seen) == ArpTxn("scan", todo, seen, None, 0, None, None, {})
ArpSweep(stale) == ArpTxn("sweep", {}, {}, None, 0, None, None, stale)

TypeOK ==
  /\ DOMAIN devices \subseteq DeviceIds
  /\ devices \in [DOMAIN devices -> DeviceRow]
  /\ DOMAIN agents \subseteq Agents
  /\ agents \in [DOMAIN agents -> AgentRow]
  /\ metricRows \subseteq DeviceIds
  /\ up \subseteq Agents
  /\ udp \in UdpState
  /\ chk \in CheckerState
  /\ arp \in ArpState
  /\ faults \in 0..MaxFaults

Init ==
  /\ devices = [d \in {} |-> None]
  /\ agents = [a \in {} |-> None]
  /\ metricRows = {} /\ up = {}
  /\ udp = UdpIdle /\ chk = CheckerIdle /\ arp = ArpIdle
  /\ faults = 0

-----------------------------------------------------------------------------
(***************************************************************************)
(* UDP receiver: one thread, one datagram at a time.  A datagram that is   *)
(* lost is one that is never received.                                     *)
(***************************************************************************)

\* update_heartbeat of a registered uid; an unknown uid changes nothing.
HeartbeatLoad(a) ==
  /\ udp.pc = "idle" /\ a \in up /\ a \in DOMAIN agents
  /\ udp' = UdpTxn("heartbeat", a, 0, None, agents[a].status, None)
  /\ UNCHANGED <<devices, agents, metricRows, up, chk, arp, faults>>

\* get_or_create_agent, the uid exists.
MetricsLoad(a, ip) ==
  /\ udp.pc = "idle" /\ a \in up /\ a \in DOMAIN agents
  /\ udp' = UdpTxn("metrics", a, 0, None, "active", ip)
  /\ UNCHANGED <<devices, agents, metricRows, up, chk, arp, faults>>

\* Reading agent.device autoflushes the agent's UPDATE, which waits for the
\* health checker if that holds the row, and then loads the device row.
UdpFlush ==
  /\ udp.pc \in {"heartbeat", "metrics"}
  /\ udp.agent \notin chk.flushed
  /\ LET d == agents[udp.agent].device
         flushed == IF udp.pc = "heartbeat" THEN "heartbeatFlushed" ELSE "metricsFlushed"
     IN  udp' = [udp EXCEPT !.pc = flushed, !.dev = d, !.row = devices[d]]
  /\ UNCHANGED <<devices, agents, metricRows, up, chk, arp, faults>>

\* Mutation: the heartbeat updates the agent and forgets its device.
HeartbeatCommitAgentOnly ==
  /\ udp.pc = "heartbeatFlushed"
  /\ agents' = [agents EXCEPT ![udp.agent].age = udp.age,
                  ![udp.agent].status = Col(@, udp.status, "active")]
  /\ udp' = UdpIdle
  /\ UNCHANGED <<devices, metricRows, up, chk, arp, faults>>

HeartbeatCommit ==
  /\ udp.pc = "heartbeatFlushed" /\ udp.dev \notin chk.held
  /\ agents' = [agents EXCEPT ![udp.agent].age = udp.age,
                  ![udp.agent].status = Col(@, udp.status, "active")]
  /\ devices' = [devices EXCEPT ![udp.dev].status =
                  Col(@, udp.row.status, "active")]
  /\ udp' = UdpIdle
  /\ UNCHANGED <<metricRows, up, chk, arp, faults>>

\* The metrics path refreshes last_heartbeat but neither status column.
MetricsCommit ==
  /\ udp.pc = "metricsFlushed" /\ udp.dev \notin chk.held
  /\ agents' = [agents EXCEPT ![udp.agent].age = udp.age]
  /\ devices' = [devices EXCEPT ![udp.dev].ip = Col(@, udp.row.ip, udp.ip)]
  /\ udp' = UdpSave(udp.dev)
  /\ UNCHANGED <<metricRows, up, chk, arp, faults>>

\* get_or_create_agent, unknown uid: look for a row ARP may have made.
RegisterLookup(a, ip) ==
  /\ udp.pc = "idle" /\ a \in up /\ a \notin DOMAIN agents
  /\ \E found \in FirstByMac(MacOf[a]) :
       udp' = UdpTxn("register", a, found.id, found.row, "active", ip)
  /\ UNCHANGED <<devices, agents, metricRows, up, chk, arp, faults>>

Enrol(a, d) == agents' = WithRow(agents, a, [device |-> d, status |-> "active", age |-> 0])

\* Mutation: the agent is attached to the row without raising has_agent.
RegisterUpgradeUnflagged ==
  /\ udp.pc = "register" /\ udp.dev # 0
  /\ devices' = [devices EXCEPT ![udp.dev].ip = Col(@, udp.row.ip, udp.ip),
                                ![udp.dev].status = Col(@, udp.row.status, "active")]
  /\ Enrol(udp.agent, udp.dev)
  /\ udp' = UdpSave(udp.dev)
  /\ UNCHANGED <<metricRows, up, chk, arp, faults>>

\* The row found is upgraded to has_agent = true ...
RegisterUpgrade ==
  /\ udp.pc = "register" /\ udp.dev # 0 /\ udp.dev \notin chk.held
  /\ devices' = [devices EXCEPT ![udp.dev].ip = Col(@, udp.row.ip, udp.ip),
                                ![udp.dev].hasAgent = TRUE,
                                ![udp.dev].status = Col(@, udp.row.status, "active")]
  /\ Enrol(udp.agent, udp.dev)
  /\ udp' = UdpSave(udp.dev)
  /\ UNCHANGED <<metricRows, up, chk, arp, faults>>

\* ... or a new device is inserted, without a second look.
RegisterInsert ==
  /\ udp.pc = "register" /\ udp.dev = 0
  /\ \E d \in DeviceIds :
       /\ NewId(d)
       /\ devices' = WithRow(devices, d,
            [mac |-> MacOf[udp.agent], ip |-> udp.ip,
             hasAgent |-> TRUE, status |-> "active"])
       /\ Enrol(udp.agent, d)
       /\ udp' = UdpSave(d)
  /\ UNCHANGED <<metricRows, up, chk, arp, faults>>

\* save_device_metrics, the second transaction of on_metrics.
SaveMetrics ==
  /\ udp.pc = "save"
  /\ metricRows' = metricRows \cup {udp.dev}
  /\ udp' = UdpIdle
  /\ UNCHANGED <<devices, agents, up, chk, arp, faults>>

\* The database aborts the transaction.  update_heartbeat and save_device_metrics
\* swallow the error; get_or_create_agent raises it again (also that of reading
\* back the id after its commit), and neither on_metrics nor the listen loop
\* catches it: the thread ends.
UdpAbort ==
  \/ udp.pc \in {"heartbeat", "heartbeatFlushed", "save"} /\ udp' = UdpIdle
  \/ udp.pc \in {"metrics", "metricsFlushed", "register", "save"} /\ udp' = UdpDead

UdpFail ==
  /\ UdpAbort /\ faults < MaxFaults
  /\ faults' = faults + 1
  /\ UNCHANGED <<devices, agents, metricRows, up, chk, arp>>

-----------------------------------------------------------------------------
(***************************************************************************)
(* Health checker: mark_inactive_agents(now - timeout).                    *)
(***************************************************************************)
StaleAgents == {a \in DOMAIN agents : agents[a].status = "active" /\ agents[a].age > Timeout}

CheckLoad ==
  /\ chk = CheckerIdle /\ StaleAgents # {}
  /\ chk' = [chk EXCEPT !.stale = StaleAgents]
  /\ UNCHANGED <<devices, agents, metricRows, up, udp, arp, faults>>

\* agent.status = "inactive", then agent.device.status = "disconnected".  Loading
\* the device autoflushes what has changed so far and waits for the UDP thread if
\* that holds one of the agents; a device the session already has is not loaded.
Sharers(a) == {b \in chk.visited : agents[b].device = agents[a].device}
UdpHolds(some) == udp.pc \in {"heartbeatFlushed", "metricsFlushed"} /\ udp.agent \in some
Changed == {agents[a].device : a \in {b \in chk.visited : chk.loaded[b] # "disconnected"}}

\* A flush sends the UPDATEs of the devices and then those of the agents.
CheckSendDevices ==
  /\ chk.visited # {} /\ chk.held # Changed
  /\ chk.stale = {} \/ \E a \in chk.stale : Sharers(a) = {}
  /\ chk' = [chk EXCEPT !.held = Changed]
  /\ UNCHANGED <<devices, agents, metricRows, up, udp, arp, faults>>

\* Mutation: the two assignments swapped, so that the device is loaded before the
\* agent has an UPDATE to send.
CheckVisitNewDeviceFirst(a) ==
  /\ a \in chk.stale /\ Sharers(a) = {} /\ chk.held = Changed
  /\ ~UdpHolds(chk.visited \ chk.flushed)
  /\ chk' = [chk EXCEPT !.stale = @ \ {a}, !.visited = @ \cup {a},
                        !.flushed = chk.visited,
                        !.loaded[a] = devices[agents[a].device].status]
  /\ UNCHANGED <<devices, agents, metricRows, up, udp, arp, faults>>

CheckVisitNew(a) ==
  /\ a \in chk.stale /\ Sharers(a) = {} /\ chk.held = Changed
  /\ ~UdpHolds((chk.visited \cup {a}) \ chk.flushed)
  /\ chk' = [chk EXCEPT !.stale = @ \ {a}, !.visited = @ \cup {a},
                        !.flushed = chk.visited \cup {a},
                        !.loaded[a] = devices[agents[a].device].status]
  /\ UNCHANGED <<devices, agents, metricRows, up, udp, arp, faults>>

CheckVisitSame(a) ==
  /\ a \in chk.stale
  /\ \E b \in Sharers(a) :
       chk' = [chk EXCEPT !.stale = @ \ {a}, !.visited = @ \cup {a},
                          !.loaded[a] = chk.loaded[b]]
  /\ UNCHANGED <<devices, agents, metricRows, up, udp, arp, faults>>

\* Mutation: the agent gets the device's word for a silent machine.
CheckCommitOneWord ==
  /\ chk.stale = {} /\ chk.visited # {} /\ chk.held = Changed
  /\ ~UdpHolds(chk.visited \ chk.flushed)
  /\ agents' = [a \in DOMAIN agents |->
       IF a \in chk.visited THEN [agents[a] EXCEPT !.status = "disconnected"] ELSE agents[a]]
  /\ chk' = CheckerIdle
  /\ UNCHANGED <<devices, metricRows, up, udp, arp, faults>>

\* Mutation: the device is marked and its agent is not.
CheckCommitDeviceOnly ==
  /\ chk.stale = {} /\ chk.visited # {} /\ chk.held = Changed
  /\ ~UdpHolds(chk.visited \ chk.flushed)
  /\ devices' = [d \in DOMAIN devices |->
       IF \E a \in chk.visited : agents[a].device = d
       THEN [devices[d] EXCEPT !.status = "disconnected"] ELSE devices[d]]
  /\ chk' = CheckerIdle
  /\ UNCHANGED <<agents, metricRows, up, udp, arp, faults>>

\* The UPDATEs go by primary key: the age is not looked at again.
CheckCommit ==
  /\ chk.stale = {} /\ chk.visited # {} /\ chk.held = Changed
  /\ ~UdpHolds(chk.visited \ chk.flushed)
  /\ agents' = [a \in DOMAIN agents |->
       IF a \in chk.visited THEN [agents[a] EXCEPT !.status = "inactive"] ELSE agents[a]]
  /\ devices' = [d \in DOMAIN devices |->
       IF d \in Changed THEN [devices[d] EXCEPT !.status = "disconnected"] ELSE devices[d]]
  /\ chk' = CheckerIdle
  /\ UNCHANGED <<metricRows, up, udp, arp, faults>>

\* With two uids on one device the checker can hold the device and want an agent
\* while the UDP thread holds that agent and wants the device: PostgreSQL aborts
\* one of them.
LockCycle == UdpHolds(chk.visited \ chk.flushed) /\ udp.dev \in chk.held

BreakCycle ==
  /\ LockCycle
  /\ \/ UdpAbort /\ UNCHANGED chk
     \/ chk' = CheckerIdle /\ UNCHANGED udp
  /\ UNCHANGED <<devices, agents, metricRows, up, arp, faults>>

CheckFail ==
  /\ chk # CheckerIdle /\ faults < MaxFaults
  /\ chk' = CheckerIdle /\ faults' = faults + 1
  /\ UNCHANGED <<devices, agents, metricRows, up, udp, arp>>

-----------------------------------------------------------------------------
(***************************************************************************)
(* ARP scanner: one transaction per answer, then one sweep.  A scan nobody *)
(* answers changes nothing.                                                *)
(***************************************************************************)
ScanStart(answers) ==
  /\ arp.pc = "idle" /\ answers # {}
  /\ arp' = ArpScan(answers, answers)
  /\ UNCHANGED <<devices, agents, metricRows, up, udp, chk, faults>>

\* register_discovered_device: look the MAC up.
DiscoverLookup(m, ip) ==
  /\ arp.pc = "scan" /\ m \in arp.todo
  /\ \E found \in FirstByMac(m) :
       arp' = ArpTxn("found", arp.todo \ {m}, arp.seen, m, found.id, found.row, ip, {})
  /\ UNCHANGED <<devices, agents, metricRows, up, udp, chk, faults>>

NextAnswer == ArpScan(arp.todo, arp.seen)

\* Mutation: what the ARP scan finds is a device without agent.
DiscoverUpdateUnmanaged ==
  /\ arp.pc = "found" /\ arp.dev # 0
  /\ devices' = [devices EXCEPT ![arp.dev].ip = Col(@, arp.row.ip, arp.ip),
                                ![arp.dev].hasAgent = FALSE]
  /\ arp' = NextAnswer
  /\ UNCHANGED <<agents, metricRows, up, udp, chk, faults>>

\* A known device gets its address; only one without an agent becomes active.
DiscoverUpdate ==
  /\ arp.pc = "found" /\ arp.dev # 0 /\ arp.dev \notin chk.held
  /\ devices' = [devices EXCEPT ![arp.dev].ip = Col(@, arp.row.ip, arp.ip),
                                ![arp.dev].status =
                                   IF arp.row.hasAgent THEN @
                                   ELSE Col(@, arp.row.status, "active")]
  /\ arp' = NextAnswer
  /\ UNCHANGED <<agents, metricRows, up, udp, chk, faults>>

DiscoverInsert ==
  /\ arp.pc = "found" /\ arp.dev = 0
  /\ \E d \in DeviceIds :
       /\ NewId(d)
       /\ devices' = WithRow(devices, d,
            [mac |-> arp.mac, ip |-> arp.ip, hasAgent |-> FALSE, status |-> "active"])
  /\ arp' = NextAnswer
  /\ UNCHANGED <<agents, metricRows, up, udp, chk, faults>>

\* mark_unseen_devices_inactive: load the rows ...
Unseen == {d \in DOMAIN devices :
             /\ ~devices[d].hasAgent /\ devices[d].status = "active"
             /\ devices[d].mac \notin arp.seen}

SweepLoad ==
  /\ arp.pc = "scan" /\ arp.todo = {}
  /\ arp' = IF Unseen = {} THEN ArpIdle
            ELSE ArpSweep(Unseen)
  /\ UNCHANGED <<devices, agents, metricRows, up, udp, chk, faults>>

\* ... and update them by primary key.
SweepCommit ==
  /\ arp.pc = "sweep" /\ arp.stale \cap chk.held = {}
  /\ devices' = [d \in DOMAIN devices |->
       IF d \in arp.stale THEN [devices[d] EXCEPT !.status = "inactive"] ELSE devices[d]]
  /\ arp' = ArpIdle
  /\ UNCHANGED <<agents, metricRows, up, udp, chk, faults>>

\* Both methods swallow the error: the scan goes on with the next answer.
ArpFail ==
  /\ arp.pc \in {"found", "sweep"} /\ faults < MaxFaults
  /\ arp' = IF arp.pc = "found" THEN NextAnswer ELSE ArpIdle
  /\ faults' = faults + 1
  /\ UNCHANGED <<devices, agents, metricRows, up, udp, chk>>

-----------------------------------------------------------------------------
\* Time passes: every last_heartbeat, stored or about to be, gets older.
Older(age) == IF age > Timeout THEN age ELSE age + 1

Tick ==
  /\ agents' = [a \in DOMAIN agents |-> [agents[a] EXCEPT !.age = Older(@)]]
  /\ udp' = [udp EXCEPT !.age = IF udp.pc \in {"idle", "dead", "register", "save"}
                                THEN @ ELSE Older(@)]
  /\ UNCHANGED <<devices, metricRows, up, chk, arp, faults>>

\* Agent programs start and stop.
AgentStart(a) ==
  /\ a \notin up /\ up' = up \cup {a}
  /\ UNCHANGED <<devices, agents, metricRows, udp, chk, arp, faults>>

AgentStop(a) ==
  /\ a \in up /\ up' = up \ {a}
  /\ UNCHANGED <<devices, agents, metricRows, udp, chk, arp, faults>>

\* run.py is killed and started again: open transactions are rolled back.
Restart ==
  /\ faults < MaxFaults /\ <<udp, chk, arp>> # <<UdpIdle, CheckerIdle, ArpIdle>>
  /\ udp' = UdpIdle /\ chk' = CheckerIdle /\ arp' = ArpIdle
  /\ faults' = faults + 1
  /\ UNCHANGED <<devices, agents, metricRows, up>>

-----------------------------------------------------------------------------
UdpStep == UdpFlush \/ HeartbeatCommit \/ MetricsCommit \/ RegisterUpgrade \/ RegisterInsert
             \/ SaveMetrics
CheckerStep == CheckLoad \/ (\E a \in Agents : CheckVisitNew(a) \/ CheckVisitSame(a))
                 \/ CheckSendDevices \/ CheckCommit
ArpStep == (\E m \in Macs, ip \in IPs : DiscoverLookup(m, ip)) \/ DiscoverUpdate
             \/ DiscoverInsert \/ SweepLoad \/ SweepCommit

Next ==
  \/ \E a \in Agents : HeartbeatLoad(a) \/ AgentStart(a) \/ AgentStop(a)
  \/ \E a \in Agents, ip \in IPs : MetricsLoad(a, ip) \/ RegisterLookup(a, ip)
  \/ UdpStep \/ UdpFail
  \/ CheckerStep \/ CheckFail \/ BreakCycle
  \/ \E answers \in SUBSET Macs : ScanStart(answers)
  \/ ArpStep \/ ArpFail
  \/ Tick \/ Restart

Spec == Init /\ [][Next]_vars

\* Transactions end, and who waits for a row lock gets it (PostgreSQL queues the
\* waiters and breaks a cycle); scans go on, and an agent that stays up gets through
\* again and again: it sends every few seconds, and UDP does not lose them all.
Fairness ==
  /\ SF_vars(UdpStep) /\ SF_vars(CheckerStep) /\ WF_vars(BreakCycle)
  /\ SF_vars(ArpStep) /\ WF_vars(Tick)
  /\ \A a \in Agents : SF_vars(HeartbeatLoad(a))
  /\ \A a \in Agents : SF_vars(\E ip \in IPs : RegisterLookup(a, ip))

FairSpec == Spec /\ Fairness

-----------------------------------------------------------------------------
(***************************************************************************)
(* Properties.                                                             *)
(***************************************************************************)

\* An agent row always refers to a device row of its own MAC; has_agent is true
\* of exactly the devices some agent row refers to; and only those have current
\* metrics from an agent (get_or_create_agent writes both tables in one
\* transaction, the ARP scanner never resets the flag).
AgentsOwnTheirDevice ==
  /\ \A a \in DOMAIN agents :
       /\ agents[a].device \in DOMAIN devices
       /\ devices[agents[a].device].mac = MacOf[a]
  /\ \A d \in DOMAIN devices :
       devices[d].hasAgent <=> \E a \in DOMAIN agents : agents[a].device = d
  /\ \A d \in metricRows : d \in DOMAIN devices /\ devices[d].hasAgent

\* Two rows of one MAC are never both without an agent: whatever the races with
\* the UDP thread, register_discovered_device does not insert a second one.
AgentlessUnique ==
  \A d, e \in DOMAIN devices :
    devices[d].mac = devices[e].mac /\ ~devices[d].hasAgent /\ ~devices[e].hasAgent => d = e

\* The look-up-then-insert race of the UDP and ARP threads duplicates a device
\* once and no more: at most two rows per MAC, for good.
AtMostTwoRowsPerMac == \A m \in Macs : Cardinality(RowsOfMac(m)) <= 2

\* Only devices with an agent are ever "disconnected"; the others are "inactive"
\* when the ARP scan misses them (mark_inactive_agents against
\* mark_unseen_devices_inactive).
AgentlessNeverDisconnected ==
  \A d \in DOMAIN devices : devices[d].status = "disconnected" => devices[d].hasAgent

\* While its row says "active", an agent's device is not shown "disconnected",
\* whatever heartbeats and health checks overlap, as long as no other uid shares
\* the device (the two status columns are written by partial UPDATEs).
ActiveAgentNotDisconnected ==
  \A a \in DOMAIN agents :
    /\ agents[a].status = "active"
    /\ \A b \in DOMAIN agents : agents[b].device = agents[a].device => b = a
    => devices[agents[a].device].status # "disconnected"

\* The checker and the UDP thread take their row locks in the same order, the agent
\* before its device, over many agents in one transaction of the checker and with
\* every autoflush it triggers: they can only block each other over a device that
\* the agent of the datagram shares with another uid.
DeadlockNeedsSharedDevice ==
  LockCycle =>
    \E b \in DOMAIN agents \ {udp.agent} : agents[b].device = agents[udp.agent].device

\* What the open transactions rely on: the rows they loaded are still there, an
\* agent being registered is still unknown, and a MAC that the ARP scanner did not
\* find has at most rows with an agent by now.
UdpInv ==
  /\ udp.pc \in {"heartbeat", "metrics", "heartbeatFlushed", "metricsFlushed"} =>
       udp.agent \in DOMAIN agents
  /\ udp.pc \in {"heartbeatFlushed", "metricsFlushed"} =>
       udp.dev = agents[udp.agent].device /\ udp.row \in DeviceRow
  /\ udp.pc \in {"metrics", "metricsFlushed", "register"} => udp.ip \in IPs
  /\ udp.pc = "register" => udp.agent \in Agents \ DOMAIN agents
  /\ udp.pc = "register" /\ udp.dev # 0 =>
       /\ udp.dev \in DOMAIN devices /\ devices[udp.dev].mac = MacOf[udp.agent]
       /\ udp.row \in DeviceRow
  /\ udp.pc = "save" => udp.dev \in DOMAIN devices /\ devices[udp.dev].hasAgent

CheckerInv == chk.stale \cup chk.visited \subseteq DOMAIN agents

ArpInv ==
  /\ arp.pc = "found" => arp.mac \in Macs /\ arp.ip \in IPs
  /\ arp.pc = "found" /\ arp.dev # 0 => arp.dev \in DOMAIN devices /\ arp.row \in DeviceRow
  /\ arp.pc = "found" /\ arp.dev = 0 =>
       \A d \in RowsOfMac(arp.mac) : devices[d].hasAgent

\* The inductive strengthening of the invariants above.
RegistryInv ==
  /\ TypeOK /\ AgentsOwnTheirDevice /\ AgentlessUnique /\ AgentlessNeverDisconnected
  /\ UdpInv /\ CheckerInv /\ ArpInv

\* The registry implements the append-only inventory: whatever the threads do, a
\* row keeps its MAC, has_agent is never taken back, an agent keeps its device.
KnownDevices ==
  [d \in DOMAIN devices |-> [mac |-> devices[d].mac, managed |-> devices[d].hasAgent]]
AgentDevices == [a \in DOMAIN agents |-> agents[a].device]
Inventory == INSTANCE DeviceInventory WITH
  inventory <- KnownDevices, binding <- AgentDevices
ImplementsInventory == Inventory!Spec

ShownActive(a) == a \in DOMAIN agents /\ devices[agents[a].device].status = "active"

\* An agent that stays up is shown active again and again: every lost race, every
\* rolled-back transaction and every restart is repaired by a later heartbeat,
\* unless the UDP thread has died.
AliveAgentRecovers ==
  \A a \in Agents : <>[](a \in up) => []<>ShownActive(a) \/ <>[](udp.pc = "dead")

\* The row of an agent that stops for good becomes and stays "inactive", even if
\* its last datagrams race the health checker.
DeadAgentMarked ==
  \A a \in Agents : <>[](a \notin up) =>
    <>[](a \in DOMAIN agents => agents[a].status = "inactive")

=============================================================================
