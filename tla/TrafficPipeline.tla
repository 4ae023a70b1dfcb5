--------------------------- MODULE TrafficPipeline ---------------------------
(***************************************************************************)
(* The analysis of rotated capture files (pipeline.py): one thread per     *)
(* file runs Zeek and writes the results, one repository transaction after *)
(* the other, to tables that later analyses and the ISP probe also write.  *)
(* Zeek takes up to two minutes and a file is rotated every thirty         *)
(* seconds, so threads overlap.                                            *)
(*                                                                         *)
(* Files are numbered in the order of rotation and a metric measured from  *)
(* a file is the number of the file.  The tables outlive the server: what  *)
(* they hold at first is from a file 0.                                    *)
(***************************************************************************)
EXTENDS Naturals, FiniteSets

CONSTANTS
  MaxFiles,  \* bound on rotated files
  MaxProbes, \* bound on measurements of the ISP probe
  MaxFaults, \* bound on failing transactions
  Hosts      \* devices of the inventory: they keep an address in 192.168 or 10

ASSUME BoundsAssumption ==
  MaxFiles \in Nat /\ MaxProbes \in Nat /\ MaxFaults \in Nat

VARIABLES
  job,       \* the thread of each file
  probe,     \* the ISP probe
  network,   \* network_current_metrics: 0 in traffic and isp is NULL
  traffic,   \* the traffic columns of device_current_metrics, 0: NULL
  reported,  \* devices that have a row there, which their agent creates
  tables,    \* top_talker_current and recent_connection: files with rows
  snapshots, \* network_snapshot, by file
  endpoints, \* endpoint_snapshot: file and device
  rankings,  \* top_talker: file and device
  faults,
  history    \* for the properties only

vars == <<job, probe, network, traffic, reported, tables, snapshots, endpoints, rankings,
          faults, history>>
metrics == <<network, traffic, reported>>
records == <<snapshots, endpoints, rankings>>

Files == 1..MaxFiles
Past == 0..MaxFiles
Tables == {"talkers", "recent"}
Row == [here : BOOLEAN, traffic : 0..MaxFiles, isp : 0..MaxProbes]
NoRow == [here |-> FALSE, traffic |-> 0, isp |-> 0]

\* hosts, todo: devices seen in the file, those still to save; ranked: those among the
\* ten addresses, of the inventory or not, that consumed most;
\* loaded: the row of network_current_metrics that was read;
\* stage, seen, locked: of the transaction that replaces a table.
Job == [pc : {"wait", "zeek", "devices", "load", "network", "snapshot", "endpoints", "ranking",
              "end"} \cup Tables,
        hosts : SUBSET Hosts, todo : SUBSET Hosts, ranked : SUBSET Hosts, loaded : Row,
        stage : {"begin", "delete", "insert"}, seen : SUBSET Past, locked : SUBSET Past]
NewJob == [pc |-> "wait", hosts |-> {}, todo |-> {}, ranked |-> {}, loaded |-> NoRow,
           stage |-> "begin", seen |-> {}, locked |-> {}]

TypeOK ==
  /\ job \in [Files -> Job]
  /\ probe \in [here : BOOLEAN, busy : BOOLEAN, count : 0..MaxProbes]
  /\ network \in Row /\ traffic \in [Hosts -> 0..MaxFiles] /\ reported \subseteq Hosts
  /\ tables \in [Tables -> SUBSET Past]
  /\ snapshots \subseteq Files /\ endpoints \cup rankings \subseteq Files \X Hosts
  /\ faults \in 0..MaxFaults
  /\ history \in [together : SUBSET SUBSET Files, met : [Tables -> SUBSET SUBSET Files],
                 isp : 0..MaxProbes]

Init ==
  /\ job = [f \in Files |-> NewJob]
  /\ probe = [here |-> FALSE, busy |-> FALSE, count |-> 0]
  /\ \/ network = NoRow /\ tables = [t \in Tables |-> {}] /\ reported = {}
     \/ /\ network = [NoRow EXCEPT !.here = TRUE] /\ tables = [t \in Tables |-> {0}]
        /\ reported = Hosts
  /\ traffic = [h \in Hosts |-> 0] /\ snapshots = {} /\ endpoints = {} /\ rankings = {}
  /\ faults = 0
  /\ history = [together |-> {}, met |-> [t \in Tables |-> {}], isp |-> 0]

-----------------------------------------------------------------------------
At(f, pc) == job[f].pc = pc
JobIs(f, thread) == job' = [job EXCEPT ![f] = thread]
Goto(f, pc) == JobIs(f, [job[f] EXCEPT !.pc = pc])
Fault == faults < MaxFaults /\ faults' = faults + 1
Running == {f \in Files : job[f].pc \notin {"wait", "end"}}

\* Mutation: threads are not started in the order of the files.
RotateAny(f) ==
  /\ At(f, "wait")
  /\ Goto(f, "zeek")
  /\ history' = [history EXCEPT !.together = history.together \cup {{f, g} : g \in Running}]
  /\ UNCHANGED <<probe, metrics, tables, records, faults>>

\* on_rotation_async: a thread for the next file.
Rotate(f) ==
  /\ At(f, "wait") /\ \A g \in Files : g < f => ~At(g, "wait")
  /\ Goto(f, "zeek")
  /\ history' = [history EXCEPT !.together = history.together \cup {{f, g} : g \in Running}]
  /\ UNCHANGED <<probe, metrics, tables, records, faults>>

\* The file is missing, Zeek fails or takes too long, the logs cannot be parsed, or
\* there is no connection in them.
NothingMeasured(f) ==
  /\ At(f, "zeek") /\ Goto(f, "end")
  /\ UNCHANGED <<probe, metrics, tables, records, faults, history>>

\* There are connections: the traffic of some devices, perhaps of none, is known.
\* Who of them is ranked also depends on the addresses outside the inventory.
Measure(f) ==
  /\ At(f, "zeek")
  /\ \E hosts \in SUBSET Hosts : \E ranked \in SUBSET hosts :
       JobIs(f, [job[f] EXCEPT !.pc = "devices", !.hosts = hosts, !.todo = hosts,
                               !.ranked = ranked])
  /\ UNCHANGED <<probe, metrics, tables, records, faults, history>>

-----------------------------------------------------------------------------
\* update_device_traffic_metrics: no row, no update; errors are swallowed.
SaveTraffic(f, h) ==
  /\ At(f, "devices") /\ h \in job[f].todo
  /\ JobIs(f, [job[f] EXCEPT !.todo = job[f].todo \ {h}])
  /\ \/ /\ traffic' = IF h \in reported THEN [traffic EXCEPT ![h] = f] ELSE traffic
        /\ UNCHANGED faults
     \/ Fault /\ UNCHANGED traffic
  /\ UNCHANGED <<probe, network, reported, tables, records, history>>

DevicesSaved(f) ==
  /\ At(f, "devices") /\ job[f].todo = {} /\ Goto(f, "load")
  /\ UNCHANGED <<probe, metrics, tables, records, faults, history>>

\* update_network_metrics reads the row ...
NetworkLoad(f) ==
  /\ At(f, "load")
  /\ JobIs(f, [job[f] EXCEPT !.pc = "network", !.loaded = network])
  /\ UNCHANGED <<probe, metrics, tables, records, faults, history>>

\* Mutation: the whole row is written.
NetworkCommitRow(f) ==
  /\ At(f, "network") /\ JobIs(f, [job[f] EXCEPT !.pc = "talkers", !.loaded = NoRow])
  /\ \/ /\ ~(~job[f].loaded.here /\ network.here)
        /\ network' = [job[f].loaded EXCEPT !.here = TRUE, !.traffic = f]
        /\ UNCHANGED faults
     \/ ~job[f].loaded.here /\ network.here /\ UNCHANGED <<network, faults>>
     \/ Fault /\ UNCHANGED network
  /\ UNCHANGED <<probe, traffic, reported, tables, records, history>>

\* ... and writes its own columns, or inserts it: a row that somebody else has
\* inserted meanwhile is a primary key error, and what was measured is dropped.
NetworkCommit(f) ==
  /\ At(f, "network") /\ JobIs(f, [job[f] EXCEPT !.pc = "talkers", !.loaded = NoRow])
  /\ \/ /\ job[f].loaded.here = network.here
        /\ network' = [network EXCEPT !.here = TRUE, !.traffic = f]
        /\ UNCHANGED faults
     \/ job[f].loaded.here # network.here /\ UNCHANGED <<network, faults>>
     \/ Fault /\ UNCHANGED network
  /\ UNCHANGED <<probe, traffic, reported, tables, records, history>>

-----------------------------------------------------------------------------
\* update_top_talkers, save_recent_connections: one transaction that deletes what
\* its snapshot of the table shows and inserts the rows of this file.
Replacing(t) == {f \in Files : At(f, t) /\ job[f].stage # "begin"}

ReplaceStart(f, t) ==
  /\ At(f, t) /\ job[f].stage = "begin"
  /\ JobIs(f, [job[f] EXCEPT !.stage = "delete", !.seen = tables[t]])
  /\ history' = [history EXCEPT !.met =
       [history.met EXCEPT ![t] = history.met[t] \cup {{f, g} : g \in Replacing(t)}]]
  /\ UNCHANGED <<probe, metrics, tables, records, faults>>

\* Mutation: the rows are locked, shared, as soon as they are read.
ReplaceDeleteUpgrading(f, t) ==
  /\ At(f, t) /\ job[f].stage = "delete"
  /\ \A g \in Replacing(t) \ {f} : job[g].seen \cap job[f].seen = {}
  /\ JobIs(f, [job[f] EXCEPT !.stage = "insert", !.locked = job[f].seen \cap tables[t]])
  /\ UNCHANGED <<probe, metrics, tables, records, faults, history>>

\* DELETE waits for the transaction that is deleting the same rows.
ReplaceDelete(f, t) ==
  /\ At(f, t) /\ job[f].stage = "delete"
  /\ \A g \in Replacing(t) \ {f} : job[g].locked \cap job[f].seen = {}
  /\ JobIs(f, [job[f] EXCEPT !.stage = "insert", !.locked = job[f].seen \cap tables[t]])
  /\ UNCHANGED <<probe, metrics, tables, records, faults, history>>

After(t) == IF t = "talkers" THEN "snapshot" ELSE "end"
ReplaceEnd(f, t) ==
  JobIs(f, [job[f] EXCEPT !.pc = After(t), !.stage = "begin", !.seen = {}, !.locked = {}])

\* Addresses that are not in the inventory have no rows, so there may be none of the
\* ranking, or of the connections to the outside.
NewRows(f, t) ==
  {rows \in {{}, {f}} : t = "talkers" => (rows = {f} <=> job[f].ranked # {})}

\* Mutation: the old rows are deleted only if there are none to insert.
ReplaceCommitLazy(f, t) ==
  /\ At(f, t) /\ job[f].stage = "insert"
  /\ ReplaceEnd(f, t)
  /\ \/ /\ \E rows \in NewRows(f, t) :
             tables' = [tables EXCEPT ![t] = IF rows = {} THEN tables[t] \ job[f].locked
                                             ELSE tables[t] \cup rows]
        /\ UNCHANGED faults
     \/ Fault /\ UNCHANGED tables
  /\ UNCHANGED <<probe, metrics, records, history>>

ReplaceCommit(f, t) ==
  /\ At(f, t) /\ job[f].stage = "insert"
  /\ ReplaceEnd(f, t)
  /\ \/ /\ \E rows \in NewRows(f, t) :
             tables' = [tables EXCEPT ![t] = (tables[t] \ job[f].locked) \cup rows]
        /\ UNCHANGED faults
     \/ Fault /\ UNCHANGED tables
  /\ UNCHANGED <<probe, metrics, records, history>>

-----------------------------------------------------------------------------
\* Mutation: the rows are saved without a snapshot.
SaveSnapshotAlways(f) ==
  /\ At(f, "snapshot")
  /\ JobIs(f, [job[f] EXCEPT !.pc = "endpoints", !.todo = job[f].hosts])
  /\ \/ snapshots' = snapshots \cup {f} /\ UNCHANGED faults
     \/ Fault /\ UNCHANGED snapshots
  /\ UNCHANGED <<probe, metrics, tables, endpoints, rankings, history>>

\* save_network_snapshot returns -1 also if only the refresh after the commit
\* fails; nothing refers to the snapshot then.
SaveSnapshot(f) ==
  /\ At(f, "snapshot")
  /\ \/ /\ snapshots' = snapshots \cup {f}
        /\ JobIs(f, [job[f] EXCEPT !.pc = "endpoints", !.todo = job[f].hosts])
        /\ UNCHANGED faults
     \/ Fault /\ Goto(f, "recent") /\ snapshots' \in {snapshots, snapshots \cup {f}}
  /\ UNCHANGED <<probe, metrics, tables, endpoints, rankings, history>>

\* An error of the look-up of the device is not caught here but in process():
\* the thread ends.
SaveEndpoint(f, h) ==
  /\ At(f, "endpoints") /\ h \in job[f].todo
  /\ \/ /\ JobIs(f, [job[f] EXCEPT !.todo = job[f].todo \ {h}])
        /\ \/ endpoints' = endpoints \cup {<<f, h>>} /\ UNCHANGED faults
           \/ Fault /\ UNCHANGED endpoints
     \/ Fault /\ Goto(f, "end") /\ UNCHANGED endpoints
  /\ UNCHANGED <<probe, metrics, tables, snapshots, rankings, history>>

EndpointsSaved(f) ==
  /\ At(f, "endpoints") /\ job[f].todo = {} /\ Goto(f, "ranking")
  /\ UNCHANGED <<probe, metrics, tables, records, faults, history>>

\* save_top_talker_snapshot: rows only for the ranked devices of the inventory.
SaveRanking(f) ==
  /\ At(f, "ranking") /\ Goto(f, "recent")
  /\ \/ /\ rankings' = rankings \cup ({f} \X job[f].ranked)
        /\ UNCHANGED faults
     \/ Fault /\ UNCHANGED rankings
  /\ UNCHANGED <<probe, metrics, tables, snapshots, endpoints, history>>

-----------------------------------------------------------------------------
\* The probe measures, and update_isp_metrics reads the row, if there is one ...
ProbeLoad ==
  /\ ~probe.busy /\ probe.count < MaxProbes
  /\ probe' = [here |-> network.here, busy |-> TRUE, count |-> probe.count + 1]
  /\ UNCHANGED <<job, metrics, tables, records, faults, history>>

\* ... and writes it, like NetworkCommit.
ProbeCommit ==
  /\ probe.busy
  /\ probe' = [probe EXCEPT !.busy = FALSE, !.here = FALSE]
  /\ \/ /\ probe.here = network.here
        /\ network' = [network EXCEPT !.here = TRUE, !.isp = probe.count]
        /\ history' = [history EXCEPT !.isp = probe.count]
        /\ UNCHANGED faults
     \/ probe.here # network.here /\ UNCHANGED <<network, faults, history>>
     \/ Fault /\ UNCHANGED <<network, history>>
  /\ UNCHANGED <<job, traffic, reported, tables, records>>

\* save_device_metrics for the first datagram of a device.
Report(h) ==
  /\ reported' = reported \cup {h}
  /\ UNCHANGED <<job, probe, network, traffic, tables, records, faults, history>>

\* The server is stopped and started again: its threads and their transactions
\* are gone.
Restart ==
  /\ Fault
  /\ job' = [f \in Files |-> IF f \in Running THEN [NewJob EXCEPT !.pc = "end"] ELSE job[f]]
  /\ probe' = [probe EXCEPT !.busy = FALSE, !.here = FALSE]
  /\ UNCHANGED <<metrics, tables, records, history>>

Step(f) ==
  \/ NothingMeasured(f) \/ Measure(f) \/ DevicesSaved(f) \/ NetworkLoad(f) \/ NetworkCommit(f)
  \/ SaveSnapshot(f) \/ EndpointsSaved(f) \/ SaveRanking(f)
  \/ \E h \in Hosts : SaveTraffic(f, h) \/ SaveEndpoint(f, h)
  \/ \E t \in Tables : ReplaceStart(f, t) \/ ReplaceDelete(f, t) \/ ReplaceCommit(f, t)

Next ==
  \/ \E f \in Files : Rotate(f) \/ Step(f)
  \/ ProbeLoad \/ ProbeCommit \/ Restart
  \/ \E h \in Hosts : Report(h)

Spec == Init /\ [][Next]_vars
\* Zeek is stopped after 120 s, and the threads run.
FairSpec == Spec /\ \A f \in Files : WF_vars(Step(f))

-----------------------------------------------------------------------------
(***************************************************************************)
(* Properties.                                                             *)
(***************************************************************************)
\* The probe and the analyses share a row, and none overwrites what the other
\* wrote: the row has the last measurement of the ISP that was committed.
IspKept == network.here => network.isp = history.isp

\* Two rankings, or two lists of connections, are in a table at once only if the
\* transactions that wrote them overlapped.
MixedOnlyIfOverlap ==
  \A t \in Tables : \A f, g \in tables[t] : f # g => {f, g} \in history.met[t]

\* A current metric goes back to an older file only if the threads of the two
\* files overlapped.
BackOnlyIfOverlap ==
  [][/\ network'.traffic < network.traffic =>
          {network'.traffic, network.traffic} \in history.together
     /\ \A h \in Hosts : traffic'[h] < traffic[h] =>
          {traffic'[h], traffic[h]} \in history.together]_vars

\* The rows of a cycle refer to its snapshot, and unless a transaction failed a
\* cycle that has a snapshot has them all in the end: one of each device that was
\* seen, and one of each device of the inventory that was among the first ten.
SnapshotsComplete ==
  /\ \A row \in endpoints \cup rankings : row[1] \in snapshots
  /\ faults = 0 => \A f \in snapshots : At(f, "end") =>
       {f} \X job[f].hosts \subseteq endpoints /\ {f} \X job[f].ranked \subseteq rankings

\* An analysis ends, whatever fails and whoever holds the rows it wants to delete.
PipelinesEnd == \A f \in Files : At(f, "zeek") ~> At(f, "end")

=============================================================================
