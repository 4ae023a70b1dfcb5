----------------------- MODULE TrafficPipeline_proofs -----------------------
(***************************************************************************)
(* Proofs about TrafficPipeline: what overlapping analyses and the probe   *)
(* do to the tables they share, for any number of files, devices, probes   *)
(* and failures.                                                           *)
(***************************************************************************)
EXTENDS TrafficPipeline, TLAPS

\* A transaction that replaces a table is open only in the step of that table.
StageInv == \A f \in Files : job[f].stage # "begin" => job[f].pc \in Tables

\* Threads start in the order of the files, and a thread that runs has met those
\* that started after it.
OrderInv ==
  \A f, g \in Files : f < g /\ ~At(g, "wait") =>
    ~At(f, "wait") /\ (f \in Running => {f, g} \in history.together)

\* A metric comes from a file whose thread has started.
StartedInv ==
  /\ network.traffic # 0 => ~At(network.traffic, "wait")
  /\ \A h \in Hosts : traffic[h] # 0 => ~At(traffic[h], "wait")

IspInv == network.isp = history.isp

\* What an open transaction does not delete of a table was written by one that
\* it overlaps.
Deletes(f) == IF job[f].stage = "delete" THEN job[f].seen ELSE job[f].locked
ReplaceInv ==
  \A t \in Tables : \A f \in Replacing(t) :
    /\ \A g \in Replacing(t) : f # g => {f, g} \in history.met[t]
    /\ \A x \in tables[t] \ Deletes(f) : x # f => {f, x} \in history.met[t]

\* How far the rows of a snapshot have been saved, unless a transaction failed.
SnapshotInv ==
  /\ \A f \in Files : job[f].pc \in {"endpoints", "ranking"} => f \in snapshots
  /\ \A f \in snapshots : job[f].pc \in {"endpoints", "ranking", "recent", "end"}
  /\ faults = 0 => \A f \in snapshots :
       /\ \A h \in job[f].hosts :
            <<f, h>> \in endpoints \/ (At(f, "endpoints") /\ h \in job[f].todo)
       /\ job[f].pc \in {"recent", "end"} => \A h \in job[f].ranked : <<f, h>> \in rankings

PipelineInv ==
  /\ TypeOK /\ StageInv /\ OrderInv /\ StartedInv /\ IspInv
  /\ ReplaceInv /\ MixedOnlyIfOverlap /\ SnapshotInv /\ SnapshotsComplete

-----------------------------------------------------------------------------
LEMMA InitPipelineInv == Init => PipelineInv
<1>. SUFFICES ASSUME Init PROVE PipelineInv
  OBVIOUS
<1>0. NoRow \in Row /\ 0 \in Past
  BY BoundsAssumption DEF NoRow, Row, Past
<1>1. NewJob \in Job /\ [NoRow EXCEPT !.here = TRUE] \in Row
  <2>1. NewJob \in Job
    BY <1>0 DEF NewJob, Job
  <2>2. \A row \in Row : [row EXCEPT !.here = TRUE] \in Row
    BY DEF Row
  <2>. QED
    BY <1>0, <2>1, <2>2
<1>2. job = [f \in Files |-> NewJob] /\ \A f \in Files : job[f] = NewJob
  BY DEF Init
<1>3. TypeOK
  <2>1. network \in Row /\ tables \in [Tables -> SUBSET Past] /\ reported \subseteq Hosts
    <3>1. CASE network = NoRow /\ tables = [t \in Tables |-> {}] /\ reported = {}
      BY <1>0, <3>1
    <3>2. CASE /\ network = [NoRow EXCEPT !.here = TRUE] /\ tables = [t \in Tables |-> {0}]
               /\ reported = Hosts
      BY <1>0, <1>1, <3>2
    <3>. QED
      BY <3>1, <3>2 DEF Init
  <2>2. probe \in [here : BOOLEAN, busy : BOOLEAN, count : 0..MaxProbes]
    BY <1>0, BoundsAssumption DEF Init
  <2>3. history \in [together : SUBSET SUBSET Files, met : [Tables -> SUBSET SUBSET Files],
                     isp : 0..MaxProbes]
    BY BoundsAssumption DEF Init
  <2>. QED
    BY <1>1, <1>2, <2>1, <2>2, <2>3, BoundsAssumption DEF Init, TypeOK
<1>4. StageInv /\ OrderInv /\ ReplaceInv
  BY <1>2 DEF StageInv, OrderInv, ReplaceInv, Replacing, At, NewJob
<1>5. StartedInv /\ IspInv
  BY DEF Init, StartedInv, IspInv, NoRow
<1>6. MixedOnlyIfOverlap
  BY DEF Init, MixedOnlyIfOverlap
<1>7. SnapshotInv /\ SnapshotsComplete
  BY <1>2 DEF Init, SnapshotInv, SnapshotsComplete, At, NewJob
<1>. QED
  BY <1>3, <1>4, <1>5, <1>6, <1>7 DEF PipelineInv

-----------------------------------------------------------------------------
\* The steps of a thread change its own record.
LEMMA JobIsFacts ==
  ASSUME TypeOK, NEW f \in Files, NEW new \in Job, JobIs(f, new)
  PROVE  /\ job' \in [Files -> Job] /\ job'[f] = new
         /\ \A g \in Files : g # f => job'[g] = job[g]
BY DEF TypeOK, JobIs

Steps ==
  {"wait", "zeek", "devices", "load", "network", "snapshot", "endpoints", "ranking", "end"}
    \cup Tables

LEMMA PcFacts ==
  ASSUME NEW j \in Job, NEW pc \in Steps
  PROVE  /\ [j EXCEPT !.pc = pc] \in Job
         /\ [j EXCEPT !.pc = pc].pc = pc
         /\ [j EXCEPT !.pc = pc].stage = j.stage
         /\ [j EXCEPT !.pc = pc].hosts = j.hosts
         /\ [j EXCEPT !.pc = pc].ranked = j.ranked
         /\ [j EXCEPT !.pc = pc].todo = j.todo
BY DEF Job, Steps

LEMMA TodoFacts ==
  ASSUME NEW j \in Job, NEW todo \in SUBSET Hosts
  PROVE  /\ [j EXCEPT !.todo = todo] \in Job
         /\ [j EXCEPT !.todo = todo].pc = j.pc
         /\ [j EXCEPT !.todo = todo].stage = j.stage
         /\ [j EXCEPT !.todo = todo].hosts = j.hosts
         /\ [j EXCEPT !.todo = todo].ranked = j.ranked
         /\ [j EXCEPT !.todo = todo].todo = todo
BY DEF Job

Measured(j, hosts, ranked) ==
  [j EXCEPT !.pc = "devices", !.hosts = hosts, !.todo = hosts, !.ranked = ranked]

LEMMA HostsFacts ==
  ASSUME NEW j \in Job, NEW hosts \in SUBSET Hosts, NEW ranked \in SUBSET Hosts
  PROVE  /\ Measured(j, hosts, ranked) \in Job
         /\ Measured(j, hosts, ranked).pc = "devices"
         /\ Measured(j, hosts, ranked).stage = j.stage
BY DEF Job, Measured

LEMMA SnapshotFacts ==
  ASSUME NEW j \in Job
  PROVE  /\ [j EXCEPT !.pc = "endpoints", !.todo = j.hosts] \in Job
         /\ [j EXCEPT !.pc = "endpoints", !.todo = j.hosts].pc = "endpoints"
         /\ [j EXCEPT !.pc = "endpoints", !.todo = j.hosts].stage = j.stage
         /\ [j EXCEPT !.pc = "endpoints", !.todo = j.hosts].hosts = j.hosts
         /\ [j EXCEPT !.pc = "endpoints", !.todo = j.hosts].ranked = j.ranked
         /\ [j EXCEPT !.pc = "endpoints", !.todo = j.hosts].todo = j.hosts
BY DEF Job

\* Steps outside the replacing transactions.
PlainStep(f) ==
  \/ NothingMeasured(f) \/ Measure(f) \/ DevicesSaved(f) \/ NetworkLoad(f) \/ NetworkCommit(f)
  \/ SaveSnapshot(f) \/ EndpointsSaved(f) \/ SaveRanking(f)
  \/ \E h \in Hosts : SaveTraffic(f, h) \/ SaveEndpoint(f, h)

\* What such a step does to its thread.
Progress(f, new) ==
  /\ new \in Job /\ JobIs(f, new)
  /\ new.stage = job[f].stage
  /\ job[f].pc \notin {"wait", "end"} \cup Tables /\ new.pc # "wait"
  /\ job[f].pc # "zeek" => new.hosts = job[f].hosts /\ new.ranked = job[f].ranked

LEMMA ProgressFacts ==
  ASSUME TypeOK, NEW f \in Files, PlainStep(f)
  PROVE  /\ \E new \in Job : Progress(f, new)
         /\ UNCHANGED <<probe, reported, tables, history>>
<1>1. job[f] \in Job /\ network \in Row /\ NoRow \in Row
  BY BoundsAssumption DEF TypeOK, NoRow, Row
<1>9. \A h \in Hosts : job[f].todo \ {h} \in SUBSET Hosts
  BY <1>1 DEF Job
<1>2. CASE NothingMeasured(f) \/ DevicesSaved(f) \/ EndpointsSaved(f) \/ SaveRanking(f)
  <2>1. PICK pc \in {"end", "load", "ranking", "recent"} : Goto(f, pc)
    BY <1>2 DEF NothingMeasured, DevicesSaved, EndpointsSaved, SaveRanking
  <2>. DEFINE new == [job[f] EXCEPT !.pc = pc]
  <2>2. /\ new \in Job /\ new.pc = pc /\ new.stage = job[f].stage
        /\ new.hosts = job[f].hosts /\ new.ranked = job[f].ranked
    BY <1>1, PcFacts DEF Steps, Tables
  <2>3. JobIs(f, new)
    BY <2>1 DEF Goto
  <2>4. job[f].pc \notin {"wait", "end"} \cup Tables
    BY <1>2 DEF NothingMeasured, DevicesSaved, EndpointsSaved, SaveRanking, At, Tables
  <2>. HIDE DEF new
  <2>5. Progress(f, new)
    BY <2>2, <2>3, <2>4 DEF Progress
  <2>. QED
    BY <1>2, <2>2, <2>5 DEF NothingMeasured, DevicesSaved, EndpointsSaved, SaveRanking, metrics
<1>3. CASE Measure(f)
  <2>1. PICK hosts \in SUBSET Hosts, ranked \in SUBSET Hosts :
          JobIs(f, Measured(job[f], hosts, ranked))
    BY <1>3 DEF Measure, Measured
  <2>. DEFINE new == Measured(job[f], hosts, ranked)
  <2>2. /\ new \in Job /\ new.pc = "devices" /\ new.stage = job[f].stage
    BY <1>1, HostsFacts
  <2>. HIDE DEF new
  <2>3. Progress(f, new)
    BY <1>3, <2>1, <2>2 DEF Progress, Measure, At, Tables, new
  <2>. QED
    BY <1>3, <2>2, <2>3 DEF Measure, metrics
<1>4. ASSUME NEW h \in Hosts, SaveTraffic(f, h)
      PROVE  /\ \E new \in Job : Progress(f, new)
             /\ UNCHANGED <<probe, reported, tables, history>>
  <2>. DEFINE new == [job[f] EXCEPT !.todo = job[f].todo \ {h}]
  <2>1. /\ new \in Job /\ new.pc = job[f].pc /\ new.stage = job[f].stage
        /\ new.hosts = job[f].hosts /\ new.ranked = job[f].ranked
    BY <1>1, <1>9, TodoFacts
  <2>2. Progress(f, new)
    BY <1>4, <2>1 DEF Progress, SaveTraffic, At, Tables
  <2>. QED
    BY <1>4, <2>1, <2>2 DEF SaveTraffic
<1>5. CASE NetworkLoad(f)
  <2>. DEFINE new == [job[f] EXCEPT !.pc = "network", !.loaded = network]
  <2>1. /\ new \in Job /\ new.pc = "network" /\ new.stage = job[f].stage
        /\ new.hosts = job[f].hosts /\ new.ranked = job[f].ranked
    BY <1>1 DEF Job, Tables
  <2>2. Progress(f, new)
    BY <1>5, <2>1 DEF Progress, NetworkLoad, At, Tables
  <2>. QED
    BY <1>5, <2>1, <2>2 DEF NetworkLoad, metrics
<1>6. CASE NetworkCommit(f)
  <2>. DEFINE new == [job[f] EXCEPT !.pc = "talkers", !.loaded = NoRow]
  <2>1. /\ new \in Job /\ new.pc = "talkers" /\ new.stage = job[f].stage
        /\ new.hosts = job[f].hosts /\ new.ranked = job[f].ranked
    BY <1>1 DEF Job, Tables
  <2>2. Progress(f, new)
    BY <1>6, <2>1 DEF Progress, NetworkCommit, At, Tables
  <2>. QED
    BY <1>6, <2>1, <2>2 DEF NetworkCommit
<1>7. CASE SaveSnapshot(f)
  <2>. DEFINE here == [job[f] EXCEPT !.pc = "endpoints", !.todo = job[f].hosts]
              gone == [job[f] EXCEPT !.pc = "recent"]
  <2>1. /\ here \in Job /\ here.pc = "endpoints"
        /\ here.stage = job[f].stage /\ here.hosts = job[f].hosts /\ here.ranked = job[f].ranked
    BY <1>1, SnapshotFacts
  <2>2. /\ gone \in Job /\ gone.pc = "recent" /\ gone.stage = job[f].stage
        /\ gone.hosts = job[f].hosts /\ gone.ranked = job[f].ranked
    BY <1>1, PcFacts DEF Steps, Tables
  <2>3. Progress(f, here) \/ Progress(f, gone)
    BY <1>7, <2>1, <2>2 DEF Progress, SaveSnapshot, Goto, At, Tables
  <2>. QED
    BY <1>7, <2>1, <2>2, <2>3 DEF SaveSnapshot, metrics
<1>8. ASSUME NEW h \in Hosts, SaveEndpoint(f, h)
      PROVE  /\ \E new \in Job : Progress(f, new)
             /\ UNCHANGED <<probe, reported, tables, history>>
  <2>. DEFINE on == [job[f] EXCEPT !.todo = job[f].todo \ {h}]
              gone == [job[f] EXCEPT !.pc = "end"]
  <2>1. /\ on \in Job /\ on.pc = job[f].pc /\ on.stage = job[f].stage
        /\ on.hosts = job[f].hosts /\ on.ranked = job[f].ranked
    BY <1>1, <1>9, TodoFacts
  <2>2. /\ gone \in Job /\ gone.pc = "end" /\ gone.stage = job[f].stage
        /\ gone.hosts = job[f].hosts /\ gone.ranked = job[f].ranked
    BY <1>1, PcFacts DEF Steps, Tables
  <2>3. Progress(f, on) \/ Progress(f, gone)
    BY <1>8, <2>1, <2>2 DEF Progress, SaveEndpoint, Goto, At, Tables
  <2>. QED
    BY <1>8, <2>1, <2>2, <2>3 DEF SaveEndpoint, metrics
<1>. QED
  BY <1>2, <1>3, <1>4, <1>5, <1>6, <1>7, <1>8 DEF PlainStep

\* A thread starts.
LEMMA RotateFacts ==
  ASSUME TypeOK, NEW f \in Files, Rotate(f)
  PROVE  /\ job' \in [Files -> Job] /\ job'[f].pc = "zeek" /\ job'[f].stage = job[f].stage
         /\ \A g \in Files : g # f => job'[g] = job[g]
         /\ history'.together = history.together \cup {{f, g} : g \in Running}
         /\ history'.met = history.met /\ history'.isp = history.isp
         /\ history' \in [together : SUBSET SUBSET Files, met : [Tables -> SUBSET SUBSET Files],
                           isp : 0..MaxProbes]
<1>. DEFINE new == [job[f] EXCEPT !.pc = "zeek"]
<1>1. job[f] \in Job
  BY DEF TypeOK
<1>2. new \in Job /\ new.pc = "zeek" /\ new.stage = job[f].stage
  BY <1>1, PcFacts DEF Steps
<1>3. JobIs(f, new)
  BY DEF Rotate, Goto
<1>. HIDE DEF new
<1>4. /\ job' \in [Files -> Job] /\ job'[f].pc = "zeek" /\ job'[f].stage = job[f].stage
      /\ \A g \in Files : g # f => job'[g] = job[g]
  BY <1>2, <1>3, JobIsFacts
<1>. DEFINE pairs == {{f, g} : g \in Running}
<1>5. history.together \cup pairs \in SUBSET SUBSET Files
  BY DEF TypeOK, Running
<1>6. history' = [history EXCEPT !.together = history.together \cup pairs]
  BY DEF Rotate
<1>. HIDE DEF pairs
<1>7. /\ history'.together = history.together \cup pairs
      /\ history'.met = history.met /\ history'.isp = history.isp
      /\ history' \in [together : SUBSET SUBSET Files, met : [Tables -> SUBSET SUBSET Files],
                        isp : 0..MaxProbes]
  BY <1>5, <1>6 DEF TypeOK
<1>. QED
  BY <1>4, <1>7 DEF pairs

\* A replacing transaction: it begins with what is in the table, locks what of that
\* is still there, and ends.
LEMMA ReplaceStartFacts ==
  ASSUME TypeOK, NEW f \in Files, NEW t \in Tables, ReplaceStart(f, t)
  PROVE  \E new \in Job :
           /\ JobIs(f, new) /\ new.pc = t /\ new.stage = "delete" /\ new.seen = tables[t]
           /\ new.hosts = job[f].hosts /\ new.ranked = job[f].ranked
<1>. DEFINE new == [job[f] EXCEPT !.stage = "delete", !.seen = tables[t]]
<1>1. job[f] \in Job /\ tables[t] \in SUBSET Past
  BY DEF TypeOK
<1>2. /\ new \in Job /\ new.pc = job[f].pc /\ new.stage = "delete" /\ new.seen = tables[t]
      /\ new.hosts = job[f].hosts /\ new.ranked = job[f].ranked
  BY <1>1 DEF Job
<1>. QED
  BY <1>2 DEF ReplaceStart, At

LEMMA ReplaceDeleteFacts ==
  ASSUME TypeOK, NEW f \in Files, NEW t \in Tables, ReplaceDelete(f, t)
  PROVE  \E new \in Job :
           /\ JobIs(f, new) /\ new.pc = t /\ new.stage = "insert"
           /\ new.locked = job[f].seen \cap tables[t] /\ new.hosts = job[f].hosts
           /\ new.ranked = job[f].ranked
<1>. DEFINE locked == job[f].seen \cap tables[t]
            new == [job[f] EXCEPT !.stage = "insert", !.locked = locked]
<1>1. job[f] \in Job /\ locked \in SUBSET Past
  BY DEF TypeOK
<1>. HIDE DEF locked
<1>2. /\ new \in Job /\ new.pc = job[f].pc /\ new.stage = "insert" /\ new.locked = locked
      /\ new.hosts = job[f].hosts /\ new.ranked = job[f].ranked
  BY <1>1 DEF Job
<1>3. JobIs(f, new) /\ job[f].pc = t
  BY DEF ReplaceDelete, At, locked
<1>. QED
  BY <1>2, <1>3 DEF locked

LEMMA ReplaceCommitFacts ==
  ASSUME TypeOK, NEW f \in Files, NEW t \in Tables, ReplaceCommit(f, t)
  PROVE  /\ \E new \in Job :
              /\ JobIs(f, new) /\ new.pc = After(t) /\ new.stage = "begin"
              /\ new.hosts = job[f].hosts /\ new.ranked = job[f].ranked
         /\ tables' \in [Tables -> SUBSET Past]
         /\ \A s \in Tables : tables'[s] = tables[s]
              \/ (s = t /\ tables'[s] \subseteq (tables[s] \ job[f].locked) \cup {f})
<1>. DEFINE new == [job[f] EXCEPT !.pc = After(t), !.stage = "begin", !.seen = {}, !.locked = {}]
<1>1. job[f] \in Job /\ After(t) \in {"snapshot", "end"} /\ tables[t] \in SUBSET Past
  BY DEF TypeOK, After
<1>2. /\ new \in Job /\ new.pc = After(t) /\ new.stage = "begin"
      /\ new.hosts = job[f].hosts /\ new.ranked = job[f].ranked
  BY <1>1 DEF Job
<1>3. JobIs(f, new)
  BY DEF ReplaceCommit, ReplaceEnd
<1>4. PICK rows \in SUBSET Past :
        /\ rows \subseteq (tables[t] \ job[f].locked) \cup {f}
        /\ tables' = [tables EXCEPT ![t] = rows] \/ tables' = tables
  <2>1. ASSUME NEW new_rows \in NewRows(f, t)
        PROVE  /\ (tables[t] \ job[f].locked) \cup new_rows \in SUBSET Past
               /\ new_rows \subseteq {f}
    BY <1>1, <2>1, BoundsAssumption DEF NewRows, Past, Files
  <2>2. CASE \E new_rows \in NewRows(f, t) :
               tables' = [tables EXCEPT ![t] = (tables[t] \ job[f].locked) \cup new_rows]
    BY <2>1, <2>2
  <2>3. CASE tables' = tables
    <3>1. {} \in SUBSET Past /\ {} \subseteq (tables[t] \ job[f].locked) \cup {f}
      OBVIOUS
    <3>. QED
      BY <2>3, <3>1
  <2>. QED
    BY <2>2, <2>3 DEF ReplaceCommit
<1>. HIDE DEF new
<1>6. /\ tables' \in [Tables -> SUBSET Past]
      /\ \A s \in Tables : tables'[s] = tables[s] \/ (s = t /\ tables'[s] = rows)
  BY <1>4 DEF TypeOK
<1>. QED
  BY <1>2, <1>3, <1>4, <1>6

-----------------------------------------------------------------------------
\* Types.
LEMMA PlainTypes ==
  ASSUME TypeOK, NEW f \in Files, PlainStep(f)
  PROVE  TypeOK'
<1>1. PICK new \in Job : Progress(f, new)
  BY ProgressFacts
<1>2. job' \in [Files -> Job] /\ UNCHANGED <<probe, reported, tables, history>>
  BY <1>1, JobIsFacts, ProgressFacts DEF Progress
<1>3. f \in 0..MaxFiles /\ f \in Files
  BY BoundsAssumption DEF Files
<1>4. faults' \in 0..MaxFaults
  <2>1. faults' = faults \/ Fault
    <3>1. CASE NetworkCommit(f) \/ SaveSnapshot(f) \/ SaveRanking(f)
      BY <3>1 DEF NetworkCommit, SaveSnapshot, SaveRanking
    <3>2. ASSUME NEW h \in Hosts, SaveTraffic(f, h) \/ SaveEndpoint(f, h)
          PROVE  faults' = faults \/ Fault
      BY <3>2 DEF SaveTraffic, SaveEndpoint
    <3>3. CASE \/ NothingMeasured(f) \/ Measure(f) \/ DevicesSaved(f) \/ NetworkLoad(f)
               \/ EndpointsSaved(f)
      BY <3>3 DEF NothingMeasured, Measure, DevicesSaved, NetworkLoad, EndpointsSaved
    <3>. QED
      BY <3>1, <3>2, <3>3 DEF PlainStep
  <2>. QED
    BY <2>1, BoundsAssumption DEF Fault, TypeOK
<1>5. network' \in Row
  <2>1. CASE NetworkCommit(f)
    <3>1. [network EXCEPT !.here = TRUE, !.traffic = f] \in Row
      BY <1>3 DEF TypeOK, Row
    <3>. QED
      BY <2>1, <3>1 DEF NetworkCommit, TypeOK
  <2>2. CASE ~NetworkCommit(f)
    BY <2>2 DEF PlainStep, NothingMeasured, Measure, DevicesSaved, NetworkLoad, SaveSnapshot,
                EndpointsSaved, SaveRanking, SaveTraffic, SaveEndpoint, metrics, TypeOK
  <2>. QED
    BY <2>1, <2>2
<1>6. traffic' \in [Hosts -> 0..MaxFiles]
  <2>1. ASSUME NEW h \in Hosts, SaveTraffic(f, h)
        PROVE  traffic' \in [Hosts -> 0..MaxFiles]
    BY <1>3, <2>1 DEF SaveTraffic, TypeOK
  <2>2. CASE ~\E h \in Hosts : SaveTraffic(f, h)
    BY <2>2 DEF PlainStep, NothingMeasured, Measure, DevicesSaved, NetworkLoad, NetworkCommit,
                SaveSnapshot, EndpointsSaved, SaveRanking, SaveEndpoint, metrics, TypeOK
  <2>. QED
    BY <2>1, <2>2
<1>7. /\ snapshots' \subseteq Files
      /\ endpoints' \subseteq Files \X Hosts /\ rankings' \subseteq Files \X Hosts
  <2>1. CASE SaveSnapshot(f)
    BY <1>3, <2>1 DEF SaveSnapshot, TypeOK
  <2>2. ASSUME NEW h \in Hosts, SaveEndpoint(f, h)
        PROVE  endpoints' \subseteq Files \X Hosts /\ UNCHANGED <<snapshots, rankings>>
    BY <1>3, <2>2 DEF SaveEndpoint, TypeOK
  <2>3. CASE SaveRanking(f)
    BY <1>3, <2>3 DEF SaveRanking, TypeOK, Job
  <2>4. CASE ~SaveSnapshot(f) /\ ~SaveRanking(f) /\ ~\E h \in Hosts : SaveEndpoint(f, h)
    BY <2>4 DEF PlainStep, NothingMeasured, Measure, DevicesSaved, NetworkLoad, NetworkCommit,
                EndpointsSaved, SaveTraffic, records, TypeOK
  <2>. QED
    BY <2>1, <2>2, <2>3, <2>4 DEF TypeOK
<1>. QED
  BY <1>2, <1>4, <1>5, <1>6, <1>7 DEF TypeOK

\* A replacing transaction.
ReplaceStep(f, t) == ReplaceStart(f, t) \/ ReplaceDelete(f, t) \/ ReplaceCommit(f, t)

LEMMA ReplaceTypes ==
  ASSUME TypeOK, NEW f \in Files, NEW t \in Tables, ReplaceStep(f, t)
  PROVE  TypeOK' /\ UNCHANGED <<probe, metrics, records>>
<1>1. UNCHANGED <<probe, network, traffic, reported, snapshots, endpoints, rankings>>
  BY DEF ReplaceStep, ReplaceStart, ReplaceDelete, ReplaceCommit, metrics, records
<1>2. job' \in [Files -> Job]
  BY JobIsFacts, ReplaceStartFacts, ReplaceDeleteFacts, ReplaceCommitFacts DEF ReplaceStep
<1>3. tables' \in [Tables -> SUBSET Past]
  BY ReplaceCommitFacts DEF ReplaceStep, ReplaceStart, ReplaceDelete, TypeOK
<1>4. faults' \in 0..MaxFaults
  BY BoundsAssumption DEF ReplaceStep, ReplaceStart, ReplaceDelete, ReplaceCommit, Fault, TypeOK
<1>5. history' \in [together : SUBSET SUBSET Files, met : [Tables -> SUBSET SUBSET Files],
                     isp : 0..MaxProbes]
  <2>1. CASE ReplaceStart(f, t)
    <3>. DEFINE pairs == history.met[t] \cup {{f, g} : g \in Replacing(t)}
                met == [history.met EXCEPT ![t] = pairs]
    <3>1. pairs \in SUBSET SUBSET Files
      BY DEF TypeOK, Replacing
    <3>. HIDE DEF pairs
    <3>2. met \in [Tables -> SUBSET SUBSET Files]
      BY <3>1 DEF TypeOK
    <3>3. history' = [history EXCEPT !.met = met]
      BY <2>1 DEF ReplaceStart, pairs
    <3>. HIDE DEF met
    <3>. QED
      BY <3>2, <3>3 DEF TypeOK
  <2>2. CASE ~ReplaceStart(f, t)
    BY <2>2 DEF ReplaceStep, ReplaceDelete, ReplaceCommit, TypeOK
  <2>. QED
    BY <2>1, <2>2
<1>. QED
  BY <1>1, <1>2, <1>3, <1>4, <1>5 DEF TypeOK, metrics, records

LEMMA OtherTypes ==
  ASSUME TypeOK, ProbeLoad \/ ProbeCommit \/ Restart \/ \E h \in Hosts : Report(h)
  PROVE  TypeOK'
<1>1. NoRow \in Row /\ network \in Row
  BY BoundsAssumption DEF NoRow, Row, TypeOK
<1>2. CASE ProbeLoad
  BY <1>1, <1>2, BoundsAssumption DEF ProbeLoad, metrics, records, TypeOK, Row
<1>3. probe.count \in 0..MaxProbes
  BY DEF TypeOK
<1>4. [probe EXCEPT !.busy = FALSE, !.here = FALSE] \in
         [here : BOOLEAN, busy : BOOLEAN, count : 0..MaxProbes]
  BY <1>1 DEF TypeOK
<1>5. CASE ProbeCommit
  <2>1. [network EXCEPT !.here = TRUE, !.isp = probe.count] \in Row
    BY <1>1, <1>3 DEF Row
  <2>2. [history EXCEPT !.isp = probe.count] \in
          [together : SUBSET SUBSET Files, met : [Tables -> SUBSET SUBSET Files], isp : 0..MaxProbes]
    BY <1>3 DEF TypeOK
  <2>3. network' \in Row /\ faults' \in 0..MaxFaults
    BY <1>1, <1>5, <2>1, BoundsAssumption DEF ProbeCommit, Fault, TypeOK
  <2>4. history' \in
          [together : SUBSET SUBSET Files, met : [Tables -> SUBSET SUBSET Files], isp : 0..MaxProbes]
    BY <1>5, <2>2 DEF ProbeCommit, TypeOK
  <2>. QED
    BY <1>4, <1>5, <2>3, <2>4 DEF ProbeCommit, records, TypeOK
<1>6. CASE Restart
  <2>1. [NewJob EXCEPT !.pc = "end"] \in Job
    <3>1. NewJob \in Job
      BY <1>1 DEF NewJob, Job
    <3>. QED
      BY <3>1, PcFacts DEF Steps
  <2>2. job' \in [Files -> Job]
    BY <1>6, <2>1 DEF Restart, TypeOK
  <2>3. faults' \in 0..MaxFaults
    BY <1>6, BoundsAssumption DEF Restart, Fault, TypeOK
  <2>. QED
    BY <1>4, <1>6, <2>2, <2>3 DEF Restart, metrics, records, TypeOK
<1>7. CASE \E h \in Hosts : Report(h)
  BY <1>7 DEF Report, records, TypeOK
<1>. QED
  BY <1>2, <1>5, <1>6, <1>7

LEMMA RotateTypes ==
  ASSUME TypeOK, NEW f \in Files, Rotate(f)
  PROVE  TypeOK'
BY RotateFacts DEF Rotate, metrics, records, TypeOK

-----------------------------------------------------------------------------
\* A step of a thread that has started, and a restart: nobody waits who did not,
\* nobody runs who did not.
Calm ==
  /\ \A f \in Files : At(f, "wait")' <=> At(f, "wait")
  /\ Running' \subseteq Running

LEMMA ThreadCalm ==
  ASSUME TypeOK, NEW f \in Files, NEW new \in Job, JobIs(f, new),
         job[f].pc \notin {"wait", "end"}, new.pc # "wait"
  PROVE  Calm
BY JobIsFacts DEF Calm, At, Running

LEMMA ReplaceCalm ==
  ASSUME TypeOK, NEW f \in Files, NEW t \in Tables, ReplaceStep(f, t)
  PROVE  Calm /\ history'.together = history.together /\ history'.isp = history.isp
<1>1. job[f].pc = t /\ t \notin {"wait", "end"} /\ After(t) # "wait"
  BY DEF ReplaceStep, ReplaceStart, ReplaceDelete, ReplaceCommit, At, Tables, After
<1>2. PICK new \in Job : JobIs(f, new) /\ new.pc \in {t, After(t)}
  BY ReplaceStartFacts, ReplaceDeleteFacts, ReplaceCommitFacts DEF ReplaceStep
<1>3. Calm
  BY <1>1, <1>2, ThreadCalm
<1>4. history'.together = history.together /\ history'.isp = history.isp
  BY DEF ReplaceStep, ReplaceStart, ReplaceDelete, ReplaceCommit, TypeOK
<1>. QED
  BY <1>3, <1>4

LEMMA PlainCalm ==
  ASSUME TypeOK, NEW f \in Files, PlainStep(f)
  PROVE  Calm /\ UNCHANGED history
BY ProgressFacts, ThreadCalm DEF Progress

LEMMA OtherCalm ==
  ASSUME TypeOK, ProbeLoad \/ ProbeCommit \/ Restart \/ \E h \in Hosts : Report(h)
  PROVE  Calm /\ history'.together = history.together /\ history'.met = history.met
<1>1. history'.together = history.together /\ history'.met = history.met
  BY DEF ProbeLoad, ProbeCommit, Restart, Report, TypeOK
<1>2. CASE Restart
  <2>1. ASSUME NEW f \in Files
        PROVE  (job'[f] = job[f] /\ f \notin Running) \/ (f \in Running /\ job'[f].pc = "end")
    BY <1>2 DEF Restart, NewJob
  <2>. QED
    BY <1>1, <2>1 DEF Calm, At, Running
<1>3. CASE UNCHANGED job
  BY <1>1, <1>3 DEF Calm, At, Running
<1>. QED
  BY <1>2, <1>3 DEF ProbeLoad, ProbeCommit, Report

-----------------------------------------------------------------------------
\* The order of the threads, and where metrics come from.
LEMMA CalmOrder ==
  ASSUME OrderInv, Calm, history'.together = history.together
  PROVE  OrderInv'
BY DEF OrderInv, Calm

LEMMA RotateOrder ==
  ASSUME PipelineInv, NEW f \in Files, Rotate(f)
  PROVE  OrderInv' /\ StartedInv' /\ IspInv'
<1>1. TypeOK /\ OrderInv /\ StartedInv /\ IspInv
  BY DEF PipelineInv
<1>2. At(f, "wait") /\ \A g \in Files : g < f => ~At(g, "wait")
  BY DEF Rotate
<1>3. /\ \A g \in Files : At(g, "wait")' <=> At(g, "wait") /\ g # f
      /\ Running' = Running \cup {f}
  BY <1>1, <1>2, RotateFacts DEF At, Running
<1>4. OrderInv'
  <2>1. ASSUME NEW g \in Files, NEW k \in Files, g < k, ~At(k, "wait")'
        PROVE  ~At(g, "wait")' /\ (g \in Running' => {g, k} \in history'.together)
    <3>1. CASE k = f
      <4>1. ~At(g, "wait") /\ g # f
        BY <1>2, <2>1, <3>1 DEF Files
      <4>2. g \in Running => {g, k} \in history'.together
        BY <1>1, <3>1, RotateFacts
      <4>. QED
        BY <1>3, <4>1, <4>2
    <3>2. CASE k # f
      <4>1. ~At(g, "wait") /\ (g \in Running => {g, k} \in history.together) /\ g # f
        BY <1>1, <1>2, <1>3, <2>1, <3>2 DEF OrderInv
      <4>. QED
        BY <1>1, <1>3, <4>1, RotateFacts
    <3>. QED
      BY <3>1, <3>2
  <2>. QED
    BY <2>1 DEF OrderInv
<1>5. StartedInv'
  <2>1. UNCHANGED <<network, traffic>>
    BY DEF Rotate, metrics
  <2>2. /\ network.traffic # 0 => network.traffic \in Files
        /\ \A h \in Hosts : traffic[h] # 0 => traffic[h] \in Files
    BY <1>1, BoundsAssumption DEF TypeOK, Row, Files
  <2>. QED
    BY <1>1, <1>3, <2>1, <2>2 DEF StartedInv
<1>6. IspInv'
  BY <1>1, RotateFacts DEF IspInv, Rotate, metrics
<1>. QED
  BY <1>4, <1>5, <1>6

LEMMA CalmStarted ==
  ASSUME TypeOK, StartedInv, Calm, UNCHANGED traffic,
         network'.traffic = network.traffic
  PROVE  StartedInv'
<1>1. /\ network.traffic # 0 => network.traffic \in Files
      /\ \A h \in Hosts : traffic[h] # 0 => traffic[h] \in Files
  BY BoundsAssumption DEF TypeOK, Row, Files
<1>. QED
  BY <1>1 DEF StartedInv, Calm

\* A metric that is written comes from the file of a running thread.
Written(f) ==
  /\ network'.traffic = network.traffic \/ (network'.traffic = f /\ f \in Running)
  /\ \A h \in Hosts : traffic'[h] = traffic[h] \/ (traffic'[h] = f /\ f \in Running)

LEMMA PlainWritten ==
  ASSUME TypeOK, NEW f \in Files, PlainStep(f)
  PROVE  Written(f) /\ network'.isp = network.isp
<1>1. CASE NetworkCommit(f)
  <2>1. f \in Running
    BY <1>1 DEF NetworkCommit, At, Running
  <2>. DEFINE row == [network EXCEPT !.here = TRUE, !.traffic = f]
  <2>2. row.traffic = f /\ row.isp = network.isp
    BY DEF TypeOK, Row
  <2>3. UNCHANGED traffic /\ network' \in {network, row}
    BY <1>1 DEF NetworkCommit
  <2>. HIDE DEF row
  <2>. QED
    BY <2>1, <2>2, <2>3 DEF Written
<1>2. ASSUME NEW h \in Hosts, SaveTraffic(f, h)
      PROVE  Written(f) /\ network'.isp = network.isp
  <2>1. f \in Running
    BY <1>2 DEF SaveTraffic, At, Running
  <2>. QED
    BY <1>2, <2>1 DEF SaveTraffic, Written, TypeOK
<1>3. CASE ~NetworkCommit(f) /\ ~\E h \in Hosts : SaveTraffic(f, h)
  BY <1>3 DEF PlainStep, NothingMeasured, Measure, DevicesSaved, NetworkLoad, SaveSnapshot,
              EndpointsSaved, SaveRanking, SaveEndpoint, metrics, Written
<1>. QED
  BY <1>1, <1>2, <1>3

LEMMA PlainOrder ==
  ASSUME PipelineInv, NEW f \in Files, PlainStep(f)
  PROVE  OrderInv' /\ StartedInv' /\ IspInv'
<1>1. TypeOK /\ OrderInv /\ StartedInv /\ IspInv /\ Calm /\ UNCHANGED history /\ Written(f)
  BY PlainCalm, PlainWritten DEF PipelineInv
<1>2. OrderInv'
  BY <1>1, CalmOrder
<1>3. StartedInv'
  <2>1. /\ network.traffic # 0 => network.traffic \in Files
        /\ \A h \in Hosts : traffic[h] # 0 => traffic[h] \in Files
    BY <1>1, BoundsAssumption DEF TypeOK, Row, Files
  <2>2. f \in Running => ~At(f, "wait")
    BY DEF Running, At
  <2>. QED
    BY <1>1, <2>1, <2>2 DEF StartedInv, Calm, Written
<1>4. IspInv'
  BY <1>1, PlainWritten DEF IspInv
<1>. QED
  BY <1>2, <1>3, <1>4

LEMMA OtherOrder ==
  ASSUME PipelineInv, ProbeLoad \/ ProbeCommit \/ Restart \/ \E h \in Hosts : Report(h)
  PROVE  OrderInv' /\ StartedInv' /\ IspInv'
<1>1. TypeOK /\ OrderInv /\ StartedInv /\ IspInv /\ Calm /\ history'.together = history.together
  BY OtherCalm DEF PipelineInv
<1>2. OrderInv'
  BY <1>1, CalmOrder
<1>3. network'.traffic = network.traffic /\ UNCHANGED traffic
  BY <1>1 DEF ProbeLoad, ProbeCommit, Restart, Report, metrics, TypeOK, Row
<1>4. StartedInv'
  BY <1>1, <1>3, CalmStarted
<1>5. IspInv'
  BY <1>1 DEF ProbeLoad, ProbeCommit, Restart, Report, metrics, TypeOK, Row, IspInv
<1>. QED
  BY <1>2, <1>4, <1>5

LEMMA ReplaceOrder ==
  ASSUME PipelineInv, NEW f \in Files, NEW t \in Tables, ReplaceStep(f, t)
  PROVE  OrderInv' /\ StartedInv' /\ IspInv'
<1>1. TypeOK /\ OrderInv /\ StartedInv /\ IspInv
  BY DEF PipelineInv
<1>2. Calm /\ history'.together = history.together /\ history'.isp = history.isp
  BY <1>1, ReplaceCalm
<1>3. UNCHANGED <<network, traffic>>
  BY <1>1, ReplaceTypes DEF metrics
<1>. QED
  BY <1>1, <1>2, <1>3, CalmOrder, CalmStarted DEF IspInv

-----------------------------------------------------------------------------
\* The tables that are replaced.

\* A step that opens no transaction and changes neither these tables nor those open.
LEMMA SameReplace ==
  ASSUME ReplaceInv, MixedOnlyIfOverlap, UNCHANGED tables, history'.met = history.met,
         \A f \in Files : job'[f].stage # "begin" => job'[f] = job[f]
  PROVE  ReplaceInv' /\ MixedOnlyIfOverlap'
<1>1. \A t \in Tables : \A f \in Replacing(t)' : f \in Replacing(t) /\ job'[f] = job[f]
  BY DEF Replacing, At
<1>2. ReplaceInv'
  BY <1>1 DEF ReplaceInv, Deletes
<1>3. MixedOnlyIfOverlap'
  BY DEF MixedOnlyIfOverlap
<1>. QED
  BY <1>2, <1>3

LEMMA ThreadReplace ==
  ASSUME TypeOK, StageInv, ReplaceInv, MixedOnlyIfOverlap, UNCHANGED tables,
         history'.met = history.met, NEW f \in Files,
         \A g \in Files : g # f => job'[g] = job[g],
         job'[f].stage = job[f].stage, job[f].pc \notin Tables
  PROVE  StageInv' /\ ReplaceInv' /\ MixedOnlyIfOverlap'
<1>1. job[f].stage = "begin"
  BY DEF StageInv
<1>2. StageInv'
  BY <1>1 DEF StageInv
<1>3. \A g \in Files : job'[g].stage # "begin" => job'[g] = job[g]
  BY <1>1
<1>. QED
  BY <1>2, <1>3, SameReplace

LEMMA RotateReplace ==
  ASSUME PipelineInv, NEW f \in Files, Rotate(f)
  PROVE  StageInv' /\ ReplaceInv' /\ MixedOnlyIfOverlap'
<1>1. TypeOK /\ StageInv /\ ReplaceInv /\ MixedOnlyIfOverlap
  BY DEF PipelineInv
<1>2. UNCHANGED tables /\ job[f].pc \notin Tables
  BY DEF Rotate, At, Tables
<1>. QED
  BY <1>1, <1>2, RotateFacts, ThreadReplace

LEMMA PlainReplace ==
  ASSUME PipelineInv, NEW f \in Files, PlainStep(f)
  PROVE  StageInv' /\ ReplaceInv' /\ MixedOnlyIfOverlap'
<1>1. TypeOK /\ StageInv /\ ReplaceInv /\ MixedOnlyIfOverlap
  BY DEF PipelineInv
<1>2. PICK new \in Job : Progress(f, new)
  BY <1>1, ProgressFacts
<1>3. UNCHANGED <<tables, history>>
  BY <1>1, ProgressFacts
<1>4. job'[f] = new /\ \A g \in Files : g # f => job'[g] = job[g]
  BY <1>1, <1>2, JobIsFacts DEF Progress
<1>. QED
  BY <1>1, <1>2, <1>3, <1>4, ThreadReplace DEF Progress

LEMMA OtherReplace ==
  ASSUME PipelineInv, ProbeLoad \/ ProbeCommit \/ Restart \/ \E h \in Hosts : Report(h)
  PROVE  StageInv' /\ ReplaceInv' /\ MixedOnlyIfOverlap'
<1>1. TypeOK /\ StageInv /\ ReplaceInv /\ MixedOnlyIfOverlap
  BY DEF PipelineInv
<1>2. UNCHANGED tables /\ history'.met = history.met
  BY <1>1, OtherCalm DEF ProbeLoad, ProbeCommit, Restart, Report
<1>3. CASE UNCHANGED job
  BY <1>1, <1>2, <1>3, SameReplace DEF StageInv
<1>4. CASE Restart
  <2>1. \A f \in Files : job'[f].stage # "begin" => job'[f] = job[f]
    BY <1>4 DEF Restart, NewJob
  <2>2. StageInv'
    BY <1>1, <2>1 DEF StageInv
  <2>. QED
    BY <1>1, <1>2, <2>1, <2>2, SameReplace
<1>. QED
  BY <1>3, <1>4 DEF ProbeLoad, ProbeCommit, Report

\* A transaction begins: it has met those that are open, and sees the whole table.
LEMMA StartReplace ==
  ASSUME PipelineInv, NEW f \in Files, NEW t \in Tables, ReplaceStart(f, t)
  PROVE  StageInv' /\ ReplaceInv' /\ MixedOnlyIfOverlap'
<1>1. TypeOK /\ StageInv /\ ReplaceInv /\ MixedOnlyIfOverlap
  BY DEF PipelineInv
<1>2. PICK new \in Job :
        JobIs(f, new) /\ new.pc = t /\ new.stage = "delete" /\ new.seen = tables[t]
  BY <1>1, ReplaceStartFacts
<1>3. /\ job'[f].pc = t /\ job'[f].stage = "delete" /\ job'[f].seen = tables[t]
      /\ \A g \in Files : g # f => job'[g] = job[g]
  BY <1>1, <1>2, JobIsFacts
<1>4. /\ UNCHANGED tables /\ job[f].pc = t
      /\ history'.met[t] = history.met[t] \cup {{f, g} : g \in Replacing(t)}
      /\ \A s \in Tables : s # t => history'.met[s] = history.met[s]
  <2>. DEFINE pairs == history.met[t] \cup {{f, g} : g \in Replacing(t)}
  <2>1. history' = [history EXCEPT !.met = [history.met EXCEPT ![t] = pairs]]
    BY DEF ReplaceStart
  <2>. HIDE DEF pairs
  <2>2. history'.met = [history.met EXCEPT ![t] = pairs]
    BY <1>1, <2>1 DEF TypeOK
  <2>3. history'.met[t] = pairs /\ \A s \in Tables : s # t => history'.met[s] = history.met[s]
    BY <1>1, <2>2 DEF TypeOK
  <2>. QED
    BY <2>3 DEF ReplaceStart, At, pairs
<1>5. StageInv'
  BY <1>1, <1>3 DEF StageInv
<1>6. /\ Replacing(t)' = Replacing(t) \cup {f} /\ f \notin Replacing(t)
      /\ \A s \in Tables : s # t => Replacing(s)' = Replacing(s) /\ f \notin Replacing(s)
  BY <1>3, <1>4 DEF ReplaceStart, Replacing, At
<1>7. ReplaceInv'
  <2>1. ASSUME NEW s \in Tables, NEW g \in Replacing(s)'
        PROVE  /\ \A k \in Replacing(s)' : g # k => {g, k} \in history'.met[s]
               /\ \A x \in tables[s] \ Deletes(g)' : x # g => {g, x} \in history'.met[s]
    <3>1. CASE s = t /\ g = f
      <4>1. Deletes(g)' = tables[t]
        BY <1>3, <3>1 DEF Deletes
      <4>2. \A k \in Replacing(t) : {f, k} \in history'.met[t]
        BY <1>4
      <4>. QED
        BY <1>6, <3>1, <4>1, <4>2
    <3>2. CASE ~(s = t /\ g = f)
      <4>1. g \in Replacing(s) /\ g # f /\ g \in Files
        BY <1>6, <2>1, <3>2 DEF Replacing
      <4>2. Deletes(g)' = Deletes(g)
        BY <1>3, <4>1 DEF Deletes
      <4>3. history.met[s] \subseteq history'.met[s]
        BY <1>4
      <4>4. ASSUME NEW k \in Replacing(s)', g # k
            PROVE  {g, k} \in history'.met[s]
        <5>1. CASE k \in Replacing(s)
          BY <1>1, <4>1, <4>3, <4>4, <5>1 DEF ReplaceInv
        <5>2. CASE k \notin Replacing(s)
          <6>1. s = t /\ k = f
            BY <1>6, <4>4, <5>2
          <6>2. {g, k} = {f, g}
            BY <6>1
          <6>. QED
            BY <1>4, <4>1, <6>1, <6>2
        <5>. QED
          BY <5>1, <5>2
      <4>. QED
        BY <1>1, <4>1, <4>2, <4>3, <4>4 DEF ReplaceInv
    <3>. QED
      BY <3>1, <3>2
  <2>. QED
    BY <1>4, <2>1 DEF ReplaceInv
<1>8. MixedOnlyIfOverlap'
  <2>1. \A s \in Tables : history.met[s] \subseteq history'.met[s]
    BY <1>4
  <2>. QED
    BY <1>1, <1>4, <2>1 DEF MixedOnlyIfOverlap
<1>. QED
  BY <1>5, <1>7, <1>8

\* It locks what is still there of what it saw: it deletes no less of the table.
LEMMA DeleteReplace ==
  ASSUME PipelineInv, NEW f \in Files, NEW t \in Tables, ReplaceDelete(f, t)
  PROVE  StageInv' /\ ReplaceInv' /\ MixedOnlyIfOverlap'
<1>1. TypeOK /\ StageInv /\ ReplaceInv /\ MixedOnlyIfOverlap
  BY DEF PipelineInv
<1>2. PICK new \in Job : JobIs(f, new) /\ new.pc = t /\ new.stage = "insert"
                            /\ new.locked = job[f].seen \cap tables[t]
  BY <1>1, ReplaceDeleteFacts
<1>3. /\ job'[f].pc = t /\ job'[f].stage = "insert" /\ job'[f].locked = job[f].seen \cap tables[t]
      /\ \A g \in Files : g # f => job'[g] = job[g]
  BY <1>1, <1>2, JobIsFacts
<1>4. UNCHANGED <<tables, history>> /\ job[f].pc = t /\ job[f].stage = "delete"
  BY DEF ReplaceDelete, At
<1>5. StageInv'
  BY <1>1, <1>3 DEF StageInv
<1>6. \A s \in Tables : Replacing(s)' = Replacing(s)
  BY <1>3, <1>4 DEF Replacing, At
<1>7. ASSUME NEW s \in Tables, NEW g \in Replacing(s)
      PROVE  tables[s] \ Deletes(g)' \subseteq tables[s] \ Deletes(g)
  <2>1. CASE g = f
    <3>1. s = t
      BY <1>4, <1>7, <2>1 DEF Replacing, At
    <3>. QED
      BY <1>3, <1>4, <2>1, <3>1 DEF Deletes
  <2>2. CASE g # f
    BY <1>3, <1>7, <2>2 DEF Deletes, Replacing
  <2>. QED
    BY <2>1, <2>2
<1>8. ReplaceInv'
  BY <1>1, <1>4, <1>6, <1>7 DEF ReplaceInv
<1>9. MixedOnlyIfOverlap'
  BY <1>1, <1>4 DEF MixedOnlyIfOverlap
<1>. QED
  BY <1>5, <1>8, <1>9

\* It commits: what it leaves was written by transactions that it met, and those that
\* are open have met it.
LEMMA CommitReplace ==
  ASSUME PipelineInv, NEW f \in Files, NEW t \in Tables, ReplaceCommit(f, t)
  PROVE  StageInv' /\ ReplaceInv' /\ MixedOnlyIfOverlap'
<1>1. TypeOK /\ StageInv /\ ReplaceInv /\ MixedOnlyIfOverlap
  BY DEF PipelineInv
<1>2. PICK new \in Job : JobIs(f, new) /\ new.pc = After(t) /\ new.stage = "begin"
  BY <1>1, ReplaceCommitFacts
<1>3. job'[f].stage = "begin" /\ \A g \in Files : g # f => job'[g] = job[g]
  BY <1>1, <1>2, JobIsFacts
<1>4. UNCHANGED history /\ f \in Replacing(t) /\ Deletes(f) = job[f].locked
  BY DEF ReplaceCommit, Replacing, At, Deletes
<1>5. \A s \in Tables : tables'[s] = tables[s]
         \/ (s = t /\ tables'[s] \subseteq (tables[s] \ Deletes(f)) \cup {f})
  BY <1>1, <1>4, ReplaceCommitFacts
<1>6. StageInv'
  BY <1>1, <1>3 DEF StageInv
<1>7. \A s \in Tables : \A g \in Replacing(s)' :
         g \in Replacing(s) /\ g # f /\ Deletes(g)' = Deletes(g)
  BY <1>3 DEF Replacing, At, Deletes
<1>8. ReplaceInv'
  <2>1. ASSUME NEW s \in Tables, NEW g \in Replacing(s)', NEW x \in tables'[s], x \notin Deletes(g),
               x # g
        PROVE  {g, x} \in history.met[s]
    <3>1. CASE x \in tables[s]
      BY <1>1, <1>7, <2>1, <3>1 DEF ReplaceInv
    <3>2. CASE x \notin tables[s]
      <4>1. s = t /\ x = f
        BY <1>5, <2>1, <3>2
      <4>. QED
        BY <1>1, <1>4, <1>7, <2>1, <4>1 DEF ReplaceInv
    <3>. QED
      BY <3>1, <3>2
  <2>2. ASSUME NEW s \in Tables, NEW g \in Replacing(s)', NEW k \in Replacing(s)', g # k
        PROVE  {g, k} \in history.met[s]
    BY <1>1, <1>7, <2>2 DEF ReplaceInv
  <2>. QED
    BY <1>4, <1>7, <2>1, <2>2 DEF ReplaceInv
<1>9. MixedOnlyIfOverlap'
  <2>1. ASSUME NEW s \in Tables, NEW x \in tables'[s], NEW y \in tables'[s], x # y
        PROVE  {x, y} \in history.met[s]
    <3>1. CASE tables'[s] = tables[s]
      BY <1>1, <2>1, <3>1 DEF MixedOnlyIfOverlap
    <3>2. CASE s = t /\ tables'[s] \subseteq (tables[s] \ Deletes(f)) \cup {f}
      <4>1. CASE x # f /\ y # f
        BY <1>1, <2>1, <3>2, <4>1 DEF MixedOnlyIfOverlap
      <4>2. \A z \in tables[t] \ Deletes(f) : z # f => {f, z} \in history.met[t]
        BY <1>1, <1>4 DEF ReplaceInv
      <4>3. CASE x = f
        <5>1. y \in tables[t] \ Deletes(f) /\ y # f
          BY <2>1, <3>2, <4>3
        <5>. QED
          BY <3>2, <4>2, <4>3, <5>1
      <4>4. CASE y = f
        <5>1. x \in tables[t] \ Deletes(f) /\ x # f /\ {x, y} = {f, x}
          BY <2>1, <3>2, <4>4
        <5>. QED
          BY <3>2, <4>2, <5>1
      <4>. QED
        BY <4>1, <4>3, <4>4
    <3>. QED
      BY <1>5, <3>1, <3>2
  <2>. QED
    BY <1>4, <2>1 DEF MixedOnlyIfOverlap
<1>. QED
  BY <1>6, <1>8, <1>9

-----------------------------------------------------------------------------
\* The rows of a snapshot.
FaultCounted == faults' = faults \/ faults' # 0

\* Steps that save none of these rows.
Unconcerned(g) ==
  \/ job'[g] = job[g]
  \/ /\ job[g].pc \notin {"endpoints", "ranking", "recent", "end"}
     /\ job'[g].pc \notin {"endpoints", "ranking"}
  \/ /\ job[g].pc = "recent" /\ job'[g].pc \in {"recent", "end"}
     /\ job'[g].hosts = job[g].hosts /\ job'[g].ranked = job[g].ranked
  \/ faults' # 0 /\ job'[g].pc = "end"

LEMMA SameSnapshot ==
  ASSUME TypeOK, SnapshotInv, SnapshotsComplete, UNCHANGED records, FaultCounted,
         \A g \in Files : Unconcerned(g)
  PROVE  SnapshotInv' /\ SnapshotsComplete'
<1>1. /\ UNCHANGED <<snapshots, endpoints, rankings>> /\ snapshots \subseteq Files
      /\ faults' = 0 => faults = 0
  BY DEF records, TypeOK, FaultCounted
<1>2. SnapshotInv'
  <2>1. ASSUME NEW f \in Files, job'[f].pc \in {"endpoints", "ranking"}
        PROVE  f \in snapshots
    BY <2>1 DEF Unconcerned, SnapshotInv
  <2>2. ASSUME NEW f \in snapshots
        PROVE  job'[f].pc \in {"endpoints", "ranking", "recent", "end"}
    BY <1>1, <2>2 DEF Unconcerned, SnapshotInv
  <2>3. ASSUME faults' = 0, NEW f \in snapshots
        PROVE  /\ \A h \in job'[f].hosts :
                    <<f, h>> \in endpoints \/ (job'[f].pc = "endpoints" /\ h \in job'[f].todo)
               /\ job'[f].pc \in {"recent", "end"} =>
                    \A k \in job'[f].ranked : <<f, k>> \in rankings
    BY <1>1, <2>3 DEF Unconcerned, SnapshotInv, At
  <2>. QED
    BY <1>1, <2>1, <2>2, <2>3 DEF SnapshotInv, At
<1>3. SnapshotsComplete'
  BY <1>1, <1>2 DEF SnapshotInv, SnapshotsComplete, At
<1>. QED
  BY <1>2, <1>3

\* Once the rows are shown to belong to snapshots, the rest follows.
LEMMA CompleteFromInv ==
  ASSUME SnapshotInv, \A row \in endpoints \cup rankings : row[1] \in snapshots
  PROVE  SnapshotsComplete
BY DEF SnapshotInv, SnapshotsComplete, At

LEMMA ReplaceSnapshot ==
  ASSUME PipelineInv, NEW f \in Files, NEW t \in Tables, ReplaceStep(f, t)
  PROVE  SnapshotInv' /\ SnapshotsComplete'
<1>1. TypeOK /\ SnapshotInv /\ SnapshotsComplete
  BY DEF PipelineInv
<1>2. PICK new \in Job : /\ JobIs(f, new) /\ new.pc \in {t, After(t)}
                           /\ new.hosts = job[f].hosts /\ new.ranked = job[f].ranked
  BY <1>1, ReplaceStartFacts, ReplaceDeleteFacts, ReplaceCommitFacts DEF ReplaceStep
<1>3. job'[f] = new /\ \A g \in Files : g # f => job'[g] = job[g]
  BY <1>1, <1>2, JobIsFacts
<1>4. job[f].pc = t
  BY DEF ReplaceStep, ReplaceStart, ReplaceDelete, ReplaceCommit, At
<1>5. Unconcerned(f)
  BY <1>2, <1>3, <1>4 DEF Unconcerned, After, Tables
<1>6. FaultCounted
  BY <1>1 DEF FaultCounted, ReplaceStep, ReplaceStart, ReplaceDelete, ReplaceCommit, Fault, TypeOK
<1>. QED
  BY <1>1, <1>3, <1>5, <1>6, ReplaceTypes, SameSnapshot DEF Unconcerned

LEMMA OtherSnapshot ==
  ASSUME PipelineInv, ProbeLoad \/ ProbeCommit \/ Restart \/ \E h \in Hosts : Report(h)
  PROVE  SnapshotInv' /\ SnapshotsComplete'
<1>1. TypeOK /\ SnapshotInv /\ SnapshotsComplete
  BY DEF PipelineInv
<1>2. UNCHANGED records
  BY DEF ProbeLoad, ProbeCommit, Restart, Report, records
<1>3. FaultCounted
  BY <1>1 DEF FaultCounted, ProbeLoad, ProbeCommit, Restart, Report, Fault, TypeOK
<1>4. ASSUME NEW g \in Files
      PROVE  Unconcerned(g)
  <2>1. CASE Restart
    <3>1. faults' # 0
      BY <1>1, <2>1 DEF Restart, Fault, TypeOK
    <3>. QED
      BY <2>1, <3>1 DEF Restart, Unconcerned, NewJob
  <2>2. CASE ~Restart
    BY <2>2 DEF ProbeLoad, ProbeCommit, Report, Unconcerned
  <2>. QED
    BY <2>1, <2>2
<1>. QED
  BY <1>1, <1>2, <1>3, <1>4, SameSnapshot

LEMMA RotateSnapshot ==
  ASSUME PipelineInv, NEW f \in Files, Rotate(f)
  PROVE  SnapshotInv' /\ SnapshotsComplete'
<1>1. TypeOK /\ SnapshotInv /\ SnapshotsComplete
  BY DEF PipelineInv
<1>2. UNCHANGED records /\ FaultCounted
  BY DEF Rotate, FaultCounted
<1>3. \A g \in Files : Unconcerned(g)
  BY <1>1, RotateFacts DEF Unconcerned, Rotate, At
<1>. QED
  BY <1>1, <1>2, <1>3, SameSnapshot

\* The rows are saved one after the other.
LEMMA SaveSnapshotStep ==
  ASSUME PipelineInv, NEW f \in Files, SaveSnapshot(f)
  PROVE  SnapshotInv' /\ SnapshotsComplete'
<1>1. /\ TypeOK /\ SnapshotInv /\ SnapshotsComplete
      /\ job[f].pc = "snapshot" /\ UNCHANGED <<endpoints, rankings>> /\ f \notin snapshots
  BY DEF PipelineInv, SaveSnapshot, At, SnapshotInv
<1>2. CASE faults' # 0
  <2>. DEFINE here == [job[f] EXCEPT !.pc = "endpoints", !.todo = job[f].hosts]
              gone == [job[f] EXCEPT !.pc = "recent"]
  <2>1. job[f] \in Job
    BY <1>1 DEF TypeOK
  <2>2. here \in Job /\ here.pc = "endpoints" /\ gone \in Job /\ gone.pc = "recent"
    BY <2>1, SnapshotFacts, PcFacts DEF Steps, Tables
  <2>3. \/ JobIs(f, here) /\ snapshots' = snapshots \cup {f}
        \/ JobIs(f, gone) /\ snapshots' \in {snapshots, snapshots \cup {f}}
    BY DEF SaveSnapshot, Goto
  <2>. HIDE DEF here, gone
  <2>4. /\ snapshots \subseteq snapshots' /\ snapshots' \subseteq snapshots \cup {f}
        /\ job'[f].pc \in {"endpoints", "recent"} /\ (job'[f].pc = "endpoints" => f \in snapshots')
        /\ \A g \in Files : g # f => job'[g] = job[g]
    BY <1>1, <2>2, <2>3, JobIsFacts
  <2>5. SnapshotInv'
    <3>1. \A g \in Files : job'[g].pc \in {"endpoints", "ranking"} => g \in snapshots'
      BY <1>1, <2>4 DEF SnapshotInv
    <3>2. \A g \in snapshots' : job'[g].pc \in {"endpoints", "ranking", "recent", "end"}
      BY <1>1, <2>4 DEF SnapshotInv, TypeOK
    <3>. QED
      BY <1>2, <3>1, <3>2 DEF SnapshotInv
  <2>. QED
    BY <1>1, <1>2, <2>4, <2>5 DEF SnapshotsComplete
<1>3. CASE faults' = 0
  <2>. DEFINE here == [job[f] EXCEPT !.pc = "endpoints", !.todo = job[f].hosts]
  <2>1. job[f] \in Job
    BY <1>1 DEF TypeOK
  <2>2. /\ here \in Job /\ here.pc = "endpoints" /\ here.hosts = job[f].hosts
        /\ here.todo = job[f].hosts /\ here.ranked = job[f].ranked
    BY <2>1, SnapshotFacts
  <2>3. JobIs(f, here) /\ snapshots' = snapshots \cup {f} /\ faults' = faults
    BY <1>1, <1>3 DEF SaveSnapshot, Fault, TypeOK
  <2>. HIDE DEF here
  <2>4. job'[f] = here /\ \A g \in Files : g # f => job'[g] = job[g]
    BY <1>1, <2>2, <2>3, JobIsFacts
  <2>5. SnapshotInv'
    <3>1. \A g \in Files : job'[g].pc \in {"endpoints", "ranking"} => g \in snapshots'
      BY <1>1, <2>3, <2>4 DEF SnapshotInv
    <3>2. \A g \in snapshots' : job'[g].pc \in {"endpoints", "ranking", "recent", "end"}
      BY <1>1, <2>2, <2>3, <2>4 DEF SnapshotInv, TypeOK
    <3>3. ASSUME NEW g \in snapshots'
          PROVE  /\ \A h \in job'[g].hosts :
                      <<g, h>> \in endpoints \/ (job'[g].pc = "endpoints" /\ h \in job'[g].todo)
                 /\ job'[g].pc \in {"recent", "end"} =>
                    \A k \in job'[g].ranked : <<g, k>> \in rankings
      <4>1. CASE g = f
        BY <2>2, <2>4, <4>1
      <4>2. CASE g # f
        BY <1>1, <1>3, <2>3, <2>4, <3>3, <4>2 DEF SnapshotInv, TypeOK, At
      <4>. QED
        BY <4>1, <4>2
    <3>. QED
      BY <1>1, <3>1, <3>2, <3>3 DEF SnapshotInv, At
  <2>6. \A row \in endpoints \cup rankings : row[1] \in snapshots'
    BY <1>1, <2>3 DEF SnapshotsComplete
  <2>. QED
    BY <1>1, <2>5, <2>6 DEF SnapshotInv, SnapshotsComplete, At
<1>. QED
  BY <1>2, <1>3

LEMMA SaveEndpointStep ==
  ASSUME PipelineInv, NEW f \in Files, NEW h \in Hosts, SaveEndpoint(f, h)
  PROVE  SnapshotInv' /\ SnapshotsComplete'
<1>. DEFINE on == [job[f] EXCEPT !.todo = job[f].todo \ {h}]
            gone == [job[f] EXCEPT !.pc = "end"]
<1>1. /\ TypeOK /\ SnapshotInv /\ SnapshotsComplete
      /\ job[f].pc = "endpoints" /\ UNCHANGED <<snapshots, rankings>> /\ f \in snapshots
  BY DEF PipelineInv, SaveEndpoint, At, SnapshotInv
<1>2. job[f] \in Job /\ job[f].todo \ {h} \in SUBSET Hosts
  BY <1>1 DEF TypeOK, Job
<1>3. /\ on \in Job /\ on.pc = "endpoints" /\ on.hosts = job[f].hosts /\ on.todo = job[f].todo \ {h}
      /\ on.ranked = job[f].ranked
      /\ gone \in Job /\ gone.pc = "end"
  BY <1>1, <1>2, TodoFacts, PcFacts DEF Steps
<1>4. /\ \/ /\ JobIs(f, on)
            /\ endpoints' = endpoints \cup {<<f, h>>} \/ (endpoints' = endpoints /\ faults' # 0)
         \/ JobIs(f, gone) /\ endpoints' = endpoints /\ faults' # 0
      /\ faults' = 0 => faults = 0
  BY <1>1 DEF SaveEndpoint, Goto, Fault, TypeOK
<1>. HIDE DEF on, gone
<1>5. /\ \A g \in Files : g # f => job'[g] = job[g]
      /\ job'[f] \in {on, gone}
      /\ faults' = 0 => job'[f] = on /\ endpoints' = endpoints \cup {<<f, h>>}
  BY <1>1, <1>3, <1>4, JobIsFacts
<1>6. endpoints' \subseteq endpoints \cup {<<f, h>>} /\ endpoints \subseteq endpoints'
  BY <1>4
<1>7. SnapshotInv'
  <2>1. \A g \in Files : job'[g].pc \in {"endpoints", "ranking"} => g \in snapshots
    BY <1>1, <1>5 DEF SnapshotInv
  <2>2. \A g \in snapshots : job'[g].pc \in {"endpoints", "ranking", "recent", "end"}
    BY <1>1, <1>3, <1>5 DEF SnapshotInv, TypeOK
  <2>3. ASSUME faults' = 0, NEW g \in snapshots
        PROVE  /\ \A k \in job'[g].hosts :
                    <<g, k>> \in endpoints' \/ (job'[g].pc = "endpoints" /\ k \in job'[g].todo)
               /\ job'[g].pc \in {"recent", "end"} =>
                    \A k \in job'[g].ranked : <<g, k>> \in rankings
    <3>1. CASE g = f
      BY <1>1, <1>3, <1>4, <1>5, <2>3, <3>1 DEF SnapshotInv, At
    <3>2. CASE g # f
      BY <1>1, <1>4, <1>5, <1>6, <2>3, <3>2 DEF SnapshotInv, At, TypeOK
    <3>. QED
      BY <3>1, <3>2
  <2>. QED
    BY <1>1, <2>1, <2>2, <2>3 DEF SnapshotInv, At
<1>8. \A row \in endpoints' \cup rankings : row[1] \in snapshots
  BY <1>1, <1>6 DEF SnapshotsComplete
<1>. QED
  BY <1>1, <1>7, <1>8 DEF SnapshotInv, SnapshotsComplete, At

LEMMA RankingStep ==
  ASSUME PipelineInv, NEW f \in Files, EndpointsSaved(f) \/ SaveRanking(f)
  PROVE  SnapshotInv' /\ SnapshotsComplete'
<1>. DEFINE pc == IF EndpointsSaved(f) THEN "ranking" ELSE "recent"
            new == [job[f] EXCEPT !.pc = pc]
<1>1. /\ TypeOK /\ SnapshotInv /\ SnapshotsComplete /\ job[f] \in Job
      /\ UNCHANGED <<snapshots, endpoints>> /\ f \in snapshots
  BY DEF PipelineInv, EndpointsSaved, SaveRanking, At, SnapshotInv, records, TypeOK
<1>2. /\ new \in Job /\ new.pc = pc /\ JobIs(f, new)
      /\ new.hosts = job[f].hosts /\ new.ranked = job[f].ranked
      /\ pc \in {"ranking", "recent"}
  <2>1. pc \in {"ranking", "recent"} /\ pc \in Steps
    BY DEF Steps, Tables
  <2>2. JobIs(f, new)
    <3>1. CASE EndpointsSaved(f)
      BY <3>1 DEF EndpointsSaved, Goto
    <3>2. CASE SaveRanking(f)
      <4>1. At(f, "ranking") /\ Goto(f, "recent")
        BY <3>2 DEF SaveRanking
      <4>2. pc = "recent"
        BY <4>1 DEF EndpointsSaved, At
      <4>. QED
        BY <4>1, <4>2 DEF Goto
    <3>. QED
      BY <3>1, <3>2
  <2>3. \A step \in Steps : /\ [job[f] EXCEPT !.pc = step] \in Job
                           /\ [job[f] EXCEPT !.pc = step].pc = step
                           /\ [job[f] EXCEPT !.pc = step].hosts = job[f].hosts
                           /\ [job[f] EXCEPT !.pc = step].ranked = job[f].ranked
    BY <1>1, PcFacts
  <2>. HIDE DEF pc
  <2>. QED
    BY <2>1, <2>2, <2>3
<1>3. /\ pc = "ranking" => job[f].pc = "endpoints" /\ job[f].todo = {} /\ rankings' = rankings
      /\ pc = "recent" => job[f].pc = "ranking" /\
           (faults' = 0 => {f} \X job[f].ranked \subseteq rankings')
      /\ rankings \subseteq rankings' /\ rankings' \subseteq rankings \cup ({f} \X job[f].ranked)
      /\ faults' = 0 => faults = 0
  BY <1>1 DEF EndpointsSaved, SaveRanking, At, Fault, TypeOK, records
<1>. HIDE DEF new, pc
<1>4. job'[f] = new /\ \A g \in Files : g # f => job'[g] = job[g]
  BY <1>1, <1>2, JobIsFacts
<1>5. SnapshotInv'
  <2>1. \A g \in Files : job'[g].pc \in {"endpoints", "ranking"} => g \in snapshots
    BY <1>1, <1>4 DEF SnapshotInv
  <2>2. \A g \in snapshots : job'[g].pc \in {"endpoints", "ranking", "recent", "end"}
    BY <1>1, <1>2, <1>4 DEF SnapshotInv, TypeOK
  <2>3. ASSUME faults' = 0, NEW g \in snapshots
        PROVE  /\ \A k \in job'[g].hosts :
                    <<g, k>> \in endpoints \/ (job'[g].pc = "endpoints" /\ k \in job'[g].todo)
               /\ job'[g].pc \in {"recent", "end"} =>
                    \A k \in job'[g].ranked : <<g, k>> \in rankings'
    <3>1. CASE g = f
      BY <1>1, <1>2, <1>3, <1>4, <2>3, <3>1 DEF SnapshotInv, At
    <3>2. CASE g # f
      BY <1>1, <1>3, <1>4, <2>3, <3>2 DEF SnapshotInv, At, TypeOK
    <3>. QED
      BY <3>1, <3>2
  <2>. QED
    BY <1>1, <2>1, <2>2, <2>3 DEF SnapshotInv, At
<1>6. \A row \in endpoints \cup rankings' : row[1] \in snapshots
  BY <1>1, <1>3 DEF SnapshotsComplete
<1>. QED
  BY <1>1, <1>5, <1>6 DEF SnapshotInv, SnapshotsComplete, At

LEMMA PlainSnapshot ==
  ASSUME PipelineInv, NEW f \in Files, PlainStep(f)
  PROVE  SnapshotInv' /\ SnapshotsComplete'
<1>1. CASE \/ NothingMeasured(f) \/ Measure(f) \/ DevicesSaved(f) \/ NetworkLoad(f)
           \/ NetworkCommit(f) \/ \E h \in Hosts : SaveTraffic(f, h)
  <2>1. TypeOK /\ SnapshotInv /\ SnapshotsComplete /\ job[f] \in Job
    BY DEF PipelineInv, TypeOK
  <2>2. UNCHANGED records /\ job[f].pc \in {"zeek", "devices", "load", "network"}
    BY <1>1 DEF NothingMeasured, Measure, DevicesSaved, NetworkLoad, NetworkCommit, SaveTraffic,
                records, At
  <2>3. FaultCounted
    <3>1. faults' = faults \/ Fault
      BY <1>1 DEF NothingMeasured, Measure, DevicesSaved, NetworkLoad, NetworkCommit, SaveTraffic
    <3>. QED
      BY <2>1, <3>1 DEF Fault, FaultCounted, TypeOK
  <2>4. job' \in [Files -> Job] /\ \A g \in Files : g # f => job'[g] = job[g]
    BY <2>1, ProgressFacts, JobIsFacts DEF Progress
  <2>5. job'[f].pc \in {"end", "devices", "load", "network", "talkers"}
    <3>1. CASE NothingMeasured(f) \/ DevicesSaved(f)
      BY <2>1, <3>1 DEF NothingMeasured, DevicesSaved, Goto, JobIs, TypeOK, Job
    <3>2. CASE Measure(f)
      <4>1. PICK hosts \in SUBSET Hosts, ranked \in SUBSET Hosts :
              JobIs(f, Measured(job[f], hosts, ranked))
        BY <3>2 DEF Measure, Measured
      <4>. DEFINE new == Measured(job[f], hosts, ranked)
      <4>2. new \in Job /\ new.pc = "devices"
        BY <2>1, HostsFacts
      <4>3. JobIs(f, new)
        BY <4>1
      <4>. HIDE DEF new
      <4>. QED
        BY <2>1, <4>2, <4>3, JobIsFacts
    <3>4. CASE NetworkLoad(f) \/ NetworkCommit(f)
      <4>1. PICK step \in {"network", "talkers"} : \E row \in Row :
              JobIs(f, [job[f] EXCEPT !.pc = step, !.loaded = row])
        <5>1. network \in Row /\ NoRow \in Row
          BY <2>1, BoundsAssumption DEF TypeOK, NoRow, Row
        <5>. QED
          BY <3>4, <5>1 DEF NetworkLoad, NetworkCommit
      <4>2. PICK row \in Row : JobIs(f, [job[f] EXCEPT !.pc = step, !.loaded = row])
        BY <4>1
      <4>3. job'[f] = [job[f] EXCEPT !.pc = step, !.loaded = row]
        BY <2>1, <4>2 DEF JobIs, TypeOK
      <4>4. [job[f] EXCEPT !.pc = step, !.loaded = row].pc = step
        BY <2>1 DEF Job
      <4>. QED
        BY <4>3, <4>4
    <3>3. ASSUME NEW h \in Hosts, SaveTraffic(f, h)
          PROVE  job'[f].pc = "devices"
      BY <2>1, <3>3 DEF SaveTraffic, JobIs, At, TypeOK, Job
    <3>. QED
      BY <1>1, <3>1, <3>2, <3>3, <3>4
  <2>6. \A g \in Files : Unconcerned(g)
    BY <2>2, <2>4, <2>5 DEF Unconcerned
  <2>. QED
    BY <2>1, <2>2, <2>3, <2>6, SameSnapshot
<1>. QED
  BY <1>1, SaveSnapshotStep, SaveEndpointStep, RankingStep DEF PlainStep

-----------------------------------------------------------------------------
\* PipelineInv is inductive: it holds in every reachable state.
LEMMA NextPipelineInv ==
  ASSUME PipelineInv, [Next]_vars
  PROVE  PipelineInv'
<1>0. TypeOK
  BY DEF PipelineInv
<1>1. ASSUME NEW f \in Files, Rotate(f)
      PROVE  PipelineInv'
  BY <1>0, <1>1, RotateTypes, RotateOrder, RotateReplace, RotateSnapshot DEF PipelineInv
<1>2. ASSUME NEW f \in Files, PlainStep(f)
      PROVE  PipelineInv'
  BY <1>0, <1>2, PlainTypes, PlainOrder, PlainReplace, PlainSnapshot DEF PipelineInv
<1>3. ASSUME NEW f \in Files, NEW t \in Tables, ReplaceStep(f, t)
      PROVE  PipelineInv'
  <2>1. StageInv' /\ ReplaceInv' /\ MixedOnlyIfOverlap'
    BY <1>3, StartReplace, DeleteReplace, CommitReplace DEF ReplaceStep
  <2>. QED
    BY <1>0, <1>3, <2>1, ReplaceTypes, ReplaceOrder, ReplaceSnapshot DEF PipelineInv
<1>4. CASE ProbeLoad \/ ProbeCommit \/ Restart \/ \E h \in Hosts : Report(h)
  BY <1>0, <1>4, OtherTypes, OtherOrder, OtherReplace, OtherSnapshot DEF PipelineInv
<1>5. CASE UNCHANGED vars
  <2>1. UNCHANGED <<job, probe, network, traffic, reported, tables, snapshots, endpoints, rankings,
                    faults, history>>
    BY <1>5 DEF vars
  <2>2. TypeOK' /\ StageInv' /\ StartedInv' /\ IspInv'
    BY <2>1 DEF PipelineInv, TypeOK, StageInv, StartedInv, IspInv, At
  <2>3. OrderInv'
    BY <2>1 DEF PipelineInv, OrderInv, At, Running
  <2>4. ReplaceInv' /\ MixedOnlyIfOverlap'
    BY <2>1, SameReplace DEF PipelineInv
  <2>5. SnapshotInv' /\ SnapshotsComplete'
    BY <2>1, SameSnapshot DEF PipelineInv, records, FaultCounted, Unconcerned
  <2>. QED
    BY <2>2, <2>3, <2>4, <2>5 DEF PipelineInv
<1>. QED
  BY <1>1, <1>2, <1>3, <1>4, <1>5 DEF Next, Step, PlainStep, ReplaceStep

THEOREM PipelineInvariant == Spec => []PipelineInv
BY InitPipelineInv, NextPipelineInv, PTL DEF Spec

\* Tables and threads are well formed.
THEOREM TypeCorrect == Spec => []TypeOK
<1>1. PipelineInv => TypeOK
  BY DEF PipelineInv
<1>. QED
  BY <1>1, PipelineInvariant, PTL

\* The probe and the analyses share a row, and no measurement of the ISP is lost.
THEOREM IspIsKept == Spec => []IspKept
<1>1. PipelineInv => IspKept
  BY DEF PipelineInv, IspInv, IspKept
<1>. QED
  BY <1>1, PipelineInvariant, PTL

\* Two rankings, or two lists of connections, are in a table at once only if the
\* transactions that wrote them overlapped.
THEOREM MixedMeansOverlap == Spec => []MixedOnlyIfOverlap
<1>1. PipelineInv => MixedOnlyIfOverlap
  BY DEF PipelineInv
<1>. QED
  BY <1>1, PipelineInvariant, PTL

\* The rows of a cycle refer to its snapshot, and without failures they are all there
\* in the end.
THEOREM CompleteSnapshots == Spec => []SnapshotsComplete
<1>1. PipelineInv => SnapshotsComplete
  BY DEF PipelineInv
<1>. QED
  BY <1>1, PipelineInvariant, PTL

\* A current metric goes back to an older file only if the threads overlapped.
THEOREM BackMeansOverlap == Spec => BackOnlyIfOverlap
<1>1. ASSUME PipelineInv, [Next]_vars
      PROVE  [/\ network'.traffic < network.traffic =>
                   {network'.traffic, network.traffic} \in history.together
              /\ \A h \in Hosts : traffic'[h] < traffic[h] =>
                   {traffic'[h], traffic[h]} \in history.together]_vars
  <2>1. TypeOK /\ OrderInv /\ StartedInv
    BY <1>1 DEF PipelineInv
  <2>2. /\ network.traffic \in 0..MaxFiles /\ \A h \in Hosts : traffic[h] \in 0..MaxFiles
    BY <2>1 DEF TypeOK, Row
  <2>3. ASSUME NEW f \in Files, f \in Running, NEW g \in 0..MaxFiles, f < g, ~At(g, "wait")
        PROVE  {f, g} \in history.together
    <3>1. g \in Files
      BY <2>3, BoundsAssumption DEF Files
    <3>. QED
      BY <2>1, <2>3, <3>1 DEF OrderInv
  <2>4. ASSUME NEW f \in Files, PlainStep(f)
        PROVE  /\ network'.traffic < network.traffic =>
                    {network'.traffic, network.traffic} \in history.together
               /\ \A h \in Hosts : traffic'[h] < traffic[h] =>
                    {traffic'[h], traffic[h]} \in history.together
    <3>1. Written(f) /\ f \in Nat /\ f >= 1
      BY <2>1, <2>4, PlainWritten DEF Files
    <3>2. network'.traffic < network.traffic =>
            {network'.traffic, network.traffic} \in history.together
      BY <2>1, <2>2, <2>3, <3>1 DEF Written, StartedInv
    <3>3. ASSUME NEW h \in Hosts, traffic'[h] < traffic[h]
          PROVE  {traffic'[h], traffic[h]} \in history.together
      BY <2>1, <2>2, <2>3, <3>1, <3>3 DEF Written, StartedInv
    <3>. QED
      BY <3>2, <3>3
  <2>5. CASE network'.traffic = network.traffic /\ UNCHANGED traffic
    BY <2>2, <2>5
  <2>6. CASE \A f \in Files : ~PlainStep(f)
    <3>1. ASSUME NEW f \in Files, NEW t \in Tables, ReplaceStep(f, t)
          PROVE  UNCHANGED <<network, traffic>>
      BY <2>1, <3>1, ReplaceTypes DEF metrics
    <3>2. network'.traffic = network.traffic /\ UNCHANGED traffic
      BY <1>1, <2>1, <2>6, <3>1 DEF Next, Step, PlainStep, ReplaceStep, Rotate, ProbeLoad, ProbeCommit,
                                    Restart, Report, metrics, vars, TypeOK, Row
    <3>. QED
      BY <2>5, <3>2
  <2>. QED
    BY <2>4, <2>6
<1>. QED
  BY <1>1, PipelineInvariant, PTL DEF Spec, BackOnlyIfOverlap

=============================================================================
