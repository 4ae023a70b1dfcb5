---------------------------- MODULE AnomalyAlerts ----------------------------
(***************************************************************************)
(* The detection engine of GOATGuard: one thread that every 30 s scores    *)
(* the current metrics of each device and of the network against adaptive  *)
(* baselines, filters spikes, saves one alert per anomaly event and pushes *)
(* it (run.py: alert_queue and FCM).                                       *)
(*                                                                         *)
(* The arithmetic of the baseline is abstracted to the magnitude of the    *)
(* z-score; what is kept is the order of scoring, updating and filtering,  *)
(* the memory of past cycles, which a restart empties, and what happens    *)
(* when the database fails between the steps.                              *)
(***************************************************************************)
EXTENDS Naturals, Sequences, FiniteSets

CONSTANTS
  Devices,    \* devices with an agent
  Net,        \* the network as a subject of its own
  MetricsOf,  \* the metrics of each subject
  MinSamples, \* warm-up, in observations
  MaxAlerts,  \* bound on saved alerts: nothing anomalous is measured beyond it
  MaxFaults   \* bound on database failures and restarts

Subjects == Devices \cup {Net}
Keys == {k \in Subjects \X UNION {MetricsOf[s] : s \in Subjects} : k[2] \in MetricsOf[k[1]]}

ASSUME NetAssumption == Net \notin Devices
ASSUME MetricsAssumption == DOMAIN MetricsOf = Subjects
ASSUME BoundsAssumption ==
  MinSamples \in Nat \ {0} /\ MaxAlerts \in Nat /\ MaxFaults \in Nat

VARIABLES
  watched,   \* rows of "device" with has_agent and status active
  baselines, \* MetricBaseline of each key; samples = 0: none yet
  active,    \* _active_events
  alerts,    \* rows of "alert": the key, at the index that is the id
  pushed,    \* ids handed to on_alert, in order
  eng,       \* the engine thread
  faults,
  history    \* what was measured, for the properties only

vars == <<watched, baselines, active, alerts, pushed, eng, faults, history>>

\* A metric column is NULL or scores |z| up to 1.5, up to 2, or beyond 2
\* (warning and critical are treated alike).
Readings == {"absent", "normal", "info", "high"}

Baseline == [samples : 0..MinSamples, prevHigh : BOOLEAN]
Fresh == [samples |-> 0, prevHigh |-> FALSE]

\* twice: the last two observations of this run of the server were high;
\* now: high in this cycle;
\* below: under the warning level since the last alert.
Past == [high : BOOLEAN, twice : BOOLEAN, now : BOOLEAN, below : BOOLEAN]
NoPast == [high |-> FALSE, twice |-> FALSE, now |-> FALSE, below |-> TRUE]

EngineState == [pc : {"idle", "visit", "save", "push"}, todo : SUBSET Devices,
                subject : Subjects, pending : SUBSET Keys, created : Seq(Nat)]
Engine(pc, todo, s, pending, created) ==
  [pc |-> pc, todo |-> todo, subject |-> s, pending |-> pending, created |-> created]
Idle == Engine("idle", {}, Net, {}, <<>>)

TypeOK ==
  /\ watched \subseteq Devices
  /\ baselines \in [Keys -> Baseline]
  /\ active \subseteq Keys
  /\ alerts \in Seq(Keys) /\ pushed \in Seq(Nat)
  /\ eng \in EngineState
  /\ faults \in 0..MaxFaults
  /\ history \in [Keys -> Past]

Init ==
  /\ watched = {} /\ baselines = [k \in Keys |-> Fresh] /\ active = {}
  /\ alerts = <<>> /\ pushed = <<>> /\ eng = Idle /\ faults = 0
  /\ history = [k \in Keys |-> NoPast]

-----------------------------------------------------------------------------
\* Mutation: a high value is no observation.
UpdateCalmOnly(b, z) ==
  IF z \in {"absent", "high"} THEN [b EXCEPT !.prevHigh = b.samples > 0 /\ z = "high"]
  ELSE [samples |-> IF b.samples = MinSamples THEN b.samples ELSE b.samples + 1,
        prevHigh |-> FALSE]

\* MetricBaseline.update: the value is scored against the baseline before it is
\* added to it; the z-score is kept for the next cycle also during warm-up.
Update(b, z) ==
  IF z = "absent" THEN b
  ELSE [samples |-> IF b.samples = MinSamples THEN b.samples ELSE b.samples + 1,
        prevHigh |-> b.samples > 0 /\ z = "high"]

Warm(b) == b.samples > 0 /\ b.samples + 1 >= MinSamples

\* Mutation: the previous z-score is read after the update.
PersistentAfterUpdate(b, z) == Warm(b) /\ z = "high"

\* evaluate: high now and high at the observation before.
Persistent(b, z) == Warm(b) /\ z = "high" /\ b.prevHigh

\* Every other result, "info" included, clears the event; no reading, no result.
Cleared(b, z) == z # "absent" /\ ~Persistent(b, z)

KeysOf(s) == {k \in Keys : k[1] = s}

Remember(h, b, z) ==
  IF z = "absent" THEN h
  ELSE LET high == z = "high" /\ b.samples > 0
       IN  [h EXCEPT !.high = high, !.twice = high /\ h.high, !.now = high,
                     !.below = @ \/ ~high]

-----------------------------------------------------------------------------
CycleStart ==
  /\ eng.pc = "idle"
  /\ eng' = Engine("visit", watched, Net, {}, <<>>)
  /\ history' = [k \in Keys |-> [history[k] EXCEPT !.now = FALSE]]
  /\ UNCHANGED <<watched, baselines, active, alerts, pushed, faults>>

\* Mutation: the event is active before its alert is saved.
EvaluateMarking(s, reading) ==
  LET Alarms == {k \in KeysOf(s) : Persistent(baselines[k], reading[k])}
      Clears == {k \in KeysOf(s) : Cleared(baselines[k], reading[k])}
  IN  /\ Len(alerts) + Cardinality(Alarms \ active) <= MaxAlerts
      /\ baselines' = [k \in Keys |->
           IF k \in KeysOf(s) THEN Update(baselines[k], reading[k]) ELSE baselines[k]]
      /\ active' = (active \ Clears) \cup Alarms
      /\ history' = [k \in Keys |->
           IF k \in KeysOf(s) THEN Remember(history[k], baselines[k], reading[k])
           ELSE history[k]]
      /\ eng' = Engine("save", eng.todo \ {s}, s, Alarms \ active, <<>>)
      /\ UNCHANGED <<watched, alerts, pushed, faults>>

\* evaluate, and the part of process_*_results that only touches memory.
Evaluate(s, reading) ==
  LET Alarms == {k \in KeysOf(s) : Persistent(baselines[k], reading[k])}
      Clears == {k \in KeysOf(s) : Cleared(baselines[k], reading[k])}
  IN  /\ Len(alerts) + Cardinality(Alarms \ active) <= MaxAlerts
      /\ baselines' = [k \in Keys |->
           IF k \in KeysOf(s) THEN Update(baselines[k], reading[k]) ELSE baselines[k]]
      /\ active' = active \ Clears
      /\ history' = [k \in Keys |->
           IF k \in KeysOf(s) THEN Remember(history[k], baselines[k], reading[k])
           ELSE history[k]]
      /\ eng' = Engine("save", eng.todo \ {s}, s, Alarms \ active, <<>>)
      /\ UNCHANGED <<watched, alerts, pushed, faults>>

VisitDevice(d) ==
  /\ eng.pc = "visit" /\ d \in eng.todo
  /\ \E reading \in [KeysOf(d) -> Readings] : Evaluate(d, reading)
VisitNetwork ==
  /\ eng.pc = "visit" /\ eng.todo = {}
  /\ \E reading \in [KeysOf(Net) -> Readings] : Evaluate(Net, reading)

\* _save_alert commits the row and returns the alert to push.
Insert(k) ==
  /\ alerts' = Append(alerts, k)
  /\ history' = [history EXCEPT ![k] = [history[k] EXCEPT !.below = FALSE]]

SaveAlert(k) ==
  /\ eng.pc = "save" /\ k \in eng.pending
  /\ Insert(k)
  /\ active' = active \cup {k}
  /\ eng' = [eng EXCEPT !.pending = @ \ {k}, !.created = Append(@, Len(alerts) + 1)]
  /\ UNCHANGED <<watched, baselines, pushed, faults>>

\* Mutation: the event becomes active only with an alert to push.
SaveFailsInactive(k) ==
  /\ eng.pc = "save" /\ k \in eng.pending /\ faults < MaxFaults
  /\ UNCHANGED <<alerts, history>> \/ Insert(k)
  /\ eng' = [eng EXCEPT !.pending = @ \ {k}]
  /\ faults' = faults + 1
  /\ UNCHANGED <<watched, baselines, active, pushed>>

\* The INSERT fails, or the refresh after the commit: the event is active either
\* way and nothing is pushed.
SaveFails(k) ==
  /\ eng.pc = "save" /\ k \in eng.pending /\ faults < MaxFaults
  /\ UNCHANGED <<alerts, history>> \/ Insert(k)
  /\ active' = active \cup {k}
  /\ eng' = [eng EXCEPT !.pending = @ \ {k}]
  /\ faults' = faults + 1
  /\ UNCHANGED <<watched, baselines, pushed>>

Saved ==
  /\ eng.pc = "save" /\ eng.pending = {}
  /\ eng' = [eng EXCEPT !.pc = "push"]
  /\ UNCHANGED <<watched, baselines, active, alerts, pushed, faults, history>>

\* Mutation: one alert of a subject at most.
PushOne ==
  /\ eng.pc = "push" /\ eng.created # <<>>
  /\ pushed' = Append(pushed, Head(eng.created))
  /\ eng' = [eng EXCEPT !.created = <<>>]
  /\ UNCHANGED <<watched, baselines, active, alerts, faults, history>>

\* Mutation: a push that fails halfway is tried again, without a look at what it did.
PushKept ==
  /\ eng.pc = "push" /\ eng.created # <<>>
  /\ pushed' = Append(pushed, Head(eng.created))
  /\ \E rest \in {eng.created, Tail(eng.created)} : eng' = [eng EXCEPT !.created = rest]
  /\ UNCHANGED <<watched, baselines, active, alerts, faults, history>>

\* on_alert, in the order of creation.
Push ==
  /\ eng.pc = "push" /\ eng.created # <<>>
  /\ pushed' = Append(pushed, Head(eng.created))
  /\ eng' = [eng EXCEPT !.created = Tail(@)]
  /\ UNCHANGED <<watched, baselines, active, alerts, faults, history>>

NextSubject ==
  /\ eng.pc = "push" /\ eng.created = <<>>
  /\ eng' = IF eng.subject = Net THEN Idle ELSE Engine("visit", eng.todo, Net, {}, <<>>)
  /\ UNCHANGED <<watched, baselines, active, alerts, pushed, faults, history>>

\* A query of the cycle fails: the rest of the cycle is skipped.
CycleFails ==
  /\ eng.pc = "visit" /\ faults < MaxFaults
  /\ eng' = Idle /\ faults' = faults + 1
  /\ UNCHANGED <<watched, baselines, active, alerts, pushed, history>>

\* run.py is restarted: baselines and events are only in memory.
Restart ==
  /\ faults < MaxFaults
  /\ baselines' = [k \in Keys |-> Fresh] /\ active' = {} /\ eng' = Idle
  /\ history' = [k \in Keys |-> NoPast]
  /\ faults' = faults + 1
  /\ UNCHANGED <<watched, alerts, pushed>>

\* The device registry: a device becomes active or is disconnected.
WatchedChanges(d) ==
  /\ watched' = IF d \in watched THEN watched \ {d} ELSE watched \cup {d}
  /\ UNCHANGED <<baselines, active, alerts, pushed, eng, faults, history>>

Cycle ==
  \/ CycleStart \/ VisitNetwork \/ (\E d \in Devices : VisitDevice(d))
  \/ (\E k \in Keys : SaveAlert(k)) \/ Saved \/ Push \/ NextSubject

Next ==
  \/ Cycle
  \/ \E k \in Keys : SaveFails(k)
  \/ CycleFails \/ Restart
  \/ \E d \in Devices : WatchedChanges(d)

Spec == Init /\ [][Next]_vars
\* The engine thread runs for ever; every error inside a cycle is caught.
FairSpec == Spec /\ WF_vars(Cycle)

-----------------------------------------------------------------------------
(***************************************************************************)
(* Properties.                                                             *)
(***************************************************************************)
NewAlert(k) == Len(alerts') > Len(alerts) /\ alerts'[Len(alerts')] = k

\* The persistence filter: an alert is saved only if the last two observations
\* of the metric were beyond the warning level (2/2 in DeviceDetector.evaluate).
ObservedTwice == [][\A k \in Keys : NewAlert(k) => history[k].twice]_vars

\* One alert per event: between two alerts of one metric the metric was measured
\* below the warning level, or the server was restarted; failed saves and lost
\* readings included (_active_events).
OneAlertPerEvent == [][\A k \in Keys : NewAlert(k) => history[k].below]_vars

\* The memory behind it: an alert whose metric has not come down is an active
\* event of a warm baseline that was high at the last observation, so that the
\* filter cannot drop it; what is about to be saved is like that, but not active.
Running(k) == baselines[k].prevHigh /\ Warm(baselines[k])
DedupInv ==
  /\ \A k \in Keys : ~history[k].below => k \in active /\ Running(k)
  /\ eng.pending \cap active = {} /\ \A k \in eng.pending : k \in Keys /\ Running(k)
  /\ eng.pc # "save" => eng.pending = {}

\* As long as nothing has failed, an active event has its alert in the database.
EventsAreAlerted == faults = 0 => \A k \in active : ~history[k].below

\* Alerts are pushed in the order they were saved, none twice.
PushedInOrder == \A i, j \in DOMAIN pushed : i < j => pushed[i] < pushed[j]

\* What it rests on: the alerts still to push are saved, in order and newer than
\* those pushed.
QueueInv ==
  /\ PushedInOrder
  /\ \A i, j \in DOMAIN eng.created : i < j => eng.created[i] < eng.created[j]
  /\ \A i \in DOMAIN pushed, j \in DOMAIN eng.created : pushed[i] < eng.created[j]
  /\ \A i \in DOMAIN pushed : pushed[i] <= Len(alerts)
  /\ \A i \in DOMAIN eng.created : eng.created[i] \in 1..Len(alerts)

\* The abstract feed: what is saved comes before what is pushed, and pushes are in
\* the order of the ids and never repeated; each push is a step of the feed.
Feed == INSTANCE AlertFeed WITH
  Receivers <- {}, saved <- Len(alerts), put <- pushed, got <- [r \in {} |-> <<>>]

\* The engine implements the part of the feed that hands alerts over.
ImplementsFeed == Feed!Spec

\* Every saved alert is pushed, unless the save or the server failed.
SavedIsPushed ==
  \A i \in 1..MaxAlerts :
    Len(alerts) >= i ~> (\E j \in DOMAIN pushed : pushed[j] = i) \/ faults > 0

\* An anomaly that is there at every observation becomes an event in the end,
\* whatever restarts and failures there were.
LastingAnomalyIsEvent ==
  \A k \in Keys :
    ([]<>history[k].now /\ <>[]history[k].high) => <>[](k \in active)

=============================================================================
