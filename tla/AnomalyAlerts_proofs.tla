------------------------ MODULE AnomalyAlerts_proofs ------------------------
(***************************************************************************)
(* Proofs about AnomalyAlerts: one alert per anomaly event, an alert for   *)
(* every event, the order of the pushes, and that an alert was preceded by *)
(* two high readings, for any devices, metrics, warm-up and failures.      *)
(***************************************************************************)
EXTENDS AnomalyAlerts, TLAPS

\* The inductive invariant.
AlertsInv == TypeOK /\ DedupInv /\ QueueInv

\* Records the engine writes are engine states.
LEMMA EngineType ==
  ASSUME NEW pc \in {"idle", "visit", "save", "push"}, NEW todo \in SUBSET Devices,
         NEW s \in Subjects, NEW pending \in SUBSET Keys, NEW created \in Seq(Nat)
  PROVE  Engine(pc, todo, s, pending, created) \in EngineState
BY DEF Engine, EngineState

\* Scoring and remembering stay within their types.
LEMMA ObservationTypes ==
  ASSUME NEW b \in Baseline, NEW h \in Past, NEW z
  PROVE  Update(b, z) \in Baseline /\ Remember(h, b, z) \in Past
<1>1. Update(b, z) \in Baseline
  BY BoundsAssumption DEF Update, Baseline
<1>2. Remember(h, b, z) \in Past
  BY DEF Remember, Past, Baseline
<1>. QED
  BY <1>1, <1>2

\* An engine that has just started.
LEMMA InitAlertsInv == Init => AlertsInv
<1>. SUFFICES ASSUME Init PROVE AlertsInv
  OBVIOUS
<1>1. Idle \in EngineState /\ Fresh \in Baseline /\ NoPast \in Past
  BY BoundsAssumption DEF Idle, Engine, EngineState, Fresh, Baseline, NoPast, Past, Subjects
<1>2. TypeOK
  BY <1>1, BoundsAssumption DEF Init, TypeOK
<1>3. DedupInv /\ QueueInv
  BY DEF Init, DedupInv, QueueInv, PushedInOrder, Idle, Engine, NoPast
<1>. QED
  BY <1>2, <1>3 DEF AlertsInv

\* One subject is scored: a metric that stays high keeps its event.
LEMMA EvaluateStep ==
  ASSUME AlertsInv, NEW s \in Subjects, NEW reading,
         eng.pc = "visit", Evaluate(s, reading)
  PROVE  AlertsInv'
<1>. DEFINE Alarms == {k \in KeysOf(s) : Persistent(baselines[k], reading[k])}
            Clears == {k \in KeysOf(s) : Cleared(baselines[k], reading[k])}
<1>0. Alarms \subseteq Keys
  BY DEF KeysOf
<1>1. /\ baselines' = [k \in Keys |->
           IF k \in KeysOf(s) THEN Update(baselines[k], reading[k]) ELSE baselines[k]]
      /\ active' = active \ Clears
      /\ history' = [k \in Keys |->
           IF k \in KeysOf(s) THEN Remember(history[k], baselines[k], reading[k])
           ELSE history[k]]
      /\ eng' = Engine("save", eng.todo \ {s}, s, Alarms \ active, <<>>)
      /\ UNCHANGED <<watched, alerts, pushed, faults>>
  BY DEF Evaluate
<1>2. /\ baselines \in [Keys -> Baseline] /\ history \in [Keys -> Past]
      /\ eng.todo \ {s} \in SUBSET Devices
  BY DEF AlertsInv, TypeOK, EngineState
<1>3. ASSUME NEW k \in Alarms
      PROVE  Update(baselines[k], reading[k]).prevHigh /\ Warm(Update(baselines[k], reading[k]))
  BY <1>0, <1>2, BoundsAssumption DEF Persistent, Update, Warm, Baseline
<1>4. ASSUME NEW k \in Keys, ~history'[k].below
      PROVE  /\ ~history[k].below
             /\ k \in KeysOf(s) => k \notin Clears /\
                  (reading[k] = "absent" \/ k \in Alarms)
  <2>1. CASE k \in KeysOf(s) /\ reading[k] # "absent"
    <3>1. history'[k].below = (history[k].below \/ ~(reading[k] = "high" /\ baselines[k].samples > 0))
      BY <1>1, <1>2, <2>1 DEF Remember, Past
    <3>2. ~history[k].below /\ reading[k] = "high"
      BY <1>2, <1>4, <3>1 DEF Past
    <3>3. Running(k)
      BY <3>2 DEF AlertsInv, DedupInv
    <3>. QED
      BY <2>1, <3>2, <3>3 DEF Running, Persistent, Cleared
  <2>2. CASE ~(k \in KeysOf(s) /\ reading[k] # "absent")
    BY <1>1, <1>2, <1>4, <2>2 DEF Remember, Cleared
  <2>. QED
    BY <2>1, <2>2
<1>. HIDE DEF Alarms, Clears
<1>5. TypeOK'
  <2>1. eng' \in EngineState
    <3>1. Alarms \ active \in SUBSET Keys /\ <<>> \in Seq(Nat)
      BY <1>0
    <3>. QED
      BY <1>1, <1>2, <3>1, EngineType
  <2>2. baselines' \in [Keys -> Baseline] /\ history' \in [Keys -> Past]
    BY <1>1, <1>2, ObservationTypes
  <2>. QED
    BY <1>1, <2>1, <2>2 DEF AlertsInv, TypeOK
<1>6. DedupInv'
  <2>1. ASSUME NEW k \in Keys, ~history'[k].below
        PROVE  k \in active' /\ Running(k)'
    <3>1. k \in active /\ Running(k)
      BY <1>4, <2>1 DEF AlertsInv, DedupInv
    <3>2. k \in active'
      <4>1. k \in Clears => k \in KeysOf(s)
        BY DEF Clears
      <4>. QED
        BY <1>1, <1>4, <2>1, <3>1, <4>1
    <3>3. CASE k \in KeysOf(s) /\ k \in Alarms
      BY <1>1, <1>3, <3>2, <3>3 DEF Running
    <3>4. CASE baselines'[k] = baselines[k]
      BY <3>1, <3>2, <3>4 DEF Running
    <3>. QED
      BY <1>1, <1>4, <2>1, <3>3, <3>4 DEF Update
  <2>2. ASSUME NEW k \in Alarms \ active
        PROVE  k \in Keys /\ Running(k)'
    <3>1. k \in KeysOf(s)
      BY DEF Alarms
    <3>. QED
      BY <1>0, <1>1, <1>3, <3>1 DEF Running
  <2>3. eng'.pending = Alarms \ active /\ eng'.pc = "save"
    BY <1>1 DEF Engine
  <2>. QED
    BY <1>1, <2>1, <2>2, <2>3 DEF DedupInv
<1>7. QueueInv'
  BY <1>1 DEF AlertsInv, QueueInv, PushedInOrder, Engine
<1>. QED
  BY <1>5, <1>6, <1>7 DEF AlertsInv

\* A new row gets an id above all others, for an event that was not active.
LEMMA InsertStep ==
  ASSUME AlertsInv, NEW k \in eng.pending, eng.pc = "save",
         UNCHANGED <<alerts, history>> \/ Insert(k),
         active' = active \cup {k}, UNCHANGED <<watched, baselines, pushed>>,
         faults' \in 0..MaxFaults,
         \/ eng' = [eng EXCEPT !.pending = @ \ {k}]
         \/ /\ eng' = [eng EXCEPT !.pending = @ \ {k}, !.created = Append(@, Len(alerts) + 1)]
            /\ Insert(k)
  PROVE  AlertsInv'
<1>1. /\ k \in Keys /\ eng \in EngineState /\ history \in [Keys -> Past]
      /\ alerts \in Seq(Keys) /\ pushed \in Seq(Nat) /\ eng.created \in Seq(Nat)
  BY DEF AlertsInv, TypeOK, DedupInv, EngineState
<1>2. /\ alerts' \in Seq(Keys) /\ history' \in [Keys -> Past]
      /\ Len(alerts') \in Nat /\ Len(alerts) \in Nat /\ Len(alerts') >= Len(alerts)
      /\ Insert(k) => Len(alerts') = Len(alerts) + 1
      /\ \A q \in Keys : q # k => history'[q] = history[q]
  <2>1. CASE UNCHANGED <<alerts, history>> /\ ~Insert(k)
    BY <1>1, <2>1
  <2>2. CASE Insert(k)
    <3>1. [history[k] EXCEPT !.below = FALSE] \in Past
      <4>1. ASSUME NEW h \in Past
            PROVE  [h EXCEPT !.below = FALSE] \in Past
        BY DEF Past
      <4>2. history[k] \in Past
        BY <1>1
      <4>. QED
        BY <4>1, <4>2
    <3>2. history' = [history EXCEPT ![k] = [history[k] EXCEPT !.below = FALSE]]
      BY <2>2 DEF Insert
    <3>3. history' \in [Keys -> Past] /\ \A q \in Keys : q # k => history'[q] = history[q]
      BY <1>1, <3>1, <3>2
    <3>4. /\ alerts' \in Seq(Keys) /\ Len(alerts) \in Nat
          /\ Len(alerts') = Len(alerts) + 1
      BY <1>1, <2>2 DEF Insert
    <3>. QED
      BY <3>3, <3>4
  <2>. QED
    BY <2>1, <2>2
<1>3. /\ eng'.pc = "save" /\ eng'.pending = eng.pending \ {k} /\ eng' \in EngineState
      /\ eng'.created = eng.created
           \/ (Insert(k) /\ eng'.created = Append(eng.created, Len(alerts) + 1))
  <2>1. Append(eng.created, Len(alerts) + 1) \in Seq(Nat)
    BY <1>1, <1>2
  <2>2. CASE eng' = [eng EXCEPT !.pending = @ \ {k}]
    BY <1>1, <2>2 DEF EngineState
  <2>3. CASE /\ eng' = [eng EXCEPT !.pending = @ \ {k}, !.created = Append(@, Len(alerts) + 1)]
             /\ Insert(k)
    <3>. DEFINE longer == Append(eng.created, Len(alerts) + 1)
    <3>1. eng' = [eng EXCEPT !.pending = eng.pending \ {k}, !.created = longer]
      BY <2>3
    <3>. HIDE DEF longer
    <3>2. longer \in Seq(Nat)
      BY <2>1 DEF longer
    <3>3. eng'.pc = "save" /\ eng'.pending = eng.pending \ {k} /\ eng' \in EngineState
      BY <1>1, <3>1, <3>2 DEF EngineState
    <3>4. eng'.created = longer
      BY <1>1, <3>1 DEF EngineState
    <3>. QED
      BY <2>3, <3>3, <3>4 DEF longer
  <2>. QED
    BY <2>2, <2>3
<1>4. TypeOK'
  BY <1>1, <1>2, <1>3 DEF AlertsInv, TypeOK
<1>5. DedupInv'
  <2>1. Running(k) /\ \A q : Running(q)' = Running(q)
    BY DEF AlertsInv, DedupInv, Running
  <2>2. ASSUME NEW q \in Keys, ~history'[q].below
        PROVE  q \in active' /\ Running(q)'
    BY <1>2, <2>1, <2>2 DEF AlertsInv, DedupInv
  <2>. QED
    BY <1>3, <2>1, <2>2 DEF AlertsInv, DedupInv
<1>6. QueueInv'
  <2>1. CASE eng'.created = eng.created
    BY <1>1, <1>2, <2>1 DEF AlertsInv, QueueInv, PushedInOrder
  <2>2. CASE Insert(k) /\ eng'.created = Append(eng.created, Len(alerts) + 1)
    <3>1. \A i \in DOMAIN eng'.created :
            \/ i \in DOMAIN eng.created /\ eng'.created[i] = eng.created[i]
            \/ i = Len(eng.created) + 1 /\ eng'.created[i] = Len(alerts) + 1
      BY <1>1, <2>2
    <3>2. /\ \A i \in DOMAIN eng.created : i \in 1..Len(eng.created) /\ eng.created[i] \in Nat
          /\ \A i \in DOMAIN pushed : pushed[i] \in Nat
          /\ Len(eng.created) \in Nat
      BY <1>1
    <3>. QED
      BY <1>2, <2>2, <3>1, <3>2 DEF AlertsInv, QueueInv, PushedInOrder
  <2>. QED
    BY <1>3, <2>1, <2>2
<1>. QED
  BY <1>4, <1>5, <1>6 DEF AlertsInv

\* The oldest alert is moved to what has been pushed.
LEMMA PushStep ==
  ASSUME AlertsInv, Push
  PROVE  AlertsInv'
<1>1. /\ eng \in EngineState /\ pushed \in Seq(Nat) /\ eng.created \in Seq(Nat)
      /\ eng.created # <<>> /\ eng.pending = {} /\ eng.pc = "push"
  BY DEF AlertsInv, TypeOK, DedupInv, EngineState, Push
<1>2. /\ pushed' = Append(pushed, eng.created[1]) /\ eng' = [eng EXCEPT !.created = Tail(@)]
      /\ UNCHANGED <<watched, baselines, active, alerts, faults, history>>
  BY DEF Push
<1>3. eng.created[1] \in Nat /\ 1 \in DOMAIN eng.created /\ pushed' \in Seq(Nat)
  BY <1>1, <1>2
<1>4. /\ eng' \in EngineState /\ eng'.pending = {} /\ eng'.pc = "push"
      /\ eng'.created = Tail(eng.created)
  <2>. DEFINE rest == Tail(eng.created)
  <2>1. rest \in Seq(Nat)
    BY <1>1
  <2>2. eng' = [eng EXCEPT !.created = rest]
    BY <1>2
  <2>. HIDE DEF rest
  <2>3. eng' \in EngineState /\ eng'.pending = {} /\ eng'.pc = "push" /\ eng'.created = rest
    BY <1>1, <2>1, <2>2 DEF EngineState
  <2>. QED
    BY <2>3 DEF rest
<1>5. TypeOK'
  BY <1>2, <1>3, <1>4 DEF AlertsInv, TypeOK
<1>6. DedupInv'
  BY <1>2, <1>4 DEF AlertsInv, DedupInv, Running
<1>7. QueueInv'
  <2>1. \A i \in DOMAIN pushed' :
          \/ i \in DOMAIN pushed /\ pushed'[i] = pushed[i]
          \/ i = Len(pushed) + 1 /\ pushed'[i] = eng.created[1]
    BY <1>1, <1>2, <1>3
  <2>2. \A i \in DOMAIN eng'.created :
          i \in 1..(Len(eng.created) - 1) /\ i + 1 \in DOMAIN eng.created
          /\ eng'.created[i] = eng.created[i + 1]
    BY <1>1, <1>4
  <2>3. /\ Len(pushed) \in Nat /\ DOMAIN pushed = 1..Len(pushed)
        /\ Len(eng.created) \in Nat /\ DOMAIN eng.created = 1..Len(eng.created)
        /\ \A i \in DOMAIN pushed : pushed[i] \in Nat
        /\ \A i \in DOMAIN eng.created : eng.created[i] \in Nat
    BY <1>1
  <2>4. PushedInOrder'
    <3>1. \A i \in DOMAIN pushed : pushed[i] < eng.created[1]
      BY <1>3 DEF AlertsInv, QueueInv
    <3>2. \A i, j \in DOMAIN pushed : i < j => pushed[i] < pushed[j]
      BY DEF AlertsInv, QueueInv, PushedInOrder
    <3>3. SUFFICES ASSUME NEW i \in DOMAIN pushed', NEW j \in DOMAIN pushed', i < j
                   PROVE  pushed'[i] < pushed'[j]
      BY DEF PushedInOrder
    <3>4. i \in DOMAIN pushed
      BY <2>1, <2>3, <3>3
    <3>. QED
      BY <2>1, <2>3, <3>1, <3>2, <3>3, <3>4
  <2>5. \A i, j \in DOMAIN eng'.created : i < j => eng'.created[i] < eng'.created[j]
    <3>1. \A i, j \in DOMAIN eng.created : i < j => eng.created[i] < eng.created[j]
      BY DEF AlertsInv, QueueInv
    <3>2. SUFFICES ASSUME NEW i \in DOMAIN eng'.created, NEW j \in DOMAIN eng'.created, i < j
                   PROVE  eng'.created[i] < eng'.created[j]
      OBVIOUS
    <3>3. i \in Nat /\ j \in Nat /\ i + 1 < j + 1
      BY <2>2, <2>3, <3>2
    <3>. QED
      BY <2>2, <3>1, <3>2, <3>3
  <2>6. \A i \in DOMAIN pushed', j \in DOMAIN eng'.created : pushed'[i] < eng'.created[j]
    <3>1. \A i \in DOMAIN pushed, j \in DOMAIN eng.created : pushed[i] < eng.created[j]
      BY DEF AlertsInv, QueueInv
    <3>2. \A j \in DOMAIN eng'.created : eng.created[1] < eng.created[j + 1]
      <4>1. \A i, j \in DOMAIN eng.created : i < j => eng.created[i] < eng.created[j]
        BY DEF AlertsInv, QueueInv
      <4>2. \A j \in DOMAIN eng'.created : j + 1 \in DOMAIN eng.created /\ 1 < j + 1
        BY <2>2, <2>3
      <4>. QED
        BY <1>3, <4>1, <4>2
    <3>. QED
      BY <2>1, <2>2, <3>1, <3>2
  <2>7. /\ \A i \in DOMAIN pushed' : pushed'[i] <= Len(alerts')
        /\ \A i \in DOMAIN eng'.created : eng'.created[i] \in 1..Len(alerts')
    BY <1>2, <1>3, <2>1, <2>2 DEF AlertsInv, QueueInv
  <2>. QED
    BY <2>4, <2>5, <2>6, <2>7 DEF QueueInv
<1>. QED
  BY <1>5, <1>6, <1>7 DEF AlertsInv

\* The engine moves on without saving or pushing, or forgets what it had to do.
LEMMA ControlStep ==
  ASSUME AlertsInv, UNCHANGED <<alerts, pushed>>,
         watched' \subseteq Devices, faults' \in 0..MaxFaults,
         eng' \in EngineState, eng'.pending = {},
         eng'.created = eng.created \/ eng'.created = <<>>,
         \/ UNCHANGED <<baselines, active, history>>
         \/ /\ UNCHANGED <<baselines, active>> /\ history' \in [Keys -> Past]
            /\ \A k \in Keys : history'[k].below = history[k].below
         \/ /\ baselines' = [k \in Keys |-> Fresh] /\ active' = {}
            /\ history' = [k \in Keys |-> NoPast]
  PROVE  AlertsInv'
<1>1. Fresh \in Baseline /\ NoPast \in Past /\ NoPast.below
  BY BoundsAssumption DEF Fresh, Baseline, NoPast, Past
<1>2. TypeOK'
  BY <1>1 DEF AlertsInv, TypeOK
<1>3. DedupInv'
  BY <1>1 DEF AlertsInv, DedupInv, Running
<1>4. QueueInv'
  BY DEF AlertsInv, QueueInv, PushedInOrder
<1>. QED
  BY <1>2, <1>3, <1>4 DEF AlertsInv

\* Every step of the engine, every failure and every restart keeps it.
LEMMA NextAlertsInv == AlertsInv /\ [Next]_vars => AlertsInv'
<1>. SUFFICES ASSUME AlertsInv, [Next]_vars PROVE AlertsInv'
  OBVIOUS
<1>0. /\ eng \in EngineState /\ watched \subseteq Devices /\ faults \in 0..MaxFaults
      /\ history \in [Keys -> Past]
      /\ eng.pc # "save" => eng.pending = {}
  BY DEF AlertsInv, TypeOK, DedupInv
<1>1. Idle \in EngineState /\ Idle.pending = {} /\ Idle.created = <<>>
  <2>1. Net \in Subjects /\ <<>> \in Seq(Nat)
    BY DEF Subjects
  <2>. QED
    BY <2>1, EngineType DEF Idle, Engine
<1>2. CASE CycleStart
  <2>1. Engine("visit", watched, Net, {}, <<>>) \in EngineState
    <3>1. watched \in SUBSET Devices /\ Net \in Subjects /\ <<>> \in Seq(Nat)
      BY <1>0 DEF Subjects
    <3>. QED
      BY <3>1, EngineType
  <2>2. history' \in [Keys -> Past] /\ \A k \in Keys : history'[k].below = history[k].below
    BY <1>0, <1>2 DEF CycleStart, Past
  <2>. QED
    BY <1>0, <1>2, <2>1, <2>2, ControlStep DEF CycleStart, Engine
<1>3. CASE VisitNetwork \/ \E d \in Devices : VisitDevice(d)
  BY <1>3, EvaluateStep DEF VisitNetwork, VisitDevice, Subjects
<1>4. ASSUME NEW k \in Keys, SaveAlert(k) \/ SaveFails(k)
      PROVE  AlertsInv'
  <2>1. faults' \in 0..MaxFaults
    BY <1>0, <1>4, BoundsAssumption DEF SaveAlert, SaveFails
  <2>. QED
    BY <1>4, <2>1, InsertStep DEF SaveAlert, SaveFails
<1>5. CASE Saved
  <2>1. eng' \in EngineState /\ eng'.pending = {} /\ eng'.created = eng.created
    BY <1>0, <1>5 DEF Saved, EngineState
  <2>. QED
    BY <1>0, <1>5, <2>1, ControlStep DEF Saved
<1>6. CASE Push
  BY <1>6, PushStep
<1>7. CASE NextSubject
  <2>1. Engine("visit", eng.todo, Net, {}, <<>>) \in EngineState
    <3>1. eng.todo \in SUBSET Devices /\ Net \in Subjects /\ <<>> \in Seq(Nat)
      BY <1>0 DEF EngineState, Subjects
    <3>. QED
      BY <3>1, EngineType
  <2>. QED
    BY <1>0, <1>1, <1>7, <2>1, ControlStep DEF NextSubject, Engine
<1>8. CASE CycleFails
  BY <1>0, <1>1, <1>8, ControlStep, BoundsAssumption DEF CycleFails
<1>9. CASE Restart
  BY <1>0, <1>1, <1>9, ControlStep, BoundsAssumption DEF Restart
<1>10. CASE \E d \in Devices : WatchedChanges(d)
  BY <1>0, <1>10 DEF WatchedChanges, AlertsInv, TypeOK, DedupInv, Running, QueueInv, PushedInOrder
<1>11. CASE UNCHANGED vars
  BY <1>11 DEF vars, AlertsInv, TypeOK, DedupInv, Running, QueueInv, PushedInOrder
<1>. QED
  BY <1>2, <1>3, <1>4, <1>5, <1>6, <1>7, <1>8, <1>9, <1>10, <1>11 DEF Next, Cycle

\* The inductive invariant of the detection engine.
THEOREM AlertsInvariant == Spec => []AlertsInv
BY InitAlertsInv, NextAlertsInv, PTL DEF Spec

\* An alert whose metric has not come down is an active event, so it is never
\* alerted again (_active_events); what is about to be saved is not active.
THEOREM Deduplication == Spec => []DedupInv
BY AlertsInvariant, PTL DEF AlertsInv

\* Baselines, events, alerts and the state of the engine are well formed.
THEOREM TypeCorrect == Spec => []TypeOK
BY AlertsInvariant, PTL DEF AlertsInv

\* The engine implements the abstract feed: a saved row is a Save, the call of
\* on_alert a Put of an alert that is saved and newer than all that were put.
THEOREM AlertsImplementFeed == Spec => ImplementsFeed
<1>. USE DEF Feed!vars
<1>1. Init => Feed!Init
  BY DEF Init, Feed!Init
<1>2. ASSUME AlertsInv, [Next]_vars
      PROVE  [Feed!Next]_(Feed!vars)
  <2>1. /\ alerts \in Seq(Keys) /\ pushed \in Seq(Nat) /\ eng \in EngineState
        /\ eng.created \in Seq(Nat) /\ Len(alerts) \in Nat
    BY <1>2 DEF AlertsInv, TypeOK, EngineState
  <2>2. CASE \E k \in Keys : SaveAlert(k) \/ SaveFails(k)
    <3>1. PICK k \in Keys : SaveAlert(k) \/ SaveFails(k)
      BY <2>2
    <3>2. UNCHANGED pushed /\ (UNCHANGED alerts \/ alerts' = Append(alerts, k))
      BY <3>1 DEF SaveAlert, SaveFails, Insert
    <3>3. CASE alerts' = Append(alerts, k)
      <4>1. Len(alerts') = Len(alerts) + 1
        BY <2>1, <3>3
      <4>. QED
        BY <3>2, <4>1 DEF Feed!Next, Feed!Save
    <3>. QED
      BY <3>2, <3>3
  <2>3. CASE Push
    <3>. DEFINE i == eng.created[1]
    <3>1. eng.created # <<>> /\ pushed' = Append(pushed, i) /\ UNCHANGED alerts
      BY <2>3 DEF Push
    <3>2. 1 \in DOMAIN eng.created /\ i \in Nat
      BY <2>1, <3>1
    <3>3. i \in 1..Len(alerts) /\ \A j \in DOMAIN pushed : pushed[j] < i
      BY <1>2, <3>2 DEF AlertsInv, QueueInv
    <3>. HIDE DEF i
    <3>. QED
      BY <3>1, <3>3 DEF Feed!Next, Feed!Put
  <2>4. CASE ~Push /\ ~\E k \in Keys : SaveAlert(k) \/ SaveFails(k)
    <3>1. UNCHANGED <<alerts, pushed>>
      BY <1>2, <2>4 DEF Next, Cycle, CycleStart, VisitNetwork, VisitDevice, Evaluate, Saved,
                        NextSubject, CycleFails, Restart, WatchedChanges, vars
    <3>. QED
      BY <3>1
  <2>. QED
    BY <2>2, <2>3, <2>4
<1>. QED
  BY <1>1, <1>2, AlertsInvariant, PTL DEF Spec, ImplementsFeed, Feed!Spec

\* One alert per event: a second alert of a metric is saved only after the metric
\* was measured below the warning level or the server was restarted.
THEOREM OneAlert == Spec => OneAlertPerEvent
<1>1. ASSUME AlertsInv, [Next]_vars
      PROVE  [\A k \in Keys : NewAlert(k) => history[k].below]_vars
  <2>1. SUFFICES ASSUME Next, NEW k \in Keys, NewAlert(k)
                 PROVE  history[k].below
    BY <1>1
  <2>2. alerts \in Seq(Keys) /\ history \in [Keys -> Past]
    BY <1>1 DEF AlertsInv, TypeOK
  <2>8. alerts' # alerts
    BY <2>1 DEF NewAlert
  <2>9. \E q \in Keys : SaveAlert(q) \/ SaveFails(q)
    BY <2>1, <2>8 DEF Next, Cycle, CycleStart, VisitNetwork, VisitDevice, Evaluate, Saved, Push,
                      NextSubject, CycleFails, Restart, WatchedChanges
  <2>3. PICK q \in eng.pending : Insert(q)
    BY <2>8, <2>9 DEF SaveAlert, SaveFails
  <2>4. q = k
    BY <2>1, <2>2, <2>3 DEF NewAlert, Insert, AlertsInv, DedupInv
  <2>. QED
    BY <1>1, <2>2, <2>3, <2>4 DEF AlertsInv, DedupInv, Past
<1>. QED
  BY <1>1, AlertsInvariant, PTL DEF Spec, OneAlertPerEvent

-----------------------------------------------------------------------------
(***************************************************************************)
(* What the persistence filter remembers, and that an active event has its *)
(* alert.  SeenInv is inductive relative to AlertsInv.                     *)
(***************************************************************************)
\* The z-score kept with a baseline is that of the last observation; what is about
\* to be saved was high at the last two; an event has its alert until a fault.
SeenInv ==
  /\ \A k \in Keys : baselines[k].prevHigh = history[k].high
  /\ \A k \in eng.pending : history[k].twice
  /\ EventsAreAlerted

\* One more reading of a metric: the memory of the baseline is that of the history,
\* and an event that is not cleared has been high all the time.
LEMMA OneReading ==
  ASSUME NEW b \in Baseline, NEW h \in Past, NEW z, b.prevHigh = h.high
  PROVE  /\ Update(b, z).prevHigh = Remember(h, b, z).high
         /\ Persistent(b, z) => Remember(h, b, z).twice
         /\ ~Cleared(b, z) /\ ~h.below => ~Remember(h, b, z).below
<1>. DEFINE high == z = "high" /\ b.samples > 0
<1>1. CASE z = "absent"
  BY <1>1 DEF Update, Remember, Persistent
<1>2. CASE z # "absent"
  <2>1. Update(b, z).prevHigh = high
    BY <1>2 DEF Update
  <2>2. /\ Remember(h, b, z).high = high
        /\ Remember(h, b, z).twice = (high /\ h.high)
        /\ Remember(h, b, z).below = (h.below \/ ~high)
    BY <1>2 DEF Remember, Past
  <2>3. Persistent(b, z) => high /\ h.high
    BY DEF Persistent, Warm
  <2>4. ~Cleared(b, z) => high
    BY <1>2, <2>3 DEF Cleared
  <2>. QED
    BY <2>1, <2>2, <2>3, <2>4
<1>. QED
  BY <1>1, <1>2

\* An engine that has just started remembers nothing.
LEMMA NothingSeen == Fresh.prevHigh = FALSE /\ NoPast.high = FALSE
BY DEF Fresh, NoPast

\* Nothing is pending when the server starts.
LEMMA InitSeenInv == Init => SeenInv
<1>. SUFFICES ASSUME Init PROVE SeenInv
  OBVIOUS
<1>1. eng.pending = {} /\ active = {}
  BY DEF Init, Idle, Engine
<1>2. \A k \in Keys : baselines[k] = Fresh /\ history[k] = NoPast
  BY DEF Init
<1>. QED
  BY <1>1, <1>2, NothingSeen DEF SeenInv, EventsAreAlerted

\* Scoring a subject.
LEMMA EvaluateSeen ==
  ASSUME AlertsInv, SeenInv, NEW s \in Subjects, NEW reading, Evaluate(s, reading)
  PROVE  SeenInv'
<1>. DEFINE Alarms == {k \in KeysOf(s) : Persistent(baselines[k], reading[k])}
            Clears == {k \in KeysOf(s) : Cleared(baselines[k], reading[k])}
<1>1. /\ baselines' = [k \in Keys |->
           IF k \in KeysOf(s) THEN Update(baselines[k], reading[k]) ELSE baselines[k]]
      /\ active' = active \ Clears
      /\ history' = [k \in Keys |->
           IF k \in KeysOf(s) THEN Remember(history[k], baselines[k], reading[k])
           ELSE history[k]]
      /\ eng'.pending = Alarms \ active /\ faults' = faults
  BY DEF Evaluate, Engine
<1>2. \A k \in Keys : baselines[k] \in Baseline /\ history[k] \in Past
  BY DEF AlertsInv, TypeOK
<1>3. active \subseteq Keys /\ KeysOf(s) \subseteq Keys
  BY DEF AlertsInv, TypeOK, KeysOf
<1>4. \A k \in Keys : baselines'[k].prevHigh = history'[k].high
  BY <1>1, <1>2, OneReading DEF SeenInv
<1>5. \A k \in eng'.pending : history'[k].twice
  BY <1>1, <1>2, <1>3, OneReading DEF SeenInv
<1>6. EventsAreAlerted'
  <2>1. SUFFICES ASSUME faults = 0, NEW k \in active \ Clears
                 PROVE  ~history'[k].below
    BY <1>1 DEF EventsAreAlerted
  <2>2. k \in Keys /\ ~history[k].below
    BY <1>3, <2>1 DEF SeenInv, EventsAreAlerted
  <2>. QED
    BY <1>1, <1>2, <2>2, OneReading DEF SeenInv
<1>. QED
  BY <1>4, <1>5, <1>6 DEF SeenInv

\* Saving an alert, also when it fails.
LEMMA SaveSeen ==
  ASSUME AlertsInv, SeenInv, NEW k \in Keys, SaveAlert(k) \/ SaveFails(k)
  PROVE  SeenInv'
<1>1. /\ history \in [Keys -> Past] /\ eng \in EngineState /\ faults \in Nat
      /\ active \subseteq Keys
  BY BoundsAssumption DEF AlertsInv, TypeOK
<1>2. /\ eng'.pending = eng.pending \ {k} /\ UNCHANGED baselines /\ active' = active \cup {k}
      /\ eng.pending \subseteq Keys
  BY <1>1 DEF SaveAlert, SaveFails, EngineState
<1>3. /\ UNCHANGED history \/ Insert(k)
      /\ SaveAlert(k) => Insert(k) /\ faults' = faults
      /\ SaveFails(k) => faults' # 0
  BY <1>1 DEF SaveAlert, SaveFails
<1>4. Insert(k) => ~history'[k].below
  BY <1>1 DEF Insert, Past
<1>5. \A q \in Keys : /\ history'[q].high = history[q].high
                      /\ history'[q].twice = history[q].twice
                      /\ q # k => history'[q].below = history[q].below
  BY <1>1, <1>3 DEF Insert, Past
<1>6. EventsAreAlerted'
  BY <1>1, <1>2, <1>3, <1>4, <1>5 DEF SeenInv, EventsAreAlerted
<1>. QED
  BY <1>2, <1>5, <1>6 DEF SeenInv

\* Every step keeps it.
LEMMA NextSeenInv == AlertsInv /\ SeenInv /\ [Next]_vars => SeenInv'
<1>. SUFFICES ASSUME AlertsInv, SeenInv, [Next]_vars PROVE SeenInv'
  OBVIOUS
<1>1. /\ history \in [Keys -> Past] /\ eng \in EngineState /\ faults \in Nat
      /\ active \subseteq Keys
  BY BoundsAssumption DEF AlertsInv, TypeOK
<1>2. CASE CycleStart
  <2>1. \A k \in Keys : /\ history'[k].high = history[k].high
                        /\ history'[k].twice = history[k].twice
                        /\ history'[k].below = history[k].below
    BY <1>1, <1>2 DEF CycleStart, Past
  <2>2. eng'.pending = {} /\ UNCHANGED <<baselines, active, faults>>
    BY <1>2 DEF CycleStart, Engine
  <2>. QED
    BY <1>1, <2>1, <2>2 DEF SeenInv, EventsAreAlerted
<1>3. CASE VisitNetwork \/ \E d \in Devices : VisitDevice(d)
  BY <1>3, EvaluateSeen DEF VisitNetwork, VisitDevice, Subjects
<1>4. CASE \E k \in Keys : SaveAlert(k) \/ SaveFails(k)
  BY <1>4, SaveSeen
<1>5. CASE Saved \/ Push \/ NextSubject
  <2>1. /\ eng'.pending = eng.pending \/ eng'.pending = {}
        /\ UNCHANGED <<baselines, active, faults, history>>
    BY <1>1, <1>5 DEF Saved, Push, NextSubject, Idle, Engine, EngineState
  <2>. QED
    BY <2>1 DEF SeenInv, EventsAreAlerted
<1>6. CASE CycleFails \/ Restart
  <2>1. faults' # 0 /\ eng'.pending = {}
    BY <1>1, <1>6 DEF CycleFails, Restart, Idle, Engine
  <2>2. \A k \in Keys : baselines'[k].prevHigh = history'[k].high
    <3>1. CASE CycleFails
      BY <3>1 DEF CycleFails, SeenInv
    <3>2. CASE Restart
      <4>1. \A k \in Keys : baselines'[k] = Fresh /\ history'[k] = NoPast
        BY <3>2 DEF Restart
      <4>. QED
        BY <4>1, NothingSeen
    <3>. QED
      BY <1>6, <3>1, <3>2
  <2>. QED
    BY <2>1, <2>2 DEF SeenInv, EventsAreAlerted
<1>7. CASE (\E d \in Devices : WatchedChanges(d)) \/ UNCHANGED vars
  BY <1>7 DEF WatchedChanges, vars, SeenInv, EventsAreAlerted
<1>. QED
  BY <1>2, <1>3, <1>4, <1>5, <1>6, <1>7 DEF Next, Cycle

\* The baselines remember the last observation, and events their alert.
THEOREM SeenInvariant == Spec => []SeenInv
BY InitSeenInv, NextSeenInv, AlertsInvariant, PTL DEF Spec

\* As long as the database works and the server is not restarted, a metric the
\* engine treats as alerted has its row in "alert".
THEOREM EventsHaveAlerts == Spec => []EventsAreAlerted
BY SeenInvariant, PTL DEF SeenInv

\* The persistence filter: an alert is saved only if the last two observations of
\* the metric were high (DeviceDetector.evaluate reads the z-score of the
\* observation before, also one made during warm-up).
THEOREM FilterHolds == Spec => ObservedTwice
<1>1. ASSUME AlertsInv, SeenInv, [Next]_vars
      PROVE  [\A k \in Keys : NewAlert(k) => history[k].twice]_vars
  <2>1. SUFFICES ASSUME Next, NEW k \in Keys, NewAlert(k)
                 PROVE  history[k].twice
    BY <1>1
  <2>2. alerts \in Seq(Keys) /\ alerts' # alerts
    BY <1>1, <2>1 DEF AlertsInv, TypeOK, NewAlert
  <2>3. \E q \in Keys : SaveAlert(q) \/ SaveFails(q)
    BY <2>1, <2>2 DEF Next, Cycle, CycleStart, VisitNetwork, VisitDevice, Evaluate, Saved, Push,
                      NextSubject, CycleFails, Restart, WatchedChanges
  <2>4. PICK q \in eng.pending : Insert(q)
    BY <2>2, <2>3 DEF SaveAlert, SaveFails
  <2>5. q \in Keys
    BY <1>1 DEF AlertsInv, DedupInv
  <2>6. q = k
    BY <2>1, <2>2, <2>4, <2>5 DEF NewAlert, Insert
  <2>. QED
    BY <1>1, <2>4, <2>6 DEF SeenInv
<1>. QED
  BY <1>1, AlertsInvariant, SeenInvariant, PTL DEF Spec, ObservedTwice

=============================================================================
