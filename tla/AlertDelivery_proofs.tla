------------------------ MODULE AlertDelivery_proofs ------------------------
(***************************************************************************)
(* Proofs about AlertDelivery: for any clients and alerts, in one process  *)
(* or two, clients receive alerts in the order they were saved, and none   *)
(* twice unless the set of clients changed while it was sent.              *)
(***************************************************************************)
EXTENDS AlertDelivery, FiniteSetTheorems, SequenceTheorems, TLAPS

\* What waits was handed over, in order; what is being sent comes before it, and
\* what was received before both.
OrderInv ==
  /\ \A p \in Processes : \A k \in DOMAIN queue[p] :
       queue[p][k] \in Elements(put) /\ \A j \in DOMAIN queue[p] : j < k => queue[p][j] < queue[p][k]
  /\ loop.msg # State =>
       loop.msg \in Elements(put) /\ \A k \in DOMAIN queue[Api] : loop.msg < queue[Api][k]
  /\ \A s \in Sockets : \A n \in DOMAIN got[s] :
       /\ got[s][n] \in Elements(put)
       /\ \A k \in DOMAIN queue[Api] : got[s][n] < queue[Api][k]
       /\ loop.msg # State => got[s][n] <= loop.msg

\* The clients to whom the alert is still to be sent do not have it yet.
PendingInv ==
  loop.msg # State /\ loop.msg \notin upset =>
    \A s \in loop.todo : \A n \in DOMAIN got[s] : got[s][n] # loop.msg

DeliveryInv == TypeOK /\ OrderInv /\ PendingInv /\ ReceivedOnce

LEMMA InitDeliveryInv == Init => DeliveryInv
<1>. SUFFICES ASSUME Init PROVE DeliveryInv
  OBVIOUS
<1>1. loop \in LoopState
  BY DeliveryAssumption DEF Init, Sleeping, LoopState, State
<1>2. TypeOK
  BY <1>1, DeliveryAssumption DEF Init, TypeOK
<1>3. OrderInv /\ PendingInv /\ ReceivedOnce
  BY DEF Init, OrderInv, PendingInv, ReceivedOnce, Sleeping
<1>. QED
  BY <1>2, <1>3 DEF DeliveryInv

-----------------------------------------------------------------------------
\* Types.

\* The clients are finitely many, so the size of a set of them is a number.
LEMMA SizeType == \A set \in SUBSET Sockets : Cardinality(set) \in Nat
BY DeliveryAssumption, FS_Subset, FS_CardinalityType

\* A step of the broadcast loop keeps the loop well formed.
LEMMA LoopTypes ==
  ASSUME TypeOK, NEW pc \in {"sleep", "drain", "begin", "await"}, NEW msg \in 0..MaxAlerts,
         NEW todo \in SUBSET Sockets, NEW dead \in SUBSET Sockets
  PROVE  /\ [loop EXCEPT !.pc = pc, !.unseen = unseen] \in LoopState
         /\ [loop EXCEPT !.pc = pc, !.todo = todo] \in LoopState
         /\ [loop EXCEPT !.pc = pc, !.todo = todo, !.dead = dead] \in LoopState
         /\ [loop EXCEPT !.pc = pc, !.msg = msg, !.size = 0, !.dead = {}] \in LoopState
         /\ [loop EXCEPT !.pc = pc, !.msg = msg, !.size = Cardinality(active), !.todo = active,
                         !.dead = {}] \in LoopState
<1>1. loop \in LoopState /\ unseen \in Nat /\ active \in SUBSET Sockets
  BY DEF TypeOK
<1>2. Cardinality(active) \in Nat
  BY <1>1, SizeType
<1>. QED
  BY <1>1, <1>2 DEF LoopState

\* So does a change of the clients that are still to come.
LEMMA TodoTypes ==
  ASSUME TypeOK, NEW todo \in SUBSET Sockets
  PROVE  [loop EXCEPT !.todo = todo] \in LoopState
BY DEF TypeOK, LoopState

\* Queues that hold saved alerts still do when more are saved.
LEMMA QueueTypes ==
  ASSUME TypeOK, NEW n \in Nat, saved <= n
  PROVE  queue \in [Processes -> Seq(1..n)]
<1>1. 1..saved \subseteq 1..n
  BY DEF TypeOK
<1>2. ASSUME NEW p \in Processes
      PROVE  queue[p] \in Seq(1..n)
  BY <1>1, SeqMonotonic DEF TypeOK
<1>. QED
  BY <1>2 DEF TypeOK

\* The engine and the clients.
LEMMA OutsideTypes ==
  ASSUME TypeOK, Save \/ MarkSeen \/ \E s \in Sockets : Connect(s) \/ Leave(s) \/ Notice(s)
  PROVE  TypeOK'
<1>1. CASE Save
  <2>1. saved' \in 0..MaxAlerts /\ saved' = saved + 1 /\ unseen' \in 0..saved'
        /\ saved \in Nat /\ 1..saved \subseteq 1..saved' /\ UNCHANGED put
        /\ put \in Seq(1..saved)
    BY <1>1, DeliveryAssumption DEF Save, TypeOK
  <2>2. queue' \in [Processes -> Seq(1..saved')] /\ put' \in Seq(1..saved')
    BY <1>1, <2>1, QueueTypes, SeqMonotonic DEF Save
  <2>. QED
    BY <1>1, <2>1, <2>2 DEF Save, clients, TypeOK
<1>2. CASE MarkSeen
  BY <1>2, DeliveryAssumption DEF MarkSeen, clients, TypeOK
<1>3. ASSUME NEW s \in Sockets, Connect(s) \/ Leave(s) \/ Notice(s)
      PROVE  TypeOK'
  <2>1. sockets' \in [Sockets -> {"new", "open", "left"}]
    BY <1>3 DEF Connect, Leave, Notice, TypeOK
  <2>2. active' \subseteq Sockets
    BY <1>3 DEF Connect, Leave, Notice, TypeOK
  <2>3. loop' \in LoopState
    <3>1. CASE Connect(s)
      <4>1. PICK rest \in SUBSET (active \cup {s}) :
              loop' = [loop EXCEPT !.todo = IF loop.pc = "await" THEN rest ELSE {}]
        BY <3>1 DEF Connect
      <4>2. (IF loop.pc = "await" THEN rest ELSE {}) \in SUBSET Sockets
        BY DEF TypeOK
      <4>. QED
        BY <4>1, <4>2, TodoTypes
    <3>2. CASE Notice(s)
      <4>1. loop.todo \ {s} \in SUBSET Sockets /\ loop' = [loop EXCEPT !.todo = loop.todo \ {s}]
        BY <3>2 DEF Notice, TypeOK, LoopState
      <4>. QED
        BY <4>1, TodoTypes
    <3>3. CASE Leave(s)
      BY <3>3 DEF Leave, TypeOK
    <3>. QED
      BY <1>3, <3>1, <3>2, <3>3
  <2>4. upset' \subseteq Alerts
    BY <1>3, DeliveryAssumption DEF Connect, Leave, Notice, Disturb, State, Alerts, TypeOK, LoopState
  <2>5. UNCHANGED <<saved, unseen, put, queue, got, shown>>
    BY <1>3 DEF Connect, Leave, Notice, database, clients
  <2>. QED
    BY <2>1, <2>2, <2>3, <2>4, <2>5 DEF TypeOK
<1>. QED
  BY <1>1, <1>2, <1>3

\* The broadcast loop.
LEMMA LoopStepTypes ==
  ASSUME TypeOK, Loop
  PROVE  TypeOK'
<1>1. UNCHANGED <<saved, unseen, put, sockets, upset>>
  BY DEF Loop, Wake, TakeAlert, TakeState, SendTo, SendFails, Sent, Upset, database
<1>2. active' \subseteq Sockets
  BY DEF Loop, Wake, TakeAlert, TakeState, SendTo, SendFails, Sent, Upset, TypeOK
<1>3. queue' \in [Processes -> Seq(1..saved)]
  <2>1. CASE TakeAlert
    <3>1. Api \in Processes /\ queue[Api] # <<>> /\ queue' = [queue EXCEPT ![Api] = Tail(queue[Api])]
      BY <2>1 DEF TakeAlert, Api, Processes
    <3>2. queue[Api] \in Seq(1..saved)
      BY <3>1 DEF TypeOK
    <3>3. Tail(queue[Api]) \in Seq(1..saved)
      BY <3>1, <3>2, HeadTailProperties
    <3>. QED
      BY <3>1, <3>3 DEF TypeOK
  <2>2. CASE ~TakeAlert
    BY <2>2 DEF Loop, Wake, TakeState, SendTo, SendFails, Sent, Upset, TypeOK
  <2>. QED
    BY <2>1, <2>2
<1>4. loop' \in LoopState
  <2>0. State \in 0..MaxAlerts /\ {} \in SUBSET Sockets /\ loop \in LoopState
    BY DeliveryAssumption DEF State, TypeOK
  <2>1. CASE Wake
    BY <2>0, <2>1, LoopTypes DEF Wake
  <2>2. CASE TakeAlert
    <3>1. Api \in Processes /\ queue[Api] # <<>> /\ queue[Api] \in Seq(1..saved)
      BY <2>2 DEF TakeAlert, Api, Processes, TypeOK
    <3>2. Head(queue[Api]) \in 1..saved
      BY <3>1, HeadTailProperties
    <3>3. Head(queue[Api]) \in 0..MaxAlerts
      BY <3>2, DeliveryAssumption DEF TypeOK
    <3>. QED
      BY <2>0, <2>2, <3>3, LoopTypes DEF TakeAlert, Begin
  <2>3. CASE TakeState
    BY <2>0, <2>3, LoopTypes DEF TakeState, Begin
  <2>4. ASSUME NEW s \in Sockets, SendTo(s) \/ SendFails(s)
        PROVE  loop' \in LoopState
    <3>1. loop.todo \ {s} \in SUBSET Sockets /\ loop.dead \cup {s} \in SUBSET Sockets
          /\ loop.dead \in SUBSET Sockets
      BY <2>0 DEF LoopState
    <3>2. CASE SendTo(s)
      BY <2>0, <3>1, <3>2, LoopTypes DEF SendTo
    <3>3. CASE SendFails(s)
      <4>1. PICK dead \in {loop.dead, loop.dead \cup {s}} :
              loop' = [loop EXCEPT !.pc = "await", !.todo = loop.todo \ {s}, !.dead = dead]
        BY <3>3 DEF SendFails
      <4>2. dead \in SUBSET Sockets
        BY <3>1
      <4>. QED
        BY <2>0, <3>1, <4>1, <4>2, LoopTypes
    <3>. QED
      BY <2>4, <3>2, <3>3
  <2>5. Sleeping \in LoopState
    BY DeliveryAssumption DEF Sleeping, LoopState, State
  <2>6. CASE Sent
    BY <2>0, <2>5, <2>6, LoopTypes DEF Sent
  <2>7. CASE Upset
    BY <2>0, <2>5, <2>7, LoopTypes DEF Upset, Begin
  <2>. QED
    BY <2>1, <2>2, <2>3, <2>4, <2>6, <2>7 DEF Loop
<1>5. got' \in [Sockets -> Seq(Alerts)] /\ shown' \in [Sockets -> Nat]
  <2>1. ASSUME NEW s \in Sockets, SendTo(s)
        PROVE  got' \in [Sockets -> Seq(Alerts)] /\ shown' \in [Sockets -> Nat]
    <3>1. got \in [Sockets -> Seq(Alerts)] /\ shown \in [Sockets -> Nat] /\ got[s] \in Seq(Alerts)
          /\ loop.unseen \in Nat /\ loop.msg \in 0..MaxAlerts
      BY DEF TypeOK, LoopState
    <3>2. CASE loop.msg = State
      BY <2>1, <3>1, <3>2 DEF SendTo, Receive
    <3>3. CASE loop.msg # State
      <4>1. loop.msg \in Alerts
        BY <3>1, <3>3, DeliveryAssumption DEF State, Alerts
      <4>2. Append(got[s], loop.msg) \in Seq(Alerts)
        BY <3>1, <4>1
      <4>. QED
        BY <2>1, <3>1, <3>3, <4>2 DEF SendTo, Receive
    <3>. QED
      BY <3>2, <3>3
  <2>2. CASE \A s \in Sockets : ~SendTo(s)
    BY <2>2 DEF Loop, Wake, TakeAlert, TakeState, SendFails, Sent, Upset, clients, TypeOK
  <2>. QED
    BY <2>1, <2>2
<1>. QED
  BY <1>1, <1>2, <1>3, <1>4, <1>5 DEF TypeOK

\* The engine hands an alert over.
LEMMA PutTypes ==
  ASSUME TypeOK, NEW i \in Alerts, Put(i)
  PROVE  TypeOK'
<1>1. "engine" \in Processes /\ i \in 1..saved
  BY DEF Processes, Put
<1>2. Append(queue["engine"], i) \in Seq(1..saved)
  BY <1>1, AppendProperties DEF TypeOK
<1>. QED
  BY <1>1, <1>2 DEF Put, database, clients, TypeOK

-----------------------------------------------------------------------------
\* Order.

\* Steps that hand over, take and deliver no alert.
LEMMA QuietStep ==
  ASSUME OrderInv, PendingInv, ReceivedOnce,
         UNCHANGED <<put, queue, got>>, upset \subseteq upset',
         loop'.msg = State \/ loop'.msg = loop.msg,
         loop'.msg # State => loop'.todo \subseteq loop.todo \/ loop.msg \in upset'
  PROVE  OrderInv' /\ PendingInv' /\ ReceivedOnce'
<1>1. OrderInv'
  BY DEF OrderInv
<1>2. PendingInv'
  BY DEF PendingInv
<1>3. ReceivedOnce'
  BY DEF ReceivedOnce
<1>. QED
  BY <1>1, <1>2, <1>3

LEMMA OutsideOrder ==
  ASSUME DeliveryInv, Save \/ MarkSeen \/ \E s \in Sockets : Connect(s) \/ Leave(s) \/ Notice(s)
  PROVE  OrderInv' /\ PendingInv' /\ ReceivedOnce'
<1>1. OrderInv /\ PendingInv /\ ReceivedOnce /\ TypeOK
  BY DEF DeliveryInv
<1>2. CASE Save \/ MarkSeen
  BY <1>1, <1>2, QuietStep DEF Save, MarkSeen, clients
<1>3. ASSUME NEW s \in Sockets, Leave(s)
      PROVE  OrderInv' /\ PendingInv' /\ ReceivedOnce'
  BY <1>1, <1>3, QuietStep DEF Leave, clients
<1>4. ASSUME NEW s \in Sockets, Connect(s)
      PROVE  OrderInv' /\ PendingInv' /\ ReceivedOnce'
  <2>1. UNCHANGED <<put, queue, got>> /\ upset \subseteq upset'
    BY <1>4 DEF Connect, Disturb, clients
  <2>2. loop'.msg = loop.msg
    BY <1>1, <1>4 DEF Connect, TypeOK, LoopState
  <2>3. CASE loop.pc = "await"
    <3>1. loop.msg # State => loop.msg \in upset'
      BY <1>4, <2>3 DEF Connect, Disturb
    <3>. QED
      BY <1>1, <2>1, <2>2, <3>1, QuietStep
  <2>4. CASE loop.pc # "await"
    <3>1. loop'.todo = {}
      BY <1>1, <1>4, <2>4 DEF Connect, TypeOK, LoopState
    <3>. QED
      BY <1>1, <2>1, <2>2, <3>1, QuietStep
  <2>. QED
    BY <2>3, <2>4
<1>5. ASSUME NEW s \in Sockets, Notice(s)
      PROVE  OrderInv' /\ PendingInv' /\ ReceivedOnce'
  <2>1. UNCHANGED <<put, queue, got>> /\ upset \subseteq upset'
    BY <1>5 DEF Notice, Disturb, clients
  <2>2. loop'.msg = loop.msg /\ loop'.todo \subseteq loop.todo
    BY <1>1, <1>5 DEF Notice, TypeOK, LoopState
  <2>. QED
    BY <1>1, <2>1, <2>2, QuietStep
<1>. QED
  BY <1>2, <1>3, <1>4, <1>5

\* What is appended to a sequence becomes one of its elements.
LEMMA AppendElements ==
  ASSUME NEW S, NEW s \in Seq(S), NEW e \in S
  PROVE  Elements(Append(s, e)) = Elements(s) \cup {e}
<1>1. /\ Len(s) \in Nat /\ DOMAIN s = 1..Len(s) /\ DOMAIN Append(s, e) = 1..(Len(s) + 1)
      /\ \A k \in DOMAIN s : Append(s, e)[k] = s[k]
      /\ Append(s, e)[Len(s) + 1] = e
  BY AppendProperties, LenProperties
<1>2. DOMAIN Append(s, e) = DOMAIN s \cup {Len(s) + 1}
  BY <1>1
<1>. QED
  BY <1>1, <1>2 DEF Elements

\* An alert that is put is newer than all others.
LEMMA PutOrder ==
  ASSUME DeliveryInv, NEW i \in Alerts, Put(i)
  PROVE  OrderInv' /\ PendingInv' /\ ReceivedOnce'
<1>0. put \in Seq(1..saved) /\ i \in 1..saved /\ put' = Append(put, i)
  BY DEF Put, DeliveryInv, TypeOK
<1>1. /\ Elements(put') = Elements(put) \cup {i} /\ \A j \in Elements(put) : j < i
      /\ queue' = [queue EXCEPT !["engine"] = Append(queue["engine"], i)]
      /\ UNCHANGED <<loop, got, upset>>
  <2>1. Elements(put') = Elements(put) \cup {i}
    <3>1. PICK q, S : q = put /\ q \in Seq(S) /\ i \in S
      BY <1>0
    <3>2. Elements(Append(q, i)) = Elements(q) \cup {i}
      BY <3>1, AppendElements
    <3>. QED
      BY <1>0, <3>1, <3>2 DEF Elements
  <2>. QED
    BY <2>1 DEF Put, clients, Elements
<1>2. "engine" \in Processes /\ Api \in Processes /\ queue \in [Processes -> Seq(1..saved)]
      /\ i \in 1..saved
  BY DEF DeliveryInv, TypeOK, Processes, Api, Put
<1>3. OrderInv
  BY DEF DeliveryInv
<1>4. ASSUME NEW p \in Processes, NEW k \in DOMAIN queue'[p]
      PROVE  (k \in DOMAIN queue[p] /\ queue'[p][k] = queue[p][k])
               \/ (queue'[p][k] = i /\ k \notin DOMAIN queue[p] /\
                   \A j \in DOMAIN queue'[p] : j < k => j \in DOMAIN queue[p])
  <2>1. CASE p = "engine"
    <3>1. queue[p] \in Seq(1..saved) /\ queue'[p] = Append(queue[p], i)
      BY <1>1, <1>2, <2>1
    <3>2. /\ Len(queue[p]) \in Nat /\ DOMAIN queue[p] = 1..Len(queue[p])
          /\ DOMAIN queue'[p] = 1..(Len(queue[p]) + 1)
      BY <1>2, <3>1, AppendProperties, LenProperties
    <3>3. CASE k = Len(queue[p]) + 1
      BY <1>2, <3>1, <3>2, <3>3, AppendProperties
    <3>4. CASE k # Len(queue[p]) + 1
      BY <1>2, <3>1, <3>2, <3>4, AppendProperties
    <3>. QED
      BY <3>3, <3>4
  <2>2. CASE p # "engine"
    BY <1>1, <1>2, <2>2
  <2>. QED
    BY <2>1, <2>2
<1>5. ASSUME NEW p \in Processes, NEW k \in DOMAIN queue'[p]
      PROVE  queue'[p][k] \in Elements(put') /\ (queue'[p][k] \in Elements(put) \/ queue'[p][k] = i)
  BY <1>1, <1>3, <1>4 DEF OrderInv
<1>6. ASSUME NEW p \in Processes, NEW k \in DOMAIN queue'[p], NEW j \in DOMAIN queue'[p], j < k
      PROVE  queue'[p][j] < queue'[p][k]
  <2>1. CASE k \in DOMAIN queue[p] /\ queue'[p][k] = queue[p][k]
    <3>1. j \in DOMAIN queue[p] /\ queue'[p][j] = queue[p][j]
      <4>1. queue[p] \in Seq(1..saved)
        BY <1>2
      <4>2. Len(queue[p]) \in Nat /\ DOMAIN queue[p] = 1..Len(queue[p])
        BY <4>1
      <4>3. j \in Nat /\ j >= 1
        <5>1. queue'[p] \in Seq(1..saved)
          BY <1>1, <1>2, AppendProperties
        <5>. QED
          BY <5>1, LenProperties
      <4>. QED
        BY <1>4, <1>6, <2>1, <4>2, <4>3
    <3>. QED
      BY <1>3, <1>6, <2>1, <3>1 DEF OrderInv
  <2>2. CASE ~(k \in DOMAIN queue[p] /\ queue'[p][k] = queue[p][k])
    <3>1. queue'[p][k] = i /\ j \in DOMAIN queue[p]
      BY <1>4, <1>6, <2>2
    <3>2. queue'[p][j] = queue[p][j]
      BY <1>4, <3>1
    <3>. QED
      BY <1>1, <1>3, <3>1, <3>2 DEF OrderInv
  <2>. QED
    BY <2>1, <2>2
<1>7. OrderInv'
  <2>1. ASSUME NEW a \in Elements(put), \A k \in DOMAIN queue[Api] : a < queue[Api][k]
        PROVE  \A k \in DOMAIN queue'[Api] : a < queue'[Api][k]
    BY <1>1, <1>2, <1>4, <2>1
  <2>. QED
    BY <1>1, <1>2, <1>3, <1>5, <1>6, <2>1 DEF OrderInv, Api
<1>8. PendingInv' /\ ReceivedOnce'
  BY <1>1 DEF DeliveryInv, PendingInv, ReceivedOnce
<1>. QED
  BY <1>7, <1>8

\* The alert taken is older than those that wait, and no client has it.
LEMMA TakeOrder ==
  ASSUME DeliveryInv, TakeAlert
  PROVE  OrderInv' /\ PendingInv' /\ ReceivedOnce'
<1>. DEFINE q == queue[Api]
            i == Head(q)
<1>1. /\ q # <<>> /\ queue' = [queue EXCEPT ![Api] = Tail(q)]
      /\ UNCHANGED <<put, got, upset>> /\ OrderInv
  BY DEF TakeAlert, clients, DeliveryInv
<1>2. loop'.msg = i /\ loop'.msg \in Nat /\ loop'.todo \subseteq Sockets
  <2>1. loop \in LoopState /\ Api \in Processes /\ q \in Seq(1..saved) /\ saved \in Nat
    BY DEF DeliveryInv, TypeOK, Processes, Api
  <2>2. i \in 1..saved
    BY <1>1, <2>1, HeadTailProperties
  <2>. HIDE DEF q, i
  <2>3. loop' = [loop EXCEPT !.pc = "begin", !.msg = i, !.size = Cardinality(active),
                             !.todo = active, !.dead = {}]
    BY DEF TakeAlert, Begin, q, i
  <2>4. active \subseteq Sockets
    BY DEF DeliveryInv, TypeOK
  <2>. QED
    BY <2>1, <2>2, <2>3, <2>4 DEF LoopState
<1>3. /\ Api \in Processes /\ q \in Seq(1..saved) /\ 1 \in DOMAIN q /\ i = q[1]
      /\ DOMAIN Tail(q) = 1..(Len(q) - 1)
      /\ \A k \in DOMAIN Tail(q) : Tail(q)[k] = q[k + 1] /\ k + 1 \in DOMAIN q /\ 1 < k + 1
  <2>1. Api \in Processes /\ q \in Seq(1..saved)
    BY DEF DeliveryInv, TypeOK, Processes, Api
  <2>2. Len(q) \in Nat \ {0} /\ DOMAIN q = 1..Len(q)
    BY <1>1, <2>1, EmptySeq, LenProperties
  <2>3. Tail(q) \in Seq(1..saved) /\ Len(Tail(q)) = Len(q) - 1
        /\ \A k \in 1..Len(Tail(q)) : Tail(q)[k] = q[k + 1]
    BY <1>1, <2>1, HeadTailProperties
  <2>4. DOMAIN Tail(q) = 1..(Len(q) - 1)
    BY <2>3, LenProperties
  <2>5. i = q[1]
    BY <2>1
  <2>. HIDE DEF q, i
  <2>. QED
    BY <2>1, <2>2, <2>3, <2>4, <2>5
<1>4. i \in Elements(put) /\ (\A k \in DOMAIN Tail(q) : i < Tail(q)[k])
      /\ \A s \in Sockets : \A n \in DOMAIN got[s] : got[s][n] < i
  BY <1>1, <1>3 DEF OrderInv
<1>5. queue' \in [Processes -> Seq(1..saved)] /\ queue'[Api] = Tail(q)
      /\ \A p \in Processes : p # Api => queue'[p] = queue[p]
  BY <1>1, <1>3, HeadTailProperties DEF DeliveryInv, TypeOK
<1>. HIDE DEF i
<1>6. \A s \in Sockets : \A n \in DOMAIN got[s] : got[s][n] \in Nat
  BY ElementOfSeq, LenProperties, DeliveryAssumption DEF DeliveryInv, TypeOK, Alerts
<1>7. OrderInv'
  <2>1. ASSUME NEW p \in Processes
        PROVE  \A k \in DOMAIN queue'[p] : queue'[p][k] \in Elements(put)
                 /\ \A j \in DOMAIN queue'[p] : j < k => queue'[p][j] < queue'[p][k]
    <3>1. CASE p # Api
      BY <1>1, <1>5, <3>1 DEF OrderInv
    <3>2. CASE p = Api
      <4>1. \A k \in DOMAIN q : q[k] \in Elements(put)
        BY <1>1, <1>3 DEF OrderInv
      <4>2. \A j, k \in DOMAIN q : j < k => q[j] < q[k]
        BY <1>1, <1>3 DEF OrderInv
      <4>. HIDE DEF q
      <4>3. \A k \in DOMAIN Tail(q) : Tail(q)[k] \in Elements(put)
        BY <1>3, <4>1
      <4>4. \A j, k \in DOMAIN Tail(q) : j < k => Tail(q)[j] < Tail(q)[k]
        <5>1. \A j, k \in DOMAIN Tail(q) : j < k => j + 1 < k + 1
          BY <1>3
        <5>. QED
          BY <1>3, <4>2, <5>1
      <4>. QED
        BY <1>5, <3>2, <4>3, <4>4
    <3>. QED
      BY <3>1, <3>2
  <2>2. \A s \in Sockets : \A n \in DOMAIN got[s] :
          got[s][n] \in Elements(put) /\ \A k \in DOMAIN Tail(q) : got[s][n] < Tail(q)[k]
    BY <1>1, <1>3 DEF OrderInv
  <2>3. \A s \in Sockets : \A n \in DOMAIN got[s] : got[s][n] <= i
    BY <1>2, <1>4, <1>6
  <2>. HIDE DEF q
  <2>4. Api' = Api
    BY DEF Api
  <2>. QED
    BY <1>1, <1>2, <1>4, <1>5, <2>1, <2>2, <2>3, <2>4 DEF OrderInv
<1>8. PendingInv'
  <2>1. \A s \in Sockets : \A n \in DOMAIN got[s] : got[s][n] # i
    BY <1>2, <1>4, <1>6
  <2>. QED
    BY <1>1, <1>2, <2>1 DEF PendingInv
<1>9. ReceivedOnce'
  BY <1>1 DEF DeliveryInv, ReceivedOnce
<1>. QED
  BY <1>7, <1>8, <1>9

\* A client receives the alert that is being sent, for the first time unless the
\* set of clients has changed.
LEMMA SendOrder ==
  ASSUME DeliveryInv, NEW s \in Sockets, SendTo(s), loop.msg # State
  PROVE  OrderInv' /\ PendingInv' /\ ReceivedOnce'
<1>. DEFINE i == loop.msg
<1>1. /\ got' = [got EXCEPT ![s] = Append(got[s], i)] /\ UNCHANGED <<put, queue, upset>>
      /\ loop' = [loop EXCEPT !.pc = "await", !.todo = loop.todo \ {s}] /\ s \in loop.todo
  BY DEF SendTo, Receive
<1>2. got \in [Sockets -> Seq(Alerts)] /\ i \in Alerts /\ loop \in LoopState
  BY DeliveryAssumption DEF DeliveryInv, TypeOK, LoopState, State, Alerts
<1>3. loop'.msg = i /\ loop'.todo = loop.todo \ {s}
  BY <1>1, <1>2 DEF LoopState
<1>4. OrderInv /\ PendingInv /\ ReceivedOnce
  BY DEF DeliveryInv
<1>5. i \in Elements(put) /\ \A k \in DOMAIN queue[Api] : i < queue[Api][k]
  BY <1>4 DEF OrderInv
<1>6. ASSUME NEW r \in Sockets, r # s
      PROVE  got'[r] = got[r]
  BY <1>1, <1>2, <1>6
<1>7. /\ Len(got[s]) \in Nat /\ DOMAIN got[s] = 1..Len(got[s])
      /\ DOMAIN got'[s] = 1..(Len(got[s]) + 1)
      /\ \A n \in DOMAIN got[s] : got'[s][n] = got[s][n]
      /\ got'[s][Len(got[s]) + 1] = i
  <2>1. got[s] \in Seq(Alerts) /\ got'[s] = Append(got[s], i)
    BY <1>1, <1>2
  <2>. QED
    BY <1>2, <2>1, LenProperties, AppendProperties
<1>. HIDE DEF i
<1>8. ASSUME NEW r \in Sockets, NEW n \in DOMAIN got'[r]
      PROVE  got'[r][n] = i \/ (n \in DOMAIN got[r] /\ got'[r][n] = got[r][n])
  <2>1. CASE r = s
    BY <1>7, <2>1
  <2>2. CASE r # s
    BY <1>6, <2>2
  <2>. QED
    BY <2>1, <2>2
<1>9. OrderInv'
  <2>1. \A r \in Sockets : \A n \in DOMAIN got'[r] :
          /\ got'[r][n] \in Elements(put)
          /\ \A k \in DOMAIN queue[Api] : got'[r][n] < queue[Api][k]
          /\ got'[r][n] <= i
    <3>1. i <= i
      BY <1>2 DEF Alerts
    <3>. QED
      BY <1>4, <1>5, <1>8, <3>1 DEF OrderInv, i
  <2>2. Api' = Api
    BY DEF Api
  <2>. QED
    BY <1>1, <1>3, <1>4, <1>5, <2>1, <2>2 DEF OrderInv
<1>10. PendingInv'
  <2>1. ASSUME i \notin upset, NEW r \in loop.todo \ {s}, NEW n \in DOMAIN got'[r]
        PROVE  got'[r][n] # i
    <3>1. r \in Sockets /\ r # s
      BY <1>2 DEF LoopState
    <3>. QED
      BY <1>4, <1>6, <2>1, <3>1 DEF PendingInv, i
  <2>. QED
    BY <1>1, <1>3, <2>1 DEF PendingInv
<1>11. ReceivedOnce'
  <2>1. ASSUME NEW r \in Sockets, NEW j \in DOMAIN got'[r], NEW k \in DOMAIN got'[r],
               got'[r][j] = got'[r][k], got'[r][j] \notin upset
        PROVE  j = k
    <3>1. CASE r # s
      BY <1>4, <1>6, <2>1, <3>1 DEF ReceivedOnce
    <3>2. CASE r = s /\ j \in DOMAIN got[s] /\ k \in DOMAIN got[s]
      BY <1>4, <1>7, <2>1, <3>2 DEF ReceivedOnce
    <3>3. CASE r = s /\ (j \notin DOMAIN got[s] \/ k \notin DOMAIN got[s])
      <4>1. \A n \in DOMAIN got'[s] : n \in DOMAIN got[s] \/ n = Len(got[s]) + 1
        BY <1>7
      <4>2. got'[s][j] = i
        BY <1>7, <2>1, <3>3, <4>1
      <4>3. \A n \in DOMAIN got[s] : got[s][n] # i
        BY <1>1, <1>4, <2>1, <3>3, <4>2 DEF PendingInv, i
      <4>. QED
        BY <1>7, <2>1, <3>3, <4>1, <4>2, <4>3
    <3>. QED
      BY <1>7, <3>1, <3>2, <3>3
  <2>. QED
    BY <1>1, <2>1 DEF ReceivedOnce
<1>. QED
  BY <1>9, <1>10, <1>11

LEMMA LoopOrder ==
  ASSUME DeliveryInv, Loop
  PROVE  OrderInv' /\ PendingInv' /\ ReceivedOnce'
<1>1. OrderInv /\ PendingInv /\ ReceivedOnce /\ loop \in LoopState
  BY DEF DeliveryInv, TypeOK
<1>2. CASE Wake
  <2>1. loop'.msg = loop.msg /\ loop'.todo = loop.todo
    BY <1>1, <1>2 DEF Wake, LoopState
  <2>. QED
    BY <1>1, <1>2, <2>1, QuietStep DEF Wake, clients
<1>3. CASE TakeState
  <2>1. loop'.msg = State
    BY <1>1, <1>3 DEF TakeState, Begin, LoopState
  <2>. QED
    BY <1>1, <1>3, <2>1, QuietStep DEF TakeState, clients
<1>4. ASSUME NEW s \in Sockets, SendFails(s)
      PROVE  OrderInv' /\ PendingInv' /\ ReceivedOnce'
  <2>1. loop'.msg = loop.msg /\ loop'.todo \subseteq loop.todo
    BY <1>1, <1>4 DEF SendFails, LoopState
  <2>. QED
    BY <1>1, <1>4, <2>1, QuietStep DEF SendFails, clients
<1>5. ASSUME NEW s \in Sockets, SendTo(s), loop.msg = State
      PROVE  OrderInv' /\ PendingInv' /\ ReceivedOnce'
  <2>1. loop'.msg = loop.msg /\ UNCHANGED <<got, put, queue, upset>>
    BY <1>1, <1>5 DEF SendTo, Receive, LoopState
  <2>. QED
    BY <1>1, <1>5, <2>1, QuietStep
<1>6. CASE Sent
  <2>1. loop'.msg = State
    BY <1>1, <1>6 DEF Sent, LoopState, Sleeping
  <2>. QED
    BY <1>1, <1>6, <2>1, QuietStep DEF Sent, clients
<1>7. CASE Upset
  <2>1. loop' = Sleeping \/ loop' = [loop EXCEPT !.pc = "begin", !.msg = State,
                      !.size = Cardinality(active), !.todo = active, !.dead = {}]
    BY <1>7 DEF Upset, Begin
  <2>2. loop'.msg = State
    <3>1. Sleeping.msg = State
      BY DEF Sleeping
    <3>2. [loop EXCEPT !.pc = "begin", !.msg = State, !.size = Cardinality(active),
                       !.todo = active, !.dead = {}].msg = State
      BY <1>1 DEF LoopState
    <3>. QED
      BY <2>1, <3>1, <3>2
  <2>. QED
    BY <1>1, <1>7, <2>2, QuietStep DEF Upset, clients
<1>. QED
  BY <1>2, <1>3, <1>4, <1>5, <1>6, <1>7, TakeOrder, SendOrder DEF Loop

-----------------------------------------------------------------------------
\* DeliveryInv is inductive: it holds in every reachable state.
THEOREM DeliveryInvariant == Spec => []DeliveryInv
<1>1. ASSUME DeliveryInv, [Next]_vars
      PROVE  DeliveryInv'
  <2>0. TypeOK
    BY <1>1 DEF DeliveryInv
  <2>1. CASE Save \/ MarkSeen \/ \E s \in Sockets : Connect(s) \/ Leave(s) \/ Notice(s)
    BY <1>1, <2>0, <2>1, OutsideTypes, OutsideOrder DEF DeliveryInv
  <2>2. CASE \E i \in Alerts : Put(i)
    BY <1>1, <2>0, <2>2, PutTypes, PutOrder DEF DeliveryInv
  <2>3. CASE Loop
    BY <1>1, <2>0, <2>3, LoopStepTypes, LoopOrder DEF DeliveryInv
  <2>4. CASE UNCHANGED vars
    <3>1. TypeOK'
      BY <2>0, <2>4 DEF vars, TypeOK
    <3>2. OrderInv' /\ PendingInv' /\ ReceivedOnce'
      BY <1>1, <2>4, QuietStep DEF vars, DeliveryInv
    <3>. QED
      BY <3>1, <3>2 DEF DeliveryInv
  <2>. QED
    BY <1>1, <2>1, <2>2, <2>3, <2>4 DEF Next
<1>. QED
  BY <1>1, InitDeliveryInv, PTL DEF Spec

\* Queues, clients and the state of the loop are well formed.
THEOREM TypeCorrect == Spec => []TypeOK
<1>1. DeliveryInv => TypeOK
  BY DEF DeliveryInv
<1>. QED
  BY <1>1, DeliveryInvariant, PTL

\* No alert reaches a client twice, unless the set of clients changed while it was
\* sent.
THEOREM AtMostOnce == Spec => []ReceivedOnce
<1>1. DeliveryInv => ReceivedOnce
  BY DEF DeliveryInv
<1>. QED
  BY <1>1, DeliveryInvariant, PTL

\* The channel implements the abstract feed: a client receives alerts that were handed
\* over, in the order in which they were saved.
THEOREM DeliveryImplementsFeed == Spec => ImplementsFeed
<1>. USE DEF Feed!vars
<1>1. Init => Feed!Init
  BY DEF Init, Feed!Init
<1>2. ASSUME DeliveryInv, [Next]_vars
      PROVE  [Feed!Next]_(Feed!vars)
  <2>1. CASE Save
    BY <2>1 DEF Save, clients, Feed!Next, Feed!Save
  <2>2. ASSUME NEW i \in Alerts, Put(i)
        PROVE  Feed!Next
    BY <2>2 DEF Put, database, clients, Feed!Next, Feed!Put
  <2>3. ASSUME NEW s \in Sockets, SendTo(s)
        PROVE  [Feed!Next]_(Feed!vars)
    <3>1. CASE loop.msg = State
      BY <2>3, <3>1 DEF SendTo, Receive, database
    <3>2. CASE loop.msg # State
      <4>0. loop.msg \in 1..saved
        <5>1. loop.msg \in Elements(put) /\ put \in Seq(1..saved)
          BY <1>2, <3>2 DEF DeliveryInv, OrderInv, TypeOK
        <5>. QED
          BY <5>1, ElementOfSeq, LenProperties DEF Elements
      <4>1. loop.msg \in Elements(put) /\ \A k \in DOMAIN got[s] : got[s][k] <= loop.msg
        BY <1>2, <3>2 DEF DeliveryInv, OrderInv
      <4>2. got' = [got EXCEPT ![s] = Append(got[s], loop.msg)] /\ UNCHANGED <<saved, put>>
        BY <2>3, <3>2 DEF SendTo, Receive, database
      <4>. QED
        BY <4>0, <4>1, <4>2 DEF Feed!Next, Feed!Receive, Elements
    <3>. QED
      BY <3>1, <3>2
  <2>4. CASE ~Save /\ (\A i \in Alerts : ~Put(i)) /\ \A s \in Sockets : ~SendTo(s)
    BY <1>2, <2>4 DEF Next, MarkSeen, Connect, Leave, Notice, Loop, Wake, TakeAlert, TakeState,
                      SendFails, Sent, Upset, database, clients, vars
  <2>. QED
    BY <2>1, <2>2, <2>3, <2>4
<1>. QED
  BY <1>1, <1>2, DeliveryInvariant, PTL DEF Spec, ImplementsFeed, Feed!Spec

=============================================================================
