--------------------------- MODULE AlertDelivery ---------------------------
(***************************************************************************)
(* The real-time channel to the apps (api/websocket.py): the detection     *)
(* engine puts each alert into alert_queue; an asyncio task, the broadcast *)
(* loop, wakes every 5 s, takes the alerts out and sends each, and then    *)
(* the state of the network, to every connected client.                    *)
(*                                                                         *)
(* The queue is a variable of the module, so each process has its own: the *)
(* engine runs in the process of run.py, the loop in that of the API.      *)
(* Other tasks of the event loop run only while the broadcast loop awaits. *)
(*                                                                         *)
(* A session of the database that fails sends the loop back to sleep,      *)
(* which changes nothing and is left out; so is the shutdown.              *)
(***************************************************************************)
EXTENDS Naturals, Sequences, FiniteSets

CONSTANTS
  Sockets,    \* connections, each used once
  MaxAlerts,  \* bound on saved alerts
  OneProcess  \* the engine and the API share a process

ASSUME DeliveryAssumption ==
  IsFiniteSet(Sockets) /\ MaxAlerts \in Nat /\ OneProcess \in BOOLEAN

VARIABLES
  saved,   \* number of rows of "alert": their ids are 1..saved
  unseen,  \* how many are not marked as seen
  put,     \* those given to push_alert, in order
  queue,   \* alert_queue of each process
  sockets, \* of the clients
  active,  \* active_connections
  loop,    \* broadcast_loop
  got,     \* alert_created messages each client received
  shown,   \* unseen_alerts of the last state_update
  upset    \* alerts during whose broadcast the set of clients changed

vars == <<saved, unseen, put, queue, sockets, active, loop, got, shown, upset>>
database == <<saved, unseen>>
clients == <<got, shown>>

Processes == {"engine", "api"}
Api == IF OneProcess THEN "engine" ELSE "api"
Alerts == 1..MaxAlerts
State == 0 \* the message that is no alert
Elements(s) == {s[k] : k \in DOMAIN s}

\* size: of the set when its iteration began; todo: the clients the iteration has
\* still to come to; unseen: as it was read before the alerts are taken.
LoopState == [pc : {"sleep", "drain", "begin", "await"}, msg : 0..MaxAlerts, size : Nat,
              todo : SUBSET Sockets, dead : SUBSET Sockets, unseen : Nat]
Sleeping == [pc |-> "sleep", msg |-> State, size |-> 0, todo |-> {}, dead |-> {}, unseen |-> 0]

TypeOK ==
  /\ saved \in 0..MaxAlerts /\ unseen \in 0..saved /\ put \in Seq(1..saved)
  /\ queue \in [Processes -> Seq(1..saved)]
  /\ sockets \in [Sockets -> {"new", "open", "left"}] /\ active \subseteq Sockets
  /\ loop \in LoopState
  /\ got \in [Sockets -> Seq(Alerts)] /\ shown \in [Sockets -> Nat]
  /\ upset \subseteq Alerts

Init ==
  /\ saved = 0 /\ unseen = 0 /\ put = <<>> /\ queue = [p \in Processes |-> <<>>]
  /\ sockets = [s \in Sockets |-> "new"] /\ active = {}
  /\ loop = Sleeping
  /\ got = [s \in Sockets |-> <<>>] /\ shown = [s \in Sockets |-> 0] /\ upset = {}

-----------------------------------------------------------------------------
\* The engine; AnomalyAlerts has how it comes to save and push, or not to push, an alert.
Save ==
  /\ saved < MaxAlerts /\ saved' = saved + 1 /\ unseen' = unseen + 1
  /\ UNCHANGED <<put, queue, sockets, active, loop, clients, upset>>

\* push_alert of run.py
Put(i) ==
  /\ i \in 1..saved /\ \A k \in DOMAIN put : put[k] < i
  /\ put' = Append(put, i)
  /\ queue' = [queue EXCEPT !["engine"] = Append(queue["engine"], i)]
  /\ UNCHANGED <<database, sockets, active, loop, clients, upset>>

\* mark_alert_seen, of an alert that is not.
MarkSeen ==
  /\ unseen > 0 /\ unseen' = unseen - 1
  /\ UNCHANGED <<saved, put, queue, sockets, active, loop, clients, upset>>

-----------------------------------------------------------------------------
Suspended == loop.pc \in {"sleep", "await"}
Disturb == upset' = IF loop.pc = "await" /\ loop.msg # State THEN upset \cup {loop.msg} ELSE upset

\* manager.connect: adding to a set may lay it out anew, and its iteration then
\* comes to any of the clients.
Connect(s) ==
  /\ Suspended /\ sockets[s] = "new"
  /\ sockets' = [sockets EXCEPT ![s] = "open"]
  /\ active' = active \cup {s}
  /\ \E rest \in SUBSET (active \cup {s}) :
       loop' = [loop EXCEPT !.todo = IF loop.pc = "await" THEN rest ELSE {}]
  /\ Disturb
  /\ UNCHANGED <<database, put, queue, clients>>

\* The app goes away.
Leave(s) ==
  /\ sockets[s] = "open" /\ sockets' = [sockets EXCEPT ![s] = "left"]
  /\ UNCHANGED <<database, put, queue, active, loop, clients, upset>>

\* receive_text ends with WebSocketDisconnect.
Notice(s) ==
  /\ Suspended /\ sockets[s] = "left" /\ s \in active
  /\ active' = active \ {s}
  /\ loop' = [loop EXCEPT !.todo = loop.todo \ {s}]
  /\ Disturb
  /\ UNCHANGED <<database, put, queue, sockets, clients>>

-----------------------------------------------------------------------------
\* Mutation: only an alert is a reason to broadcast.
WakeForAlerts ==
  /\ loop.pc = "sleep" /\ active # {} /\ queue[Api] # <<>>
  /\ loop' = [loop EXCEPT !.pc = "drain", !.unseen = unseen]
  /\ UNCHANGED <<database, put, queue, sockets, active, clients, upset>>

\* Nobody connected: nothing is read and no alert is taken.
Wake ==
  /\ loop.pc = "sleep" /\ active # {}
  /\ loop' = [loop EXCEPT !.pc = "drain", !.unseen = unseen]
  /\ UNCHANGED <<database, put, queue, sockets, active, clients, upset>>

\* broadcast: the iteration over the set begins.
Begin(msg) ==
  loop' = [loop EXCEPT !.pc = "begin", !.msg = msg, !.size = Cardinality(active),
                       !.todo = active, !.dead = {}]

\* Mutation: the newest alert first.
TakeNewest ==
  /\ loop.pc = "drain" /\ queue[Api] # <<>>
  /\ queue' = [queue EXCEPT ![Api] = SubSeq(queue[Api], 1, Len(queue[Api]) - 1)]
  /\ Begin(queue[Api][Len(queue[Api])])
  /\ UNCHANGED <<database, put, sockets, active, clients, upset>>

\* Mutation: the alert stays in the queue.
TakeAlertKept ==
  /\ loop.pc = "drain" /\ queue[Api] # <<>>
  /\ Begin(Head(queue[Api]))
  /\ UNCHANGED <<database, put, queue, sockets, active, clients, upset>>

TakeAlert ==
  /\ loop.pc = "drain" /\ queue[Api] # <<>>
  /\ queue' = [queue EXCEPT ![Api] = Tail(queue[Api])]
  /\ Begin(Head(queue[Api]))
  /\ UNCHANGED <<database, put, sockets, active, clients, upset>>

TakeState ==
  /\ loop.pc = "drain" /\ queue[Api] = <<>>
  /\ Begin(State)
  /\ UNCHANGED <<database, put, queue, sockets, active, clients, upset>>

Iterating == loop.pc \in {"begin", "await"} /\ Cardinality(active) = loop.size

Receive(s) ==
  IF loop.msg = State
  THEN shown' = [shown EXCEPT ![s] = loop.unseen] /\ UNCHANGED got
  ELSE got' = [got EXCEPT ![s] = Append(got[s], loop.msg)] /\ UNCHANGED shown

SendTo(s) ==
  /\ Iterating /\ s \in loop.todo /\ sockets[s] = "open"
  /\ Receive(s)
  /\ loop' = [loop EXCEPT !.pc = "await", !.todo = loop.todo \ {s}]
  /\ UNCHANGED <<database, put, queue, sockets, active, upset>>

\* Mutation: the exception of a send ends the broadcast.
SendFailsForAll(s) ==
  /\ Iterating /\ s \in loop.todo /\ sockets[s] = "left"
  /\ loop' = [loop EXCEPT !.pc = "await", !.todo = {}, !.dead = loop.dead \cup {s}]
  /\ UNCHANGED <<database, put, queue, sockets, active, clients, upset>>

\* The send to a client that is gone raises an exception, or goes unnoticed.
SendFails(s) ==
  /\ Iterating /\ s \in loop.todo /\ sockets[s] = "left"
  /\ \E dead \in {loop.dead, loop.dead \cup {s}} :
       loop' = [loop EXCEPT !.pc = "await", !.todo = loop.todo \ {s}, !.dead = dead]
  /\ UNCHANGED <<database, put, queue, sockets, active, clients, upset>>

Sent ==
  /\ Iterating /\ loop.todo = {}
  /\ active' = active \ loop.dead
  /\ loop' = IF loop.msg = State THEN Sleeping
             ELSE [loop EXCEPT !.pc = "drain", !.msg = State, !.size = 0, !.dead = {}]
  /\ UNCHANGED <<database, put, queue, sockets, clients, upset>>

\* RuntimeError, the set changed its size: an alert is given up and the state is
\* broadcast next; the state is given up until the next time.
Upset ==
  /\ loop.pc = "await" /\ Cardinality(active) # loop.size
  /\ IF loop.msg = State THEN loop' = Sleeping ELSE Begin(State)
  /\ UNCHANGED <<database, put, queue, sockets, active, clients, upset>>

Loop == Wake \/ TakeAlert \/ TakeState \/ (\E s \in Sockets : SendTo(s) \/ SendFails(s)) \/ Sent \/ Upset

Next ==
  \/ Save
  \/ \E i \in Alerts : Put(i)
  \/ MarkSeen
  \/ \E s \in Sockets : Connect(s) \/ Leave(s) \/ Notice(s)
  \/ Loop

Spec == Init /\ [][Next]_vars
\* The task runs as long as the server does; a client that takes no data is closed by
\* the ping timeout of the server, which ends the wait for it.
FairSpec == Spec /\ WF_vars(Loop)

-----------------------------------------------------------------------------
(***************************************************************************)
(* Properties.                                                             *)
(***************************************************************************)
\* A client receives alerts in the order in which they were saved.
Feed == INSTANCE AlertFeed WITH Receivers <- Sockets
ImplementsFeed == Feed!Spec

\* No alert reaches a client twice, unless the set of clients changed while it was sent.
ReceivedOnce ==
  \A s \in Sockets : \A j, k \in DOMAIN got[s] :
    got[s][j] = got[s][k] /\ got[s][j] \notin upset => j = k

\* An alert that waits in the queue of the engine reaches every client that is connected,
\* unless the client leaves or the set of clients changes while it is sent.
AlertReachesClients ==
  \A i \in Alerts, s \in Sockets :
    (i \in Elements(queue["engine"]) /\ s \in active)
      ~> (i \in Elements(got[s]) \/ sockets[s] = "left" \/ i \in upset)

\* A client that stays connected shows the number of unseen alerts in the end, although
\* the number is read before the alerts that are sent ahead of it.
CountConverges ==
  \A s \in Sockets :
    <>[](s \in active /\ sockets[s] = "open") => <>[](shown[s] = unseen)

=============================================================================
