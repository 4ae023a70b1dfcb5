# GOATGuard in TLA+

GOATGuard watches a local network: capture agents on the endpoints send packets
and metrics to a server, the server analyses them, stores the results in
PostgreSQL, raises alerts, and a Flutter app shows them.  This directory holds
TLA+ specifications of the program's concurrent core, the TLC runs that check
them and TLAPS proofs about them.

## 1. The system

Two server processes share one PostgreSQL database; there is no other channel
between them.

* `goatguard-server/run.py` (the pipeline): one thread per capture client, a
  PCAP assembler, one thread per rotated PCAP file, a UDP thread, and periodic
  threads: health checker (30 s), ISP probe (30 s), ARP scanner (60 s), detection
  engine (30 s).
* `goatguard-server/run_api.py` (the API): FastAPI REST routes, each request in a
  thread of its own, a WebSocket endpoint and a broadcast loop (5 s).

| component | state it keeps | operations | interacts with | module |
|---|---|---|---|---|
| device registry: `receivers/udp_receiver.py`, `monitoring/health_checker.py`, `discovery/arp_scanner.py`, `database/repository.py` | tables `device`, `agent`, `device_current_metrics` | heartbeat, metrics, enrolment, health check, ARP discovery and sweep | agents (UDP), ARP answers, detection engine and API (read the tables) | `DeviceRegistry` |
| detection: `detection/*` | EWMA baselines per device and metric, active events | a cycle every 30 s | reads current metrics, writes `alert`, calls `push_alert` | `AnomalyAlerts` |
| alert delivery: `api/websocket.py`, `api/routes/alerts.py` | `alert_queue` (one per process), the set of WebSockets | enqueue, broadcast, connect, disconnect, mark as seen | detection engine, app | `AlertDelivery` |
| push notifications: `api/fcm_notifier.py`, `api/routes/notifications.py`, `lib/providers/auth_provider.dart`, `lib/services/fcm_service.dart` | table `push_token`, the app's token and session | register, unregister, multicast, token clean-up | FCM, app | `PushTokens` |
| capture: `receivers/tcp_receiver.py`, `ingestion/pcap_assembler.py` | the open PCAP file, rotated files | write a packet, rotate, hand over | agents (TCP), analysis | `PcapRotation` |
| analysis and current metrics: `analysis/pipeline.py`, `analysis/zeek_runner.py`, `monitoring/isp_probe.py`, upserts of `repository.py` | `network_current_metrics`, traffic columns, top talkers, recent connections, snapshots | analyse a file, probe | Zeek, detection, API | `TrafficPipeline` |
| what an analysis computes: `analysis/log_parser.py`, `discovery/enrichment.py`, `analysis/metrics_calculator.py` | the cache of host names | parse, enrich, add up, rank | DNS, pipeline | `TrafficMetrics` |
| authentication: `api/routes/auth.py`, `api/auth.py`, `api/dependencies.py`, `api/totp_utils.py` | users, invitations, backup codes, recovery attempts, JWTs | bootstrap, invite, register, login, TOTP enrol and verify, backup code, recovery | app | `AuthFlow` |
| app connection: `lib/services/websocket_service.dart`, `lib/infrastructure/adapters/real_time_adapter.dart` | socket, reconnect timer, event stream | connect, message, error, reconnect, disconnect | API WebSocket | - |
| app state: `lib/providers/*` | session, alerts and unseen count, devices, metrics | login, load, event, mark seen, logout | REST API, event stream | - |
| read-only routes, configuration, migrations, seed data, screens | - | I/O and layout | - | - |

### What is hard in it

* Two threads look a MAC up and insert it; the health checker, the UDP thread
  and the ARP sweep read rows and write them later by primary key, with partial
  UPDATEs (the ORM leaves out columns whose value did not change).
* A database error in one place ends a thread and in another is swallowed.
* Detection state is in memory: a restart forgets what was already alerted.
* `alert_queue` is a module global of each process, and the two processes
  do not share it.
* The broadcast loop awaits inside a loop over a set that handlers change.
* Rotated PCAP files are analysed by overlapping threads that replace the same tables.
* Authentication reads and writes counters and codes in separate statements, and
  compares clocks of different resolution.
* A phone's requests overlap, come late or never, while the notifier deletes tokens
  that it has read earlier.

What each component must guarantee:

* device registry: one row per machine, `has_agent` and agent rows agree, a live
  agent is shown active and a dead one is not;
* detection: an alert needs a lasting anomaly, one alert per event, every alert
  is saved before it is pushed and none is pushed twice;
* alert delivery: a pushed alert reaches every client that is connected, once and in
  order, and the unseen count converges;
* push notifications: one row per token, none for a phone that has logged out, and
  invalid tokens go without taking valid ones with them;
* capture: records are whole, no packet is lost, every file is handed over once,
  in order, and is final;
* analysis and current metrics: no lost update, tables that are replaced hold one
  cycle, a snapshot has all its rows, newer results are not overwritten by older;
* computation: no byte is lost or counted twice, the ranking is one, an address has one name;
* authentication: what serves once serves once, a token of one step does not serve
  another, a changed password ends older sessions;
* app: one connection while logged in and none afterwards, the session state agrees
  with the stored token.

## 2. Plan

In the order in which the modules were written, the most important behaviour first:

1. `DeviceRegistry`, refining the abstract `DeviceInventory`;
2. `AnomalyAlerts`, and 3. `PcapRotation`;
4. `TrafficPipeline`, with proofs of all its safety properties;
5. `AuthFlow`;
6. `AlertDelivery`, composed with `AnomalyAlerts` through the abstract `AlertFeed`,
   which both are shown to implement;
7. `PushTokens`;
8. `TrafficMetrics`, the computations as folds, checked against declarative
   definitions of their results.

What is left: `WsClient` (the app's socket, timer and stream) and `AppState` (session,
alerts and loads that race events); section 5 has what is known about them.

There is one run per component, with liveness in it where the instance is small enough;
the registry needs three, since its liveness, its lock cycle and its races need
different instances.  A run that must find a violation exists where code and
documentation disagree in a way no other run shows; further disagreements met while
modelling are recorded in section 3, each with the property of a passing run that says
what does hold.

## 3. The modules

An operator that a comment calls a *mutation* is not part of the specification: it
is a changed version of the definition that follows it, kept to show that a property
notices the change.  `PROJECT.json` maps each definition to the lines it models.

### DeviceRegistry, DeviceInventory

State: the rows of `device` (`devices`), of `agent` (`agents`), which devices have a row
in `device_current_metrics` (`metricRows`), which agent programs run (`up`), and for each of
the three writing threads the transaction it has open (`udp`, `chk`, `arp`).  Every
repository method is split where PostgreSQL lets another transaction in: the
queries, the flush that takes a row lock, the commit.  The operator `Col` is
SQLAlchemy's rule that an UPDATE holds only the columns whose value differs from
the one loaded; several properties depend on it.  Faults are failing transactions
and restarts; an error outside a handler ends the thread, as in the code.  Lock
cycles between the checker and the UDP thread are broken by PostgreSQL
(`BreakCycle`).

`DeviceInventory` is what API and detection rely on: rows are only added, keep their
MAC, an agent once bound to a device stays bound, and `has_agent` is never taken back.

| run | instance | shows |
|---|---|---|
| `registry_races` | 1 agent, 2 MACs, 1 fault | types, ownership, uniqueness and the refinement of the inventory under every interleaving |
| `registry_shared_mac` | 2 agents on 1 MAC | at most two rows per MAC, no device whose agent is active is disconnected, the checker and the UDP thread block each other only over a device that two uids share |
| `registry_liveness` | 1 agent, timeout 1, 1 fault | a live agent is active again and again, a dead one ends inactive |

Bounds: two writers of one row are enough for every race between a read and a write
here, since three threads exist and the checker and the scanner never insert the same kind of
row; ids beyond four (three) are never reached by one agent and two MACs.  Timeout 0
makes an agent stale after one tick, which gives the shortest overlaps.
Fairness (of `registry_liveness` only): `SF` of the UDP and checker steps, because PostgreSQL queues
waiters for a row lock; `WF` of `BreakCycle` (deadlock detection), of
scans and of the clock, and `SF` of a heartbeat and a registration of a running agent:
it repeats them every few seconds, and UDP is assumed not to lose them all.

Where code and documentation disagree:

* `repository.py:48` promises that no duplicate is made.  The UDP thread and the ARP
  scanner can both find no row of a MAC and both insert one.  What holds: never two rows
  without agent (`AgentlessUnique`), and never more than two rows (`AtMostTwoRowsPerMac`).
* `health_checker.py:27` says that a device is marked when its agent falls silent.
  A heartbeat that overlaps the check leaves the device of a dead agent `active`
  while its agent row is `inactive`, and later checks look at the agent row only.
  What holds: the agent row of a dead agent ends inactive (`DeadAgentMarked`).

The lock order: loading a device flushes the UPDATE of the agent assigned just before, so the
checker locks an agent before that agent's device, and so does the UDP thread.  That they
can still deadlock takes a device that two uids share (`DeadlockNeedsSharedDevice`); then
PostgreSQL fails one of the two transactions.
A silent uid of a shared device disconnects it although the other uid is alive; the code
does this, and `ActiveAgentNotDisconnected` is stated for devices that are not shared.

Also met: an agent that has just been heard may be marked inactive by a check that
queried before (`AliveAgentRecovers` says that it recovers), and the ARP sweep may
update a row that an agent enrolled on after the sweep's query.

### AlertFeed

What the path of an alert from the database to the apps promises: alerts are handed over
in the order they were saved, each at most once, and whoever receives alerts receives
only what was handed over, in that order.  Every hand-over is a step that lengthens a
sequence, so the same alert a second time would not be a step of the feed.  Skipping is
allowed.  `AnomalyAlerts`
implements the half up to the hand-over (no receivers yet), `AlertDelivery` the whole
with the WebSocket clients as receivers; so the two meet at `push_alert`.

### AnomalyAlerts

State: the baseline of each metric (number of samples up to the warm-up, and whether the
previous z-score was high), the active events, the `alert` table, what was pushed, and
the engine thread with the keys it has still to save and the alerts it has still to push.
A cycle visits the watched devices in any order and then the network; readings
are chosen freely: absent (NULL), normal, informative, high.  The EWMA arithmetic is
abstracted to that choice, since any sequence of magnitudes can be produced by some
sequence of measurements.  Faults: the INSERT of an alert fails, or succeeds and
reading it back fails; a subject's query ends the cycle; the server restarts.

`alerts` has one device with two metrics, one metric of the network, two saved alerts and
one fault.  Metrics do not influence each other except through the list of created
alerts, so two are enough; two alerts let one metric be alerted twice, or two be
pushed in the wrong order; `MinSamples` 3 (5 in the code) leaves a warm-up that the
filter can go wrong in.  Fairness: `WF` of the engine's cycle, a loop in a thread that
catches every exception.

Where code and documentation disagree:

* `anomaly_detector.py:104` speaks of two consecutive cycles.  A metric that is absent
  for some cycles keeps its old z-score, so the two cycles may be far apart.  What
  holds: two consecutive *observations* were high (`ObservedTwice`).
* `alert_manager.py:10` promises one alert when an event starts.  When the INSERT fails
  the event is active without one, and is not alerted while it lasts.  What holds:
  without a fault every event was alerted (`EventsAreAlerted`).  Likewise, what was saved
  is pushed unless something fails in between (`SavedIsPushed`).
* An informative reading (|z| up to 2) clears an event, while the module's text says
  it ends when the metric returns to normal.

### AlertDelivery

State: the alerts saved and how many are unseen, what was given to `push_alert`, the
`alert_queue` of each process, the clients' connections, `active_connections`, and the
broadcast loop with the message it is sending, the clients still to come and the unseen
count it has read.  asyncio runs other tasks only where the loop awaits, so
`Connect` and `Notice` need `Suspended`.  Python's iteration over a set checks the size
at each step, the last one included, and raises when it changed: that is `Upset`.  Adding
to a set may lay it out anew, after which the iteration may skip clients or
come to one again, so `Connect` leaves the rest of the iteration open.  A failing database
session sends the loop back to sleep, as does an idle round, and is left out.

| run | instance | shows |
|---|---|---|
| `alert_delivery` | one process, 2 clients, 2 alerts | `ReceivedOnce`, the refinement of `AlertFeed`, delivery to whoever stays, convergence of the unseen count |
| `delivery_two_processes` (violated) | the processes as they are started, 1 client that matters, 1 alert | an alert waits for ever in the queue of the engine's process |

The constant `OneProcess` is what the design intends; with two processes, as `run.py` and
`run_api.py` start them, no `alert_created` message is ever sent (the finding at
`run.py:76`).  Everything else about the loop is checked as it would be if the queue were shared.
Two clients let one disturb the iteration that serves the other; two alerts are needed
for an order.  Fairness: `WF` of the loop, a task that lives as long as the API and whose
sends end, since the server's ping timeout closes a client that takes no data.  None of
the clients or of the engine.

Met while modelling: an alert during whose broadcast a client connects or leaves is given
up for the clients not yet reached (`upset`), and is not sent again.

### PushTokens

State: the rows of `push_token`, the requests of the phones, the app on each phone
(running or not, its user, `_currentToken`, a logout that waits), the token FCM has given
each phone, and the notifier (the tokens it has read, those it will delete).
`register_token` is split at its look-up and its commit; a row loaded and unchanged is not
written.  A request may take effect long after the app stopped waiting, or never.
FCM refuses a token that it has replaced, and may answer INVALID_ARGUMENT for any token, a
valid one too, since the message itself can be the cause; `_cleanup_invalid_tokens`
(`fcm_notifier.py:147`) deletes both.  `refused` holds the tokens of the second kind: what
`LiveTokenKept` says is that nothing else takes the row of a token in use, short of its user.

`push_tokens` has one phone that two users share, two tokens and three requests: a
register, the unregister of a logout and the register of the next user is the shortest story
in which a late request could hurt.  One phone is enough because no operation relates
rows of two phones, but for the clean-up, which treats each token by itself.  Fairness:
`WF` of `SendAlert` (alerts keep coming), `SF` of `Answered` and `Clean` (FCM and the
database do not fail for ever); only `StaleRowsGo` needs it.

Met while modelling: `src/README.md:161` says that the app registers its token at login, but
`registerToken` is called only from `checkAuth`, at the next start of the app; `logout`
leaves the row when the session is already lost, or when the token is another
user's; a register that finds the user's own row writes nothing and answers
201 although a concurrent deletion has taken the row; more than 500 tokens make
`MulticastMessage` raise (not modelled); `upsert_push_token` and `delete_push_token` of the repository
are never called.

### PcapRotation

State: the thread of each agent connection, `_lock`, `_current_file` and `_current_path`,
whether the interval has elapsed (`due`), the content of the files by the second in
their name, what was handed over, and how far the shutdown has come.  `write_packet` is
split at every system call; an exception in it releases the lock and ends the
thread.  Opening a file of an existing name truncates it.  A thread blocked in `recv` at the
shutdown delivers its packet afterwards, perhaps to a closed file.

`pcap_rotation` has two agents, four packets, three seconds (two rotations), one fault and the
shutdown at any time: two agents are enough for every overlap with a holder of the
lock, and the fourth packet lets a wrong rotation hand the same file over twice.
Fairness: `WF` of the steps of the thread that holds the lock; none of the agents or
of the lock's waiters.  The interval is at least five seconds (`config/loader.py`), so a
rotation never comes in the second its file was opened; the model requires that the clock
has moved on.

Met while modelling: `_current_path` changes before `open()` can fail, so after a failure
the next rotation hands over the path of a file that does not exist or, if the retry
came in the same second, of the file still open; the ordering properties are strict
only without faults.  The last file is not handed over if traffic stops
(`pcap_assembler.py:102`), nor at the shutdown.  Not modelled: a clock that is set back
(local time, twice a year), which repeats names.

### TrafficPipeline

State: the thread of each rotated file (where it is, the devices it saw), the probe's
transaction, and the tables: the one row of `network_current_metrics`, the traffic
columns of `device_current_metrics`, the two tables that are replaced in each cycle, and
the snapshots.  A value is the number of the file it was measured from.  Each
repository method is a transaction that may fail; the replacing ones are split
into the snapshot of the DELETE, the lock on the rows and the commit, which is
where READ COMMITTED lets two of them interleave.  A restart ends the threads.

`traffic_pipeline` has two files, one measurement of the probe, one fault or restart, and
starts with empty or with old tables.  Two analyses are what thirty seconds and
Zeek's usual run time make overlap; the old rows make the second DELETE wait.
Fairness: `WF` of each analysis thread (Zeek is stopped after 120 s; the statements
of a transaction return).

`models.py:308` says that the ranking is replaced entirely each cycle; when two
transactions overlap, both rankings stay.  What holds: two of them are in the table only if
their transactions overlapped (`MixedOnlyIfOverlap`), and a metric goes back to an
older file only if the analyses overlapped (`BackOnlyIfOverlap`).

Assumed: the isolation level is PostgreSQL's default, READ COMMITTED (nothing in
`database/connection.py` sets another).  A device is identified with its address:
traffic is attributed to whoever has the address when the result is saved
(`repository.py:218`), which after a DHCP change is somebody else.  The devices of `Hosts`
keep an address in 192.168 or 10, about which all notions of a local address agree
(`TrafficMetrics` has the others).  The calculator ranks the ten addresses that consumed
most, inside the inventory or not, and rows are written only for those of the inventory: so
`ranked` is any subset of the devices seen, and may be empty without any failure.
`SnapshotsComplete` asks for a row of each ranked device, and for an endpoint row of each
device seen.

### TrafficMetrics

State: the thread of each analysis, its parsed connections, the host names it has found so
far, what it computed, and the process's cache of host names.  A row of conn.log may lack
its ends or its numbers.  `AddConnection`, `AddToNetwork`, `AddRecent` and
`TopTalkers` are the loops of `metrics_calculator.py` and of `save_recent_connections` as
folds; `TrafficAddsUp` and `TalkersRanked` compare their results with sums over sets
of connections, and with each other.

`traffic_metrics` has two analyses with three connections in all, between private,
link-local, public and missing ends, large and small, failed or not: three connections are
enough for a device with two of them and one that competes with it for the two places
of the ranking.  The two analyses are interchangeable (symmetry).  The source has two
notions of a local address, and the model keeps both: devices with 169.254.x.x are ranked,
but `_save_device_metrics` skips them, and traffic to them is listed as outside
traffic.

Met while modelling: the docstring at `metrics_calculator.py:12` lists four failed states,
the code has seven; line 21 says "sum across all devices" where all connections are
counted; the prefix `172.2` is wider than RFC 1918; rates are divided by
the nominal period, not by the time the file covers (`pipeline.py:71`).

### AuthFlow

State: the tables `user`, `invitation_token` and `totp_backup_code`, the JWTs that
were issued, the requests in progress, and a clock with several ticks per second: a JWT
records the second, `password_changed_at` the tick.  A password is its generation.
Each handler is split where it reads and where it commits, with the row locks it takes:
the invitation's (`SELECT ... FOR UPDATE`), and the user's.  The four initial states are an
empty installation, one with the administrator of `seed.py` from before the second factor,
one with a user who has still to enrol, and one with an enrolled user, who
has a session and has begun another login, an invitation and backup codes; its first request
is over, so that three more may come.  Any request may fail
before its commit.  Wrong secrets, expired tokens and the rate limit only refuse requests and
are left out, but for wrong recovery codes, which count.  What a handler reads well before it
commits is a step of its own: the clock in `EnrollStamp` and `ResetStamp`, the codes an UPDATE
finds in `RegenerateMark`.  A token is issued in the step of the
commit, except after a reset, where the time between them matters.

| run | instance | shows |
|---|---|---|
| `auth_flow` | 4 requests, 3 at once, 3 names, 3 ticks per second, 1 second per TOTP step | invitations make one user; the other one-time things serve twice only when requests overlap or, for time steps, an enrolment is repeated; old sessions end |
| `auth_new_token` (violated) | 3 requests, 2 at once | the session that a reset answers with may be refused |

Three requests at once are enough for each race between a read and a commit and for a
third that meets either; a fourth can come after one of them has ended.  Since the enrolled
user already holds a session and a half-finished login, none of them is spent on getting there.  Three ticks let a change of
password fall inside a second, and time 6 reaches the second TOTP step and the third.
`OldSessionsEnd` is about `get_current_user`,
that is the REST endpoints: the WebSocket endpoint calls `verify_token` alone
(`websocket.py:104`), does not look at `password_changed_at`, and goes on accepting a JWT of
the old password until it expires.  No fairness: nothing here must happen.  User names are
interchangeable (symmetry).

What `UsedOnceUnlessOverlap` does not exclude is real in this code: `totp_verify`
takes the row lock but, since the session already holds the object that
`get_current_user` loaded and the query does not ask to refresh it, compares with the old
`totp_last_used_at`, so two overlapping requests pass in one time step although the
comment at `routes/auth.py:435` says the lock prevents it; two requests may accept one
backup code; two enrolments make two batches of codes; two first registrations both
succeed on an empty table; one recovery code may give two reset tokens, and the
counter of attempts (line 539) can lose an update.  Of two overlapping enrolments the later
commit may carry the older time, read at line 408 ten hashes before: it sets
`totp_last_used_at` back behind a verification made in between, and a verification after it
passes in the same time step without overlapping the first.  Hence the exception
`Reenrolled`: an enrolment of the same user was in progress during one of the two.  Two
overlapping regenerations of backup codes leave both new batches valid, since the UPDATE of
the old codes (line 648) does not see the other's new ones (modelled; no property is
about it).  `pyotp` also accepts the codes of the
adjacent steps, so that one code may serve in two steps.

## 4. What is proved

TLAPS checks the theorems for every value of the constants that satisfies the named
assumptions of the module.  These only say that bounds are natural numbers (some
positive), that `None`, `Net` and `NoUser` are none of the other values (and `None` is
not the content of a file, Zeek's `-` not an address), that `MacOf` and
`MetricsOf` are functions on the right domains, that the sockets are finitely many, and
that rows of conn.log have addresses as ends.  Every module has an inductive invariant
that includes its types; further ones are inductive relative to it.

* `DeviceRegistry_proofs`: `RegistryInv`.  It adds to the table properties what each
  open transaction relies on (`UdpInv`, `CheckerInv`, `ArpInv`): the rows a transaction
  loaded are still there, and when the ARP scanner is about to insert, every row of that
  MAC has an agent.  From it: ownership, one agentless row per MAC, only agents'
  devices are disconnected, and `RegistryImplementsInventory`: the initial state maps to
  the initial state, every step to a step of the inventory or a stutter.  `RowsInv` gives
  `TwoRowsPerMac`: no MAC has three rows, and as long as one of the two threads remembers
  that a MAC has none, only the other can have inserted one.  `StatusInv` gives
  `ActiveAgentsAreNotDisconnected`: what a heartbeat is about to commit agrees with the row
  it loaded, and its agent is not among those the health checker has locked.
  `LockOrderInv`, that for every device it knows the checker holds one of the agents, gives
  `DeadlocksNeedSharedDevices`.
* `AnomalyAlerts_proofs`: `AlertsInv`.  `OneAlertPerEvent` alone is not inductive:
  the filter must not be able to drop an event, so `DedupInv` says that a metric
  that was alerted and has not come down is active, warm and was high at its
  last observation.  `QueueInv` relates saved, waiting and pushed alerts, and with it
  `AlertsImplementFeed` shows the refinement.  `SeenInv` ties the memory of a baseline to
  what was really observed, from which follow `EventsHaveAlerts` and `FilterHolds`.
* `PcapRotation_proofs`: `RotationInv`, made of types, of `LockInv`, and of
  `HandOverInv`, which places the path that the rotating thread remembers between the
  files handed over and the file open now.  `HandOverOrder` and `HandedFilesAreFinal`
  follow: a write changes the open file, an open the file of this second, and
  neither has been handed over.  `FilesInv` is about runs without I/O errors: headers and
  data alternate and only the open file may end in a header, that of the packet whose data
  the holder of the lock writes next (`RecordsInv`); a packet is with one thread or in
  one place (`PacketsInv`); a file that exists is the open one, remembered by a rotating
  thread, or handed over (`NamesInv`).
* `TrafficPipeline_proofs`: `PipelineInv`.  For `MixedOnlyIfOverlap`, `ReplaceInv` says of
  every open transaction that what it will not delete of its table was written by one it
  has met; the row lock is what keeps this true when another one commits between its
  snapshot and its DELETE.  For `BackOnlyIfOverlap`, `OrderInv`: a thread that runs has
  met all that started after it.  For `SnapshotsComplete`, `SnapshotInv`: what of a
  snapshot's rows is missing is what its thread has still to save.
* `TrafficMetrics_proofs`: `CacheInv`.  The name of a connection is the one in the cache, and
  an address that is being looked up is not in the cache, unless two looked it up at once.
  `ResultInv`: what an analysis has computed is what the operators give for its connections
  and names, which no other thread changes; from it `TrafficAdded` and `TalkersAreRanked`,
  once it is known what the operators compute.  They are folds and sums of the community
  modules, which recur on sequences and sets.  The library's induction theorems cannot be
  used, so induction is on sets: a set of naturals that has no least counterexample
  (`SetInduction`), a set of subsets that has a subset when it has all that lack one
  element (`SubsetInduction`), and with it functions defined by taking elements out one by
  one (`Recursion`).  Then a sum is a natural number, the same in whatever order
  (`SumStep`), a fold goes through the prefixes (`FoldSteps`), and each of the three
  calculations keeps what it has added in agreement with the sums over the connections so
  far (`MoreDevicesAddUp`, `MoreNetworkAddsUp`, `MoreRecentAddsUp`).  For the ranking, a
  finite set can be sorted (`Sortable`: the lightest comes last), so the `CHOOSE` of
  `Sorted` has a value, and `FewHogs` is arithmetic with the average.
* `PushTokens_proofs`: `PushInv`.  What a request has read stays true while no other
  request of its phone is under way (`AloneInv`, `FoundInv`); tokens of which FCM
  says that they are invalid are older than the phone's, and stay so, unless it has refused the
  message (`IssuedInv`), which gives `LiveTokenKept`.  For `LoggedOutIsQuiet`, `QuietInv`: when the request for which
  logout() waits is done and was alone, no row has the token and no request under way
  could insert one.
* `AuthFlow_proofs`: `AuthInv`.  A request past the check of its invitation holds its lock,
  alone, and finds it unused (`PickInv`, `LockInv`); from it `InvitationOneUser`.  Steps are
  summarised once (a request arrives, goes on, or time passes, with what each changes), and
  two more invariants rest on the summary and on `OverlapInv`, that requests open at the same
  time overlap.  `UseInv`: what was used is spent in the tables, and spent things stay
  spent; a request that arrives wants nothing that is spent, so that who still wants it was
  open when it was used.  For a time step, spent is
  what the last use says, unless an enrolment overlapped the use: `SetBack` shows that only its
  commit takes the last use back.  It needs that time steps grow with the clock, and gives
  `OnceUnlessOverlap`.  `SessionInv`: who holds an old password overlapped its change, and so
  is marked as crossed; between reading the clock and the commit of a reset, a token not
  older than that reading is crossed as well, because its request overlaps the reset.
  It gives `OldSessionsAreOver`.
* `AlertDelivery_proofs`: `DeliveryInv`.  `OrderInv` puts what a client has got before what is
  being sent and that before what waits; `PendingInv` says that the clients the iteration has
  still to come to do not have the alert, unless the set was disturbed.  From it
  `AtMostOnce`, and `DeliveryImplementsFeed`.

Only model-checked, on the instances of section 3: all liveness (the prover has no rule
for fairness here): `AliveAgentRecovers`, `DeadAgentMarked`,
`SavedIsPushed`, `LastingAnomalyIsEvent`, `LockIsReleased`, `PipelinesEnd`,
`AlertReachesClients`, `CountConverges`, `StaleRowsGo`.  Every other property of a passing
run is a theorem.

## 5. Not modelled

*The app's connection.*  `WebSocketService` reconnects on a timer after an error or the end
of the stream.  Read, but not modelled: a connection that ends after `disconnect()` schedules a
new one (`websocket_service.dart:64`), and every `connect` of `RealTimeAdapter` subscribes
once more (`real_time_adapter.dart:23`), which delivers events several times.

*The app's state.*  An event that arrives while a list is being loaded is overwritten by
the list (`alert_provider.dart:86` and its unseen count, `metrics_provider.dart:204`), a 401 that
answers a request of an earlier session ends the new one (`auth_provider.dart:57`),
`main_shell.dart:75` connects per shell, and the app looks for the scopes `totp_required`
and `totp_enrollment`, which the server never issues (it issues `pending_totp`).  What of the
app matters to the server's tables is in `PushTokens`.

*Parts of modelled components.*  The arithmetic of baselines; texts, vendors, names and time
stamps; rates and ratios; dns.log; Zeek itself.  Network alerts are stored under device 1
(`alert_manager.py:195`), which is assumed to exist; when it does not, the INSERT fails, which
is one of the faults.

*The rest.*  The read-only routes format rows.  Configuration is read once; migrations, seed data,
screens and DTOs have no behaviour over time that a property is about.
