--------------------------- MODULE TrafficMetrics ---------------------------
(***************************************************************************)
(* What an analysis computes from a capture file: conn.log is parsed       *)
(* (log_parser.py), the outside addresses get host names (enrichment.py),  *)
(* and the traffic is added up per device, for the network, as a ranking   *)
(* (metrics_calculator.py) and per destination (repository.py).            *)
(*                                                                         *)
(* The cache of host names belongs to the process: the threads of two      *)
(* analyses look addresses up in it and store what DNS answers.            *)
(*                                                                         *)
(* Left out: the rates and ratios the totals are divided into, dns.log,    *)
(* and port and protocol of a connection.                                  *)
(***************************************************************************)
EXTENDS Naturals, SequencesExt

CONSTANTS
  Analyses,
  Private,    \* addresses of the ranges of RFC 1918
  LinkLocal,  \* 169.254.x.x
  Public,     \* all other addresses
  Known,      \* private addresses of devices of the inventory
  Names,      \* host names
  NoName,     \* None: there is no host name
  Unset,      \* '-': Zeek has no value
  Rows,       \* rows of conn.log that may occur
  MaxRows,    \* bound on rows of all files
  TopN        \* length of the ranking

VARIABLES
  pc,     \* of the thread of each analysis
  conns,  \* its connections
  hosts,  \* dst_hostname of those enriched so far
  result, \* what it computes from them
  cache,  \* _dns_cache
  raced   \* addresses that two analyses have looked up at the same time

vars == <<pc, conns, hosts, result, cache, raced>>

Address == Private \cup LinkLocal \cup Public
Host == Names \cup {NoName}
Connection == [src : Address \cup {Unset}, dst : Address \cup {Unset}, failed : BOOLEAN,
               orig : Nat, resp : Nat, missed : Nat]

ASSUME MetricsAssumption ==
  /\ Known \subseteq Private /\ MaxRows \in Nat /\ TopN \in Nat \ {0}
  /\ Unset \notin Address
  /\ \A row \in Rows : /\ {row.src, row.dst} \subseteq Address \cup {Unset}
                       /\ row.failed \in BOOLEAN

TypeOK ==
  /\ pc \in [Analyses -> {"log", "enrich", "lookup", "end"}]
  /\ conns \in [Analyses -> Seq(Connection)] /\ hosts \in [Analyses -> Seq(Host)]
  /\ \A a \in Analyses : Len(hosts[a]) <= Len(conns[a])
  /\ DOMAIN result = Analyses
  /\ DOMAIN cache \subseteq Address /\ cache \in [DOMAIN cache -> Host]
  /\ raced \subseteq Address

Init ==
  /\ pc = [a \in Analyses |-> "log"] /\ conns = [a \in Analyses |-> <<>>]
  /\ hosts = [a \in Analyses |-> <<>>] /\ result = [a \in Analyses |-> <<>>]
  /\ cache = <<>> /\ raced = {}

-----------------------------------------------------------------------------
\* _to_int: what is not a number is 0.
ToInt(value) == IF value \in Nat THEN value ELSE 0

\* parse_conn_log: a row to a connection.
Parse(row) == [src |-> row.src, dst |-> row.dst, failed |-> row.failed,
               orig |-> ToInt(row.orig), resp |-> ToInt(row.resp), missed |-> ToInt(row.missed)]
Bytes(conn) == conn.orig + conn.resp

\* The two notions of a local address: of metrics_calculator, and of enrichment
\* and repository.
IsLocal(ip) == ip \in Private \cup LinkLocal
IsPrivate(ip) == ip \in Private

-----------------------------------------------------------------------------
\* calculate_device_metrics. A defaultdict: an address has an entry when it is used.
Zero == [in |-> 0, out |-> 0, retransmissions |-> 0, failed |-> 0, destinations |-> {}, total |-> 0]
Updated(devices, ip, Change(_)) ==
  [d \in DOMAIN devices \cup {ip} |->
     IF d = ip THEN Change(IF ip \in DOMAIN devices THEN devices[ip] ELSE Zero) ELSE devices[d]]
One(condition) == IF condition THEN 1 ELSE 0

AsSource(devices, conn) ==
  Updated(devices, conn.src, LAMBDA d :
    [in |-> d.in + conn.resp, out |-> d.out + conn.orig, total |-> d.total + Bytes(conn),
     retransmissions |-> d.retransmissions + One(conn.missed > 0),
     failed |-> d.failed + One(conn.failed), destinations |-> d.destinations \cup {conn.dst}])
AsDestination(devices, conn) ==
  Updated(devices, conn.dst, LAMBDA d :
    [d EXCEPT !.in = @ + conn.orig, !.out = @ + conn.resp, !.total = @ + Bytes(conn)])

\* Mutation: the destination only when the source is not local.
AddConnectionOnce(devices, conn) ==
  IF conn.src = Unset THEN devices
  ELSE IF IsLocal(conn.src) THEN AsSource(devices, conn)
  ELSE IF IsLocal(conn.dst) THEN AsDestination(devices, conn) ELSE devices

AddConnection(devices, conn) ==
  LET sent == IF IsLocal(conn.src) THEN AsSource(devices, conn) ELSE devices
  IN IF conn.src = Unset THEN devices
     ELSE IF IsLocal(conn.dst) THEN AsDestination(sent, conn) ELSE sent

DeviceMetrics(all) == FoldLeft(AddConnection, <<>>, all)

\* calculate_network_metrics.
AddToNetwork(network, conn) ==
  LET inside == IsLocal(conn.src) /\ IsLocal(conn.dst)
  IN [network EXCEPT !.failed = @ + One(conn.failed),
                     !.internal = IF inside THEN @ + Bytes(conn) ELSE @,
                     !.external = IF inside THEN @ ELSE @ + Bytes(conn)]
NetworkMetrics(all) ==
  FoldLeft(AddToNetwork, [failed |-> 0, internal |-> 0, external |-> 0, active |-> Len(all)], all)

\* calculate_top_talkers: the order of equal totals is left open here.
Total(devices) == SumFunction([ip \in DOMAIN devices |-> devices[ip].total])
Sorted(devices, ips) ==
  CHOOSE seq \in SetToSeqs(ips) :
    \A i, j \in DOMAIN seq : i < j => devices[seq[i]].total >= devices[seq[j]].total
\* More than twice the average.
IsHog(devices, ip) ==
  devices[ip].total * Cardinality(DOMAIN devices) > 2 * Total(devices)
Ranking(devices, ips) ==
  [rank \in DOMAIN ips |-> [ip |-> ips[rank], total |-> devices[ips[rank]].total,
                            hog |-> IsHog(devices, ips[rank])]]
FirstOnes(seq) == SubSeq(seq, 1, IF Len(seq) < TopN THEN Len(seq) ELSE TopN)

\* Mutation: the ranking is cut before it is sorted.
TopTalkersCutFirst(devices) ==
  Ranking(devices, Sorted(devices, Range(FirstOnes(SetToSeq(DOMAIN devices)))))

TopTalkers(devices) == Ranking(devices, FirstOnes(Sorted(devices, DOMAIN devices)))

\* save_recent_connections: what devices of the inventory exchanged with the outside.
Outbound(conn) == IsPrivate(conn.src) /\ conn.dst # Unset /\ ~IsPrivate(conn.dst)
AddRecent(recent, named) ==
  LET conn == named.conn
      key == <<conn.src, conn.dst>>
      old == IF key \in DOMAIN recent THEN recent[key] ELSE [bytes |-> 0, count |-> 0, host |-> NoName]
      new == [bytes |-> old.bytes + Bytes(conn), count |-> old.count + 1,
              host |-> IF named.host # NoName THEN named.host ELSE old.host]
  IN IF Outbound(conn)
     THEN [k \in DOMAIN recent \cup {key} |-> IF k = key THEN new ELSE recent[k]]
     ELSE recent
RecentConnections(all) ==
  LET grouped == FoldLeft(AddRecent, <<>>, all)
  IN [key \in {k \in DOMAIN grouped : k[1] \in Known} |-> grouped[key]]

-----------------------------------------------------------------------------
Used == MapThenSumSet(LAMBDA a : Len(conns[a]), Analyses)
Goto(a, step) == pc' = [pc EXCEPT ![a] = step]

\* The analysis of a file ends here if there is no connection in it.
ReadLog(a) ==
  /\ pc[a] = "log"
  /\ \E n \in 0..(MaxRows - Used) : \E rows \in [1..n -> Rows] :
       /\ conns' = [conns EXCEPT ![a] = [i \in 1..n |-> Parse(rows[i])]]
       /\ Goto(a, IF n = 0 THEN "end" ELSE "enrich")
  /\ UNCHANGED <<hosts, result, cache, raced>>

\* The destination of the connection that enrich_connections has come to.
Enriching(a) == pc[a] = "enrich" /\ Len(hosts[a]) < Len(conns[a])
Destination(a) == conns[a][Len(hosts[a]) + 1].dst
AddHost(a, host) == hosts' = [hosts EXCEPT ![a] = Append(hosts[a], host)]
IsInside(ip) == ip = Unset \/ IsPrivate(ip)

EnrichInside(a) ==
  /\ Enriching(a) /\ IsInside(Destination(a))
  /\ AddHost(a, NoName)
  /\ UNCHANGED <<pc, conns, result, cache, raced>>

EnrichCached(a) ==
  /\ Enriching(a) /\ ~IsInside(Destination(a)) /\ Destination(a) \in DOMAIN cache
  /\ AddHost(a, cache[Destination(a)])
  /\ UNCHANGED <<pc, conns, result, cache, raced>>

\* resolve_hostname: not in the cache, so DNS is asked ...
LookingUp(ip) == {b \in Analyses : pc[b] = "lookup" /\ Destination(b) = ip}
Lookup(a) ==
  LET ip == Destination(a)
  IN /\ Enriching(a) /\ ~IsInside(ip) /\ ip \notin DOMAIN cache
     /\ Goto(a, "lookup")
     /\ raced' = IF LookingUp(ip) # {} THEN raced \cup {ip} ELSE raced
     /\ UNCHANGED <<conns, hosts, result, cache>>

Stored(ip, host) == [d \in DOMAIN cache \cup {ip} |-> IF d = ip THEN host ELSE cache[d]]

\* Mutation: a failure is not cached.
ResolvedUncached(a) ==
  /\ pc[a] = "lookup"
  /\ \E host \in Host :
       /\ cache' = IF host = NoName THEN cache ELSE Stored(Destination(a), host)
       /\ AddHost(a, host)
  /\ Goto(a, "enrich")
  /\ UNCHANGED <<conns, result, raced>>

\* ... and answers or fails, which is stored as well.
Resolved(a) ==
  /\ pc[a] = "lookup"
  /\ \E host \in Host : cache' = Stored(Destination(a), host) /\ AddHost(a, host)
  /\ Goto(a, "enrich")
  /\ UNCHANGED <<conns, result, raced>>

\* The steps 3 to 7 of process(); what they store is not changed by other threads.
Calculate(a) ==
  LET devices == DeviceMetrics(conns[a])
      named == [i \in DOMAIN conns[a] |-> [conn |-> conns[a][i], host |-> hosts[a][i]]]
  IN /\ pc[a] = "enrich" /\ Len(hosts[a]) = Len(conns[a])
     /\ result' = [result EXCEPT ![a] =
          [devices |-> devices, network |-> NetworkMetrics(conns[a]),
           talkers |-> TopTalkers(devices), recent |-> RecentConnections(named)]]
     /\ Goto(a, "end")
     /\ UNCHANGED <<conns, hosts, cache, raced>>

Next == \E a \in Analyses : \/ ReadLog(a) \/ EnrichInside(a) \/ EnrichCached(a)
                            \/ Lookup(a) \/ Resolved(a) \/ Calculate(a)

Spec == Init /\ [][Next]_vars

-----------------------------------------------------------------------------
Calculated == {a \in Analyses : pc[a] = "end" /\ conns[a] # <<>>}
SumOver(all, Value(_), Of(_)) ==
  SumFunctionOnSet([i \in DOMAIN all |-> Value(all[i])], {i \in DOMAIN all : Of(all[i])})
Orig(conn) == conn.orig
Resp(conn) == conn.resp
Count(conn) == 1
All(conn) == TRUE

\* The traffic of a device is what it received and sent at either end of its
\* connections: nothing is lost or counted twice, except that a connection to
\* itself counts at both ends and one without a source for nobody.  The devices,
\* the network and the destinations agree: inside traffic is counted for two
\* devices, failures for the source, and what is listed as outside traffic is at
\* most the external traffic, but for link-local destinations.
TrafficAddsUp ==
  \A a \in Calculated :
    LET all == conns[a]
        devices == result[a].devices
        network == result[a].network
        recent == result[a].recent
        Sourced(conn) == conn.src # Unset
        Outside(key) == key[2] \notin LinkLocal
    IN /\ \A ip \in DOMAIN devices :
            /\ devices[ip].in = SumOver(all, Resp, LAMBDA c : c.src = ip)
                 + SumOver(all, Orig, LAMBDA c : c.dst = ip /\ Sourced(c))
            /\ devices[ip].in + devices[ip].out = devices[ip].total
       /\ Total(devices)
            = SumOver(all, Bytes, LAMBDA c : IsLocal(c.src))
              + SumOver(all, Bytes, LAMBDA c : IsLocal(c.dst) /\ Sourced(c))
       /\ network.internal + network.external = SumOver(all, Bytes, All)
       /\ 2 * network.internal <= Total(devices)
       /\ SumFunction([ip \in DOMAIN devices |-> devices[ip].failed])
            = SumOver(all, Count, LAMBDA c : c.failed /\ IsLocal(c.src))
       /\ SumFunctionOnSet([key \in DOMAIN recent |-> recent[key].bytes],
                           {key \in DOMAIN recent : Outside(key)}) <= network.external

\* Nobody who is left out of the ranking consumed more than somebody in it, and
\* fewer than half of the devices are hogs.
TalkersRanked ==
  \A a \in Calculated :
    LET devices == result[a].devices
        talkers == result[a].talkers
        listed == {talkers[i].ip : i \in DOMAIN talkers}
    IN /\ \A i, j \in DOMAIN talkers : i < j => talkers[i].total >= talkers[j].total
       /\ Cardinality(listed) = Len(talkers)
       /\ \A ip \in DOMAIN devices \ listed, l \in listed : devices[ip].total <= devices[l].total
       /\ DOMAIN devices \ listed # {} => Len(talkers) = TopN
       /\ LET hogs == {ip \in DOMAIN devices : IsHog(devices, ip)}
          IN hogs # {} => 2 * Cardinality(hogs) < Cardinality(DOMAIN devices)

\* The connections of a file to one address have the same host name, and later
\* files the same again, although DNS may answer one time and fail another; only
\* two analyses that looked the address up at once may disagree.
NamesAgree ==
  \A a, b \in Analyses : \A i \in DOMAIN hosts[a], j \in DOMAIN hosts[b] :
    LET ip == conns[a][i].dst
    IN ip = conns[b][j].dst /\ ip \notin raced => hosts[a][i] = hosts[b][j]

=============================================================================
