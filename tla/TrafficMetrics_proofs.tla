----------------------- MODULE TrafficMetrics_proofs -----------------------
(***************************************************************************)
(* Proofs about TrafficMetrics, for any number of analyses, rows and       *)
(* addresses: the cache of host names makes the files of all analyses      *)
(* agree; the traffic of a file adds up; the ranking is one.               *)
(*                                                                         *)
(* Sums and folds of the library recur on sets and sequences.  What they   *)
(* compute is shown by induction on the subsets of a finite set: the set   *)
(* of those for which a claim holds takes the place of a predicate.        *)
(***************************************************************************)
EXTENDS TrafficMetrics, FiniteSetTheorems, TLAPS

\* The name given to a connection is the one in the cache, unless the address was
\* looked up twice at once, and who looks an address up is alone in that.
NamedFromCache(a) ==
  \A i \in DOMAIN hosts[a] :
    LET ip == conns[a][i].dst
    IN IF IsInside(ip) THEN hosts[a][i] = NoName
       ELSE ip \in DOMAIN cache /\ (ip \notin raced => hosts[a][i] = cache[ip])
LookupInv(a) ==
  pc[a] = "lookup" =>
    /\ Len(hosts[a]) < Len(conns[a]) /\ ~IsInside(Destination(a))
    /\ Destination(a) \notin raced =>
         Destination(a) \notin DOMAIN cache /\ LookingUp(Destination(a)) = {a}
LogInv(a) == pc[a] = "log" => hosts[a] = <<>> /\ conns[a] = <<>>
CacheInv == TypeOK /\ \A a \in Analyses : NamedFromCache(a) /\ LookupInv(a) /\ LogInv(a)

\* Nothing has been read.
LEMMA InitCacheInv == Init => CacheInv
BY DEF Init, CacheInv, TypeOK, NamedFromCache, LookupInv, LogInv

\* A row becomes a connection.
LEMMA ParseType ==
  ASSUME NEW row \in Rows
  PROVE  Parse(row) \in Connection
BY MetricsAssumption DEF Parse, Connection, ToInt

\* One more host name leaves those given before as they are.
LEMMA AddHostType ==
  ASSUME TypeOK, NEW a \in Analyses, NEW host \in Host, AddHost(a, host),
         Len(hosts[a]) < Len(conns[a])
  PROVE  /\ hosts' \in [Analyses -> Seq(Host)]
         /\ \A b \in Analyses \ {a} : hosts'[b] = hosts[b]
         /\ Len(hosts'[a]) = Len(hosts[a]) + 1 /\ Len(hosts'[a]) <= Len(conns[a])
         /\ DOMAIN hosts'[a] = DOMAIN hosts[a] \cup {Len(hosts[a]) + 1}
         /\ \A i \in DOMAIN hosts[a] : hosts'[a][i] = hosts[a][i]
         /\ hosts'[a][Len(hosts[a]) + 1] = host
         /\ Len(hosts[a]) + 1 \notin DOMAIN hosts[a]
<1>1. hosts[a] \in Seq(Host) /\ conns[a] \in Seq(Connection) /\ hosts \in [Analyses -> Seq(Host)]
  BY DEF TypeOK
<1>. DEFINE more == Append(hosts[a], host)
<1>2. /\ more \in Seq(Host) /\ Len(more) = Len(hosts[a]) + 1
      /\ Len(hosts[a]) \in Nat /\ Len(conns[a]) \in Nat
      /\ DOMAIN more = DOMAIN hosts[a] \cup {Len(hosts[a]) + 1}
      /\ \A i \in DOMAIN hosts[a] : more[i] = hosts[a][i]
      /\ more[Len(hosts[a]) + 1] = host
      /\ Len(hosts[a]) + 1 \notin DOMAIN hosts[a]
  BY <1>1
<1>3. hosts' = [hosts EXCEPT ![a] = more]
  BY DEF AddHost
<1>. HIDE DEF more
<1>4. hosts'[a] = more /\ \A b \in Analyses \ {a} : hosts'[b] = hosts[b]
  BY <1>1, <1>3
<1>5. hosts' \in [Analyses -> Seq(Host)]
  BY <1>1, <1>2, <1>3
<1>6. Len(hosts[a]) + 1 <= Len(conns[a])
  BY <1>2
<1>. QED
  BY <1>2, <1>4, <1>5, <1>6

\* A name is given from the cache, or none to an inside address.
LEMMA NamedStep ==
  ASSUME CacheInv, NEW a \in Analyses, EnrichInside(a) \/ EnrichCached(a)
  PROVE  CacheInv'
<1>. DEFINE host == IF IsInside(Destination(a)) THEN NoName ELSE cache[Destination(a)]
<1>1. /\ AddHost(a, host) /\ host \in Host
      /\ Enriching(a) /\ UNCHANGED <<pc, conns, result, cache, raced>>
      /\ ~IsInside(Destination(a)) => Destination(a) \in DOMAIN cache
  BY DEF EnrichInside, EnrichCached, CacheInv, TypeOK, Host
<1>2. TypeOK /\ pc[a] = "enrich" /\ Len(hosts[a]) < Len(conns[a])
  BY <1>1 DEF CacheInv, Enriching
<1>. HIDE DEF host
<1>3. /\ hosts' \in [Analyses -> Seq(Host)]
      /\ \A b \in Analyses \ {a} : hosts'[b] = hosts[b]
      /\ Len(hosts'[a]) = Len(hosts[a]) + 1 /\ Len(hosts'[a]) <= Len(conns[a])
      /\ DOMAIN hosts'[a] = DOMAIN hosts[a] \cup {Len(hosts[a]) + 1}
      /\ \A i \in DOMAIN hosts[a] : hosts'[a][i] = hosts[a][i]
      /\ hosts'[a][Len(hosts[a]) + 1] = host
      /\ Len(hosts[a]) + 1 \notin DOMAIN hosts[a]
  BY <1>1, <1>2, AddHostType
<1>4. TypeOK'
  BY <1>1, <1>2, <1>3 DEF TypeOK
<1>5. ASSUME NEW b \in Analyses
      PROVE  (NamedFromCache(b) /\ LookupInv(b) /\ LogInv(b))'
  <2>1. NamedFromCache(b) /\ LookupInv(b) /\ LogInv(b)
    BY DEF CacheInv
  <2>2. NamedFromCache(b)'
    <3>1. CASE b # a
      BY <1>1, <1>3, <2>1, <3>1 DEF NamedFromCache
    <3>2. CASE b = a
      BY <1>1, <1>3, <2>1, <3>2 DEF NamedFromCache, Destination, host
    <3>. QED
      BY <3>1, <3>2
  <2>3. \A c \in Analyses : pc[c] = "lookup" => hosts'[c] = hosts[c]
    BY <1>2, <1>3
  <2>4. \A ip : LookingUp(ip)' = LookingUp(ip)
    BY <1>1, <2>3 DEF LookingUp, Destination
  <2>5. LookupInv(b)'
    BY <1>1, <2>1, <2>3, <2>4 DEF LookupInv, Destination
  <2>6. LogInv(b)'
    BY <1>1, <1>2, <1>3, <2>1 DEF LogInv
  <2>. QED
    BY <2>2, <2>5, <2>6
<1>. QED
  BY <1>4, <1>5 DEF CacheInv

\* An address that is not in the cache is asked for; two at once are noted.
LEMMA LookupStep ==
  ASSUME CacheInv, NEW a \in Analyses, Lookup(a)
  PROVE  CacheInv'
<1>. DEFINE ip == Destination(a)
<1>1. /\ TypeOK /\ Enriching(a) /\ ~IsInside(ip) /\ ip \notin DOMAIN cache
      /\ pc' = [pc EXCEPT ![a] = "lookup"]
      /\ raced' = IF LookingUp(ip) # {} THEN raced \cup {ip} ELSE raced
      /\ UNCHANGED <<conns, hosts, result, cache>>
  BY DEF Lookup, Goto, CacheInv
<1>2. /\ pc[a] = "enrich" /\ pc'[a] = "lookup" /\ \A b \in Analyses \ {a} : pc'[b] = pc[b]
      /\ Len(hosts[a]) < Len(conns[a])
  BY <1>1 DEF Enriching, TypeOK
<1>3. ip \in Address
  <2>1. conns[a] \in Seq(Connection) /\ hosts[a] \in Seq(Host)
    BY <1>1 DEF TypeOK
  <2>2. Len(hosts[a]) + 1 \in DOMAIN conns[a]
    BY <1>2, <2>1
  <2>3. conns[a][Len(hosts[a]) + 1] \in Connection
    BY <2>1, <2>2
  <2>4. ip \in Address \cup {Unset}
    BY <2>3 DEF Connection, Destination
  <2>. QED
    BY <1>1, <2>4 DEF IsInside
<1>4. \A b \in Analyses : Destination(b)' = Destination(b)
  BY <1>1 DEF Destination
<1>. HIDE DEF ip
<1>5. TypeOK'
  BY <1>1, <1>3 DEF TypeOK
<1>6. ASSUME NEW b \in Analyses
      PROVE  (NamedFromCache(b) /\ LookupInv(b) /\ LogInv(b))'
  <2>1. NamedFromCache(b) /\ LookupInv(b) /\ LogInv(b)
    BY DEF CacheInv
  <2>2. NamedFromCache(b)'
    BY <1>1, <2>1 DEF NamedFromCache
  <2>3. LookupInv(b)'
    <3>1. CASE b = a
      <4>1. SUFFICES ASSUME ip \notin raced' PROVE LookingUp(ip)' = {a}
        BY <1>1, <1>2, <1>4, <3>1 DEF LookupInv, ip
      <4>2. LookingUp(ip) = {}
        BY <1>1, <4>1
      <4>. QED
        BY <1>2, <1>4, <4>2 DEF LookingUp, ip
    <3>2. CASE b # a
      <4>1. SUFFICES ASSUME pc[b] = "lookup", Destination(b) \notin raced'
                     PROVE  LookingUp(Destination(b))' = {b}
        BY <1>1, <1>2, <1>4, <2>1, <3>2 DEF LookupInv
      <4>2. LookingUp(Destination(b)) = {b} /\ Destination(b) \notin raced
        BY <1>1, <2>1, <4>1 DEF LookupInv
      <4>3. Destination(b) # ip
        BY <1>1, <4>1, <4>2
      <4>. QED
        BY <1>2, <1>4, <4>1, <4>2, <4>3 DEF LookingUp, ip
    <3>. QED
      BY <3>1, <3>2
  <2>4. LogInv(b)'
    BY <1>1, <1>2, <2>1 DEF LogInv
  <2>. QED
    BY <2>2, <2>3, <2>4
<1>. QED
  BY <1>5, <1>6 DEF CacheInv

\* The answer is stored: nobody has used the address, unless two asked at once.
LEMMA ResolvedStep ==
  ASSUME CacheInv, NEW a \in Analyses, Resolved(a)
  PROVE  CacheInv'
<1>. DEFINE ip == Destination(a)
<1>1. PICK host \in Host : cache' = Stored(ip, host) /\ AddHost(a, host)
  BY DEF Resolved
<1>2. /\ TypeOK /\ pc[a] = "lookup" /\ pc' = [pc EXCEPT ![a] = "enrich"]
      /\ UNCHANGED <<conns, result, raced>>
  BY DEF Resolved, Goto, CacheInv
<1>3. Len(hosts[a]) < Len(conns[a]) /\ ~IsInside(ip)
      /\ (ip \notin raced => ip \notin DOMAIN cache /\ LookingUp(ip) = {a})
  BY <1>2 DEF CacheInv, LookupInv
<1>4. /\ hosts' \in [Analyses -> Seq(Host)]
      /\ \A b \in Analyses \ {a} : hosts'[b] = hosts[b]
      /\ Len(hosts'[a]) = Len(hosts[a]) + 1 /\ Len(hosts'[a]) <= Len(conns[a])
      /\ DOMAIN hosts'[a] = DOMAIN hosts[a] \cup {Len(hosts[a]) + 1}
      /\ \A i \in DOMAIN hosts[a] : hosts'[a][i] = hosts[a][i]
      /\ hosts'[a][Len(hosts[a]) + 1] = host
      /\ Len(hosts[a]) + 1 \notin DOMAIN hosts[a]
  BY <1>1, <1>2, <1>3, AddHostType
<1>5. ip \in Address
  <2>1. conns[a] \in Seq(Connection) /\ hosts[a] \in Seq(Host)
    BY <1>2 DEF TypeOK
  <2>2. Len(hosts[a]) + 1 \in DOMAIN conns[a]
    BY <1>3, <2>1
  <2>3. conns[a][Len(hosts[a]) + 1] \in Connection
    BY <2>1, <2>2
  <2>4. ip \in Address \cup {Unset}
    BY <2>3 DEF Connection, Destination
  <2>. QED
    BY <1>3, <2>4 DEF IsInside
<1>6. /\ DOMAIN cache' = DOMAIN cache \cup {ip} /\ cache'[ip] = host
      /\ \A d \in DOMAIN cache \ {ip} : cache'[d] = cache[d]
      /\ cache' \in [DOMAIN cache' -> Host]
  BY <1>1, <1>2 DEF Stored, TypeOK
<1>7. /\ pc'[a] = "enrich" /\ \A b \in Analyses \ {a} : pc'[b] = pc[b]
      /\ \A b \in Analyses \ {a} : Destination(b)' = Destination(b)
  BY <1>2, <1>4 DEF Destination, TypeOK
<1>8. TypeOK'
  BY <1>2, <1>4, <1>5, <1>6 DEF TypeOK
<1>9. ASSUME NEW b \in Analyses
      PROVE  (NamedFromCache(b) /\ LookupInv(b) /\ LogInv(b))'
  <2>1. NamedFromCache(b) /\ LookupInv(b) /\ LogInv(b)
    BY DEF CacheInv
  <2>2. NamedFromCache(b)'
    <3>1. ASSUME NEW i \in DOMAIN hosts[b]
          PROVE  IF IsInside(conns[b][i].dst) THEN hosts[b][i] = NoName
                 ELSE conns[b][i].dst \in DOMAIN cache' /\
                      (conns[b][i].dst \notin raced => hosts[b][i] = cache'[conns[b][i].dst])
      BY <1>3, <1>6, <2>1 DEF NamedFromCache
    <3>2. CASE b # a
      BY <1>2, <1>4, <3>1, <3>2 DEF NamedFromCache
    <3>3. CASE b = a
      <4>1. conns[a][Len(hosts[a]) + 1].dst = ip
        BY DEF Destination
      <4>. HIDE DEF ip
      <4>. QED
        BY <1>2, <1>3, <1>4, <1>6, <3>1, <3>3, <4>1 DEF NamedFromCache
    <3>. QED
      BY <3>2, <3>3
  <2>3. LookupInv(b)'
    <3>1. CASE b = a
      BY <1>7, <3>1 DEF LookupInv
    <3>2. CASE b # a
      <4>1. SUFFICES ASSUME pc[b] = "lookup", Destination(b) \notin raced
                     PROVE  /\ Destination(b) \notin DOMAIN cache'
                            /\ LookingUp(Destination(b))' = {b}
        BY <1>2, <1>4, <1>7, <2>1, <3>2 DEF LookupInv
      <4>2. LookingUp(Destination(b)) = {b} /\ Destination(b) \notin DOMAIN cache
        BY <2>1, <4>1 DEF LookupInv
      <4>3. Destination(b) # ip
        BY <1>2, <3>2, <4>2 DEF LookingUp
      <4>. QED
        BY <1>6, <1>7, <3>2, <4>1, <4>2, <4>3 DEF LookingUp
    <3>. QED
      BY <3>1, <3>2
  <2>4. LogInv(b)'
    BY <1>2, <1>4, <1>7, <2>1 DEF LogInv
  <2>. QED
    BY <2>2, <2>3, <2>4
<1>. QED
  BY <1>8, <1>9 DEF CacheInv

\* The log is read, or everything has a name.
LEMMA OtherStep ==
  ASSUME CacheInv, NEW a \in Analyses, ReadLog(a) \/ Calculate(a)
  PROVE  CacheInv'
<1>0. TypeOK /\ UNCHANGED <<hosts, cache, raced>>
  BY DEF CacheInv, ReadLog, Calculate
<1>1. /\ pc[a] # "lookup" /\ pc'[a] # "lookup" /\ pc'[a] # "log"
      /\ \A b \in Analyses \ {a} : pc'[b] = pc[b] /\ conns'[b] = conns[b]
      /\ pc' \in [Analyses -> {"log", "enrich", "lookup", "end"}]
      /\ hosts[a] = <<>> \/ conns'[a] = conns[a]
  BY <1>0 DEF ReadLog, Calculate, Goto, CacheInv, LogInv, TypeOK
<1>2. conns' \in [Analyses -> Seq(Connection)] /\ Len(hosts[a]) <= Len(conns'[a])
  <2>1. CASE ReadLog(a)
    <3>0. PICK n \in 0..(MaxRows - Used) : \E rows \in [1..n -> Rows] :
            conns' = [conns EXCEPT ![a] = [i \in 1..n |-> Parse(rows[i])]]
      BY <2>1 DEF ReadLog
    <3>1. PICK rows \in [1..n -> Rows] :
            conns' = [conns EXCEPT ![a] = [i \in 1..n |-> Parse(rows[i])]]
      BY <3>0
    <3>. DEFINE all == [i \in 1..n |-> Parse(rows[i])]
    <3>2. n \in Nat
      OBVIOUS
    <3>3. all \in Seq(Connection) /\ Len(all) = n
      BY <3>2, ParseType
    <3>4. conns' = [conns EXCEPT ![a] = all]
      BY <3>1
    <3>. HIDE DEF all
    <3>5. hosts[a] = <<>>
      BY <2>1 DEF ReadLog, CacheInv, LogInv
    <3>. QED
      BY <1>0, <3>2, <3>3, <3>4, <3>5 DEF TypeOK
  <2>2. CASE Calculate(a)
    BY <1>0, <2>2 DEF Calculate, TypeOK
  <2>. QED
    BY <2>1, <2>2
<1>3. DOMAIN result' = Analyses
  BY <1>0 DEF ReadLog, Calculate, TypeOK
<1>4. TypeOK'
  BY <1>0, <1>1, <1>2, <1>3 DEF TypeOK
<1>5. ASSUME NEW b \in Analyses
      PROVE  (NamedFromCache(b) /\ LookupInv(b) /\ LogInv(b))'
  <2>1. NamedFromCache(b) /\ LookupInv(b) /\ LogInv(b)
    BY DEF CacheInv
  <2>2. \A ip : LookingUp(ip)' = LookingUp(ip)
    BY <1>0, <1>1 DEF LookingUp, Destination
  <2>3. NamedFromCache(b)'
    BY <1>0, <1>1, <2>1 DEF NamedFromCache
  <2>4. LookupInv(b)' /\ LogInv(b)'
    BY <1>0, <1>1, <2>1, <2>2 DEF LookupInv, LogInv, Destination
  <2>. QED
    BY <2>3, <2>4
<1>. QED
  BY <1>4, <1>5 DEF CacheInv

\* The inductive invariant of the enrichment.
THEOREM CacheInvariant == Spec => []CacheInv
<1>1. CacheInv /\ [Next]_vars => CacheInv'
  <2>1. CacheInv /\ UNCHANGED vars => CacheInv'
    BY DEF vars, CacheInv, TypeOK, NamedFromCache, LookupInv, LogInv, LookingUp, Destination
  <2>. QED
    BY <2>1, NamedStep, LookupStep, ResolvedStep, OtherStep DEF Next
<1>. QED
  BY <1>1, InitCacheInv, PTL DEF Spec

\* Threads, connections, names and cache are well formed.
THEOREM TypeCorrect == Spec => []TypeOK
BY CacheInvariant, PTL DEF CacheInv

\* The connections to an address have the same host name in all files, unless two
\* analyses looked it up at once (_dns_cache).
THEOREM OneNamePerAddress == Spec => []NamesAgree
<1>1. CacheInv => NamesAgree
  BY DEF CacheInv, NamedFromCache, NamesAgree
<1>. QED
  BY <1>1, CacheInvariant, PTL

-----------------------------------------------------------------------------
(* Induction over natural numbers and finite sets. *)

\* A set of naturals that is not empty has a least element.
LEMMA LeastNat ==
  ASSUME NEW T \in SUBSET Nat, T # {}
  PROVE  \E m \in T : \A k \in T : m <= k
<1>. DEFINE R == OpToRel(<, Nat)
<1>1. IsWellFoundedOn(R, Nat)
  BY NatLessThanWellFounded
<1>2. \A x, y \in Nat : x < y => <<x, y>> \in R
  BY DEF OpToRel
<1>. HIDE DEF R
<1>3. \E x \in T : \A y \in T : ~ (<<y, x>> \in R)
  BY <1>1, WFMin
<1>4. PICK m \in T : \A y \in T : ~(<<y, m>> \in R)
  BY <1>3
<1>5. \A k \in T : ~(k < m)
  BY <1>2, <1>4
<1>. QED
  BY <1>5

\* Induction, for the elements of a set.
LEMMA SetInduction ==
  ASSUME NEW T, 0 \in T, \A n \in Nat : n \in T => n + 1 \in T
  PROVE  Nat \subseteq T
<1>. DEFINE U == Nat \ T
<1>. SUFFICES ASSUME U # {} PROVE FALSE
  OBVIOUS
<1>1. U \in SUBSET Nat
  OBVIOUS
<1>2. PICK m \in U : \A k \in U : m <= k
  BY <1>1, LeastNat
<1>3. m # 0 /\ m - 1 \in Nat /\ m - 1 \notin U
  BY <1>2
<1>. QED
  BY <1>3

\* Induction over the subsets of a finite set.
Hereditary(T, S) == \A s \in SUBSET S : (\A x \in s : s \ {x} \in T) => s \in T

\* A set of subsets of S that has a subset when it has all that lack one of its
\* elements has all of them.
LEMMA SubsetInduction ==
  ASSUME NEW S, IsFiniteSet(S), NEW T, Hereditary(T, S)
  PROVE  SUBSET S \subseteq T
<1>. USE DEF Hereditary
<1>. DEFINE N == {n \in Nat : \A s \in SUBSET S : Cardinality(s) = n => s \in T}
<1>1. \A s \in SUBSET S : IsFiniteSet(s) /\ Cardinality(s) \in Nat
  BY FS_Subset, FS_CardinalityType
<1>2. 0 \in N
  BY <1>1, FS_EmptySet
<1>3. ASSUME NEW n \in Nat, n \in N PROVE n + 1 \in N
  <2>1. ASSUME NEW s \in SUBSET S, Cardinality(s) = n + 1 PROVE s \in T
    <3>1. ASSUME NEW x \in s PROVE s \ {x} \in T
      <4>1. s \ {x} \in SUBSET S /\ Cardinality(s \ {x}) = n
        <5>1. IsFiniteSet(s)
          BY <1>1
        <5>2. Cardinality(s \ {x}) = Cardinality(s) - 1
          BY <3>1, <5>1, FS_RemoveElement
        <5>. QED
          BY <2>1, <5>2
      <4>. QED
        BY <1>3, <4>1
    <3>. QED
      BY <3>1
  <2>. QED
    BY <2>1
<1>4. Nat \subseteq N
  <2>. HIDE DEF N
  <2>. QED
    BY <1>2, <1>3, SetInduction
<1>. QED
  BY <1>1, <1>4

\* Taking the elements of a finite set one by one, a function of its subsets is
\* defined by what it adds for each.
Picks(pick, S) == \A s \in SUBSET S : s # {} => pick[s] \in s
Steps(step, S, V) == \A x \in S, v \in V : step[<<x, v>>] \in V
Follows(g, S, base, pick, step) ==
  \A s \in SUBSET S : g[s] = IF s = {} THEN base ELSE step[<<pick[s], g[s \ {pick[s]}]>>]

\* Whichever element is picked each time, such a function exists.
LEMMA Recursion ==
  ASSUME NEW S, IsFiniteSet(S), NEW V, NEW base \in V,
         NEW pick, Picks(pick, S), NEW step, Steps(step, S, V)
  PROVE  \E g \in [SUBSET S -> V] : Follows(g, S, base, pick, step)
<1>. USE DEF Picks, Steps, Follows
<1>. DEFINE Rhs(g, s) == IF s = {} THEN base ELSE step[<<pick[s], g[s \ {pick[s]}]>>]
            Upto(n) == {s \in SUBSET S : Cardinality(s) <= n}
            T == {n \in Nat : \E g \in [SUBSET S -> V] : \A s \in Upto(n) : g[s] = Rhs(g, s)}
<1>1. \A s \in SUBSET S : IsFiniteSet(s) /\ Cardinality(s) \in Nat /\ Cardinality(s) <= Cardinality(S)
  BY FS_Subset, FS_CardinalityType
<1>2. \A s \in SUBSET S : s # {} => /\ s \ {pick[s]} \in SUBSET S
                                    /\ Cardinality(s \ {pick[s]}) = Cardinality(s) - 1
  BY <1>1, FS_RemoveElement
<1>3. 0 \in T
  <2>1. [s \in SUBSET S |-> base] \in [SUBSET S -> V]
    OBVIOUS
  <2>2. \A s \in Upto(0) : s = {}
    BY <1>1, FS_EmptySet
  <2>. QED
    BY <2>1, <2>2
<1>4. ASSUME NEW n \in Nat, n \in T PROVE n + 1 \in T
  <2>1. PICK g \in [SUBSET S -> V] : \A s \in Upto(n) : g[s] = Rhs(g, s)
    BY <1>4
  <2>2. \A s \in SUBSET S : Rhs(g, s) \in V
    BY <1>2
  <2>. DEFINE h == [s \in SUBSET S |-> IF s \in Upto(n) THEN g[s] ELSE Rhs(g, s)]
  <2>3. h \in [SUBSET S -> V]
    BY <2>2
  <2>4. \A s \in SUBSET S : h[s] = Rhs(g, s)
    BY <2>1
  <2>5. ASSUME NEW s \in Upto(n + 1) PROVE Rhs(g, s) = Rhs(h, s)
    <3>1. CASE s = {}
      BY <3>1
    <3>2. CASE s # {}
      <4>1. s \ {pick[s]} \in Upto(n)
        BY <1>1, <1>2, <3>2
      <4>2. h[s \ {pick[s]}] = g[s \ {pick[s]}]
        BY <4>1
      <4>. QED
        BY <4>2
    <3>. QED
      BY <3>1, <3>2
  <2>6. \A s \in Upto(n + 1) : h[s] = Rhs(h, s)
    BY <2>4, <2>5
  <2>. HIDE DEF h, Rhs, Upto
  <2>. QED
    BY <2>3, <2>6
<1>. HIDE DEF T
<1>5. Cardinality(S) \in T
  BY <1>1, <1>3, <1>4, SetInduction
<1>6. PICK g \in [SUBSET S -> V] : \A s \in Upto(Cardinality(S)) : g[s] = Rhs(g, s)
  BY <1>5 DEF T
<1>7. \A s \in SUBSET S : s \in Upto(Cardinality(S))
  BY <1>1
<1>. QED
  BY <1>6, <1>7

-----------------------------------------------------------------------------
(* Sums over finite sets: what the fold of the library computes. *)

\* The element that the library takes out of a set.
Picked(s) == CHOOSE x \in s : TRUE

\* The partial sums that SumFunctionOnSet goes through.
Partial(f, S) ==
  CHOOSE iter : iter = [s \in SUBSET S |->
    IF s = {} THEN 0
    ELSE f[Picked(s)] + iter[s \ {Picked(s)}]]

\* The sum is the last of them.
LEMMA SumIsPartial ==
  ASSUME NEW f, NEW S
  PROVE  SumFunctionOnSet(f, S) = Partial(f, S)[S]
BY Zenon DEF SumFunctionOnSet, FoldFunctionOnSet, MapThenFoldSet, Partial, Picked

\* f gives a natural number to each element of the finite set S.
Summable(f, S) == IsFiniteSet(S) /\ \A x \in S : f[x] \in Nat

\* p adds f over the subsets of S, one element at a time.
Adds(p, f, S) ==
  \A s \in SUBSET S : p[s] = IF s = {} THEN 0 ELSE f[Picked(s)] + p[s \ {Picked(s)}]

\* The partial sums are natural numbers that add one element each.
LEMMA Partials ==
  ASSUME NEW S, NEW f, Summable(f, S)
  PROVE  /\ Partial(f, S) \in [SUBSET S -> Nat]
         /\ Adds(Partial(f, S), f, S)
<1>. USE DEF Summable
<1>. DEFINE pick == [s \in SUBSET S |-> Picked(s)]
            step == [p \in S \X Nat |-> f[p[1]] + p[2]]
            Is(g) == g = [s \in SUBSET S |->
                            IF s = {} THEN 0
                            ELSE f[Picked(s)] + g[s \ {Picked(s)}]]
<1>1. \A s \in SUBSET S : s # {} => pick[s] \in s
  BY DEF Picked
<1>2. \A x \in S, v \in Nat : step[<<x, v>>] \in Nat /\ step[<<x, v>>] = f[x] + v
  OBVIOUS
<1>. HIDE DEF step
<1>3. PICK g \in [SUBSET S -> Nat] : Follows(g, S, 0, pick, step)
  <2>1. Picks(pick, S) /\ Steps(step, S, Nat) /\ 0 \in Nat
    BY <1>1, <1>2 DEF Picks, Steps
  <2>. HIDE DEF pick
  <2>. QED
    BY <2>1, Recursion
<1>4. \A s \in SUBSET S : g[s] = IF s = {} THEN 0 ELSE f[pick[s]] + g[s \ {pick[s]}]
  <2>1. ASSUME NEW s \in SUBSET S, s # {}
        PROVE  step[<<pick[s], g[s \ {pick[s]}]>>] = f[pick[s]] + g[s \ {pick[s]}]
    <3>. HIDE DEF pick
    <3>1. pick[s] \in S /\ g[s \ {pick[s]}] \in Nat
      BY <1>1, <2>1
    <3>. QED
      BY <1>2, <3>1
  <2>. HIDE DEF pick
  <2>. QED
    BY <1>3, <2>1 DEF Follows
<1>5. \A s \in SUBSET S : g[s] = IF s = {} THEN 0
         ELSE f[Picked(s)] + g[s \ {Picked(s)}]
  BY <1>4
<1>6. Is(g)
  BY <1>3, <1>5 DEF Follows
<1>7. Is(Partial(f, S))
  <2>. HIDE DEF Is
  <2>1. Is(CHOOSE iter : Is(iter))
    BY <1>6
  <2>. QED
    BY <2>1 DEF Partial, Is
<1>8. \A s \in SUBSET S : Partial(f, S)[s] =
         IF s = {} THEN 0
         ELSE f[Picked(s)] + Partial(f, S)[s \ {Picked(s)}]
  <2>. DEFINE p == Partial(f, S)
  <2>1. Is(p)
    BY <1>7
  <2>. HIDE DEF p
  <2>2. \A s \in SUBSET S : p[s] = IF s = {} THEN 0 ELSE f[Picked(s)] + p[s \ {Picked(s)}]
    BY <2>1
  <2>. QED
    BY <2>2 DEF p
<1>9. SUBSET S \subseteq {s \in SUBSET S : Partial(f, S)[s] = g[s]}
  <2>. DEFINE T == {s \in SUBSET S : Partial(f, S)[s] = g[s]}
  <2>1. ASSUME NEW s \in SUBSET S, \A x \in s : s \ {x} \in T PROVE s \in T
    BY <1>5, <1>8, <2>1 DEF Picked
  <2>2. Hereditary(T, S)
    BY <2>1 DEF Hereditary
  <2>. HIDE DEF T
  <2>3. SUBSET S \subseteq T
    BY <2>2, SubsetInduction
  <2>. QED
    BY <2>3 DEF T
<1>10. Partial(f, S) = [s \in SUBSET S |-> Partial(f, S)[s]]
  <2>. HIDE DEF Is
  <2>. DEFINE p == Partial(f, S)
  <2>1. Is(p)
    BY <1>7
  <2>. HIDE DEF p
  <2>2. p = [s \in SUBSET S |-> p[s]]
    BY <2>1 DEF Is
  <2>. QED
    BY <2>2 DEF p
<1>11. Partial(f, S) \in [SUBSET S -> Nat]
  BY <1>3, <1>9, <1>10
<1>. QED
  BY <1>8, <1>11 DEF Adds

\* The same sum comes from equal functions.
LEMMA PartialsAgree ==
  ASSUME NEW S, NEW f, Summable(f, S), NEW R, NEW h, Summable(h, R),
         NEW U, U \subseteq S, U \subseteq R, \A x \in U : f[x] = h[x]
  PROVE  Partial(f, S)[U] = Partial(h, R)[U]
<1>. DEFINE T == {s \in SUBSET U : Partial(f, S)[s] = Partial(h, R)[s]}
<1>1. Hereditary(T, U)
  <2>. SUFFICES ASSUME NEW s \in SUBSET U, \A x \in s : s \ {x} \in T PROVE s \in T
    BY DEF Hereditary
  <2>0. s \in SUBSET S /\ s \in SUBSET R /\ (s # {} => Picked(s) \in s /\ f[Picked(s)] = h[Picked(s)])
    BY DEF Picked
  <2>. Adds(Partial(f, S), f, S) /\ Adds(Partial(h, R), h, R)
    BY Partials
  <2>1. /\ Partial(f, S)[s] = IF s = {} THEN 0
              ELSE f[Picked(s)] + Partial(f, S)[s \ {Picked(s)}]
        /\ Partial(h, R)[s] = IF s = {} THEN 0
              ELSE h[Picked(s)] + Partial(h, R)[s \ {Picked(s)}]
    BY <2>0 DEF Adds
  <2>. QED
    BY <2>0, <2>1
<1>2. IsFiniteSet(U)
  BY FS_Subset DEF Summable
<1>. HIDE DEF T
<1>3. SUBSET U \subseteq T
  BY <1>1, <1>2, SubsetInduction
<1>. QED
  BY <1>3 DEF T

\* A sum is a natural number, 0 over the empty set.
LEMMA SumType ==
  ASSUME NEW S, NEW f, Summable(f, S)
  PROVE  SumFunctionOnSet(f, S) \in Nat /\ (S = {} => SumFunctionOnSet(f, S) = 0)
<1>1. S \in SUBSET S
  OBVIOUS
<1>2. Partial(f, S)[S] \in Nat /\ (S = {} => Partial(f, S)[S] = 0)
  <2>1. Partial(f, S) \in [SUBSET S -> Nat] /\ Adds(Partial(f, S), f, S)
    BY Partials
  <2>. QED
    BY <2>1 DEF Adds
<1>. QED
  BY <1>2, SumIsPartial

\* It depends on the elements only.
LEMMA SumSame ==
  ASSUME NEW S, NEW f, Summable(f, S),
         NEW h, \A x \in S : f[x] = h[x]
  PROVE  SumFunctionOnSet(f, S) = SumFunctionOnSet(h, S)
BY PartialsAgree, SumIsPartial DEF Summable

\* Any element may be taken out of it.
LEMMA SumStep ==
  ASSUME NEW S, NEW f, Summable(f, S), NEW y \in S
  PROVE  SumFunctionOnSet(f, S) = f[y] + SumFunctionOnSet(f, S \ {y})
<1>. DEFINE Of(s) == SumFunctionOnSet(f, s)
            T == {s \in SUBSET S : \A x \in s : Of(s) = f[x] + Of(s \ {x})}
<1>1. ASSUME NEW s \in SUBSET S PROVE Summable(f, s) /\ Of(s) \in Nat
  <2>1. Summable(f, s)
    BY FS_Subset DEF Summable
  <2>. QED
    BY <2>1, SumType
<1>2. ASSUME NEW s \in SUBSET S, s # {}
      PROVE  \E c \in s : Of(s) = f[c] + Of(s \ {c})
  <2>1. PICK c : c = Picked(s)
    OBVIOUS
  <2>2. c \in s /\ s \ {c} \in SUBSET S /\ Summable(f, s) /\ Summable(f, s \ {c})
    BY <1>1, <1>2, <2>1 DEF Picked
  <2>3. Partial(f, s)[s] = f[c] + Partial(f, s)[s \ {c}]
    <3>1. Adds(Partial(f, s), f, s) /\ s \in SUBSET s
      BY <2>2, Partials
    <3>. QED
      BY <1>2, <2>1, <3>1 DEF Adds
  <2>4. Partial(f, s)[s \ {c}] = Of(s \ {c})
    BY <2>2, PartialsAgree, SumIsPartial
  <2>. QED
    BY <2>2, <2>3, <2>4, SumIsPartial
<1>3. ASSUME NEW s \in SUBSET S, \A x \in s : s \ {x} \in T, NEW x \in s
      PROVE  Of(s) = f[x] + Of(s \ {x})
  <2>1. PICK c \in s : Of(s) = f[c] + Of(s \ {c})
    BY <1>2, <1>3
  <2>2. CASE c = x
    BY <2>1, <2>2
  <2>3. CASE c # x
    <3>1. Of(s \ {c}) = f[x] + Of((s \ {c}) \ {x})
      BY <1>3, <2>1, <2>3
    <3>2. Of(s \ {x}) = f[c] + Of((s \ {x}) \ {c})
      BY <1>3, <2>1, <2>3
    <3>3. Of((s \ {x}) \ {c}) = Of((s \ {c}) \ {x})
      <4>1. (s \ {x}) \ {c} = (s \ {c}) \ {x}
        OBVIOUS
      <4>. QED
        BY <4>1
    <3>4. f[c] \in Nat /\ f[x] \in Nat /\ Of((s \ {x}) \ {c}) \in Nat
      BY <1>1, <2>1 DEF Summable
    <3>. HIDE DEF Of
    <3>. QED
      BY <2>1, <3>1, <3>2, <3>3, <3>4
  <2>. QED
    BY <2>2, <2>3
<1>4. SUBSET S \subseteq T
  <2>1. Hereditary(T, S)
    BY <1>3 DEF Hereditary
  <2>2. IsFiniteSet(S)
    BY DEF Summable
  <2>. HIDE DEF T
  <2>. QED
    BY <2>1, <2>2, SubsetInduction
<1>. QED
  BY <1>4

\* A value that is put in for y replaces the one that was there.
LEMMA SumPut ==
  ASSUME NEW S, NEW f, Summable(f, S), NEW y, NEW h, Summable(h, S \cup {y}),
         \A x \in S \ {y} : h[x] = f[x]
  PROVE  SumFunctionOnSet(h, S \cup {y}) + (IF y \in S THEN f[y] ELSE 0)
           = SumFunctionOnSet(f, S) + h[y]
<1>. DEFINE rest == S \ {y}
<1>1. Summable(f, rest) /\ (S \cup {y}) \ {y} = rest /\ IsFiniteSet(rest)
  BY FS_RemoveElement DEF Summable
<1>2. SumFunctionOnSet(h, S \cup {y}) = h[y] + SumFunctionOnSet(h, rest)
  BY <1>1, SumStep
<1>3. SumFunctionOnSet(h, rest) = SumFunctionOnSet(f, rest)
  BY <1>1, SumSame
<1>4. SumFunctionOnSet(f, rest) \in Nat /\ h[y] \in Nat
  BY <1>1, SumType DEF Summable
<1>5. CASE y \in S
  <2>1. SumFunctionOnSet(f, S) = f[y] + SumFunctionOnSet(f, rest) /\ f[y] \in Nat
    BY <1>5, SumStep DEF Summable
  <2>. HIDE DEF rest
  <2>. QED
    BY <1>2, <1>3, <1>4, <1>5, <2>1
<1>6. CASE y \notin S
  <2>1. rest = S
    BY <1>6
  <2>. HIDE DEF rest
  <2>. QED
    BY <1>2, <1>3, <1>4, <1>6, <2>1
<1>. QED
  BY <1>5, <1>6

\* Fewer elements have a smaller sum.
LEMMA SumSubset ==
  ASSUME NEW S, NEW f, Summable(f, S), NEW U, U \subseteq S
  PROVE  Summable(f, U) /\ SumFunctionOnSet(f, U) <= SumFunctionOnSet(f, S)
<1>. DEFINE T == {s \in SUBSET S : SumFunctionOnSet(f, s \cap U) <= SumFunctionOnSet(f, s)}
<1>1. \A s \in SUBSET S : Summable(f, s) /\ SumFunctionOnSet(f, s) \in Nat
  <2>1. ASSUME NEW s \in SUBSET S PROVE Summable(f, s)
    BY FS_Subset DEF Summable
  <2>. QED
    BY <2>1, SumType
<1>2. ASSUME NEW s \in SUBSET S, \A x \in s : s \ {x} \in T PROVE s \in T
  <2>0. s \cap U \in SUBSET S /\ SumFunctionOnSet(f, s \cap U) \in Nat /\ SumFunctionOnSet(f, s) \in Nat
    BY <1>1
  <2>1. CASE s \cap U = s
    BY <2>0, <2>1
  <2>2. CASE s \cap U # s
    <3>1. PICK x \in s : x \notin U
      BY <2>2
    <3>2. (s \ {x}) \cap U = s \cap U
      BY <3>1
    <3>3. SumFunctionOnSet(f, s) = f[x] + SumFunctionOnSet(f, s \ {x})
      BY <1>1, <3>1, SumStep
    <3>4. f[x] \in Nat /\ SumFunctionOnSet(f, s \ {x}) \in Nat
      BY <1>1, <3>1 DEF Summable
    <3>5. SumFunctionOnSet(f, s \cap U) <= SumFunctionOnSet(f, s \ {x})
      BY <1>2, <3>1, <3>2
    <3>. QED
      BY <2>0, <3>3, <3>4, <3>5
  <2>. QED
    BY <2>1, <2>2
<1>3. Hereditary(T, S) /\ IsFiniteSet(S)
  BY <1>2 DEF Hereditary, Summable
<1>4. SUBSET S \subseteq T
  <2>. HIDE DEF T
  <2>. QED
    BY <1>3, SubsetInduction
<1>5. S \in T /\ S \cap U = U
  BY <1>4
<1>. QED
  BY <1>1, <1>5

\* Elements that are large have a large sum.
LEMMA SumAtLeast ==
  ASSUME NEW S, NEW f, Summable(f, S), NEW n \in Nat, NEW c \in Nat,
         \A x \in S : f[x] * n >= c
  PROVE  SumFunctionOnSet(f, S) * n >= Cardinality(S) * c
<1>. DEFINE T == {s \in SUBSET S : SumFunctionOnSet(f, s) * n >= Cardinality(s) * c}
<1>1. ASSUME NEW s \in SUBSET S
      PROVE  Summable(f, s) /\ SumFunctionOnSet(f, s) \in Nat /\ Cardinality(s) \in Nat
  <2>1. Summable(f, s)
    BY FS_Subset DEF Summable
  <2>. QED
    BY <2>1, SumType, FS_CardinalityType DEF Summable
<1>2. ASSUME NEW s \in SUBSET S, \A x \in s : s \ {x} \in T PROVE s \in T
  <2>1. CASE s = {}
    BY <1>1, <2>1, SumType, FS_EmptySet
  <2>2. CASE s # {}
    <3>1. PICK x \in s : TRUE
      BY <2>2
    <3>2. PICK a, b, m : a = f[x] /\ b = SumFunctionOnSet(f, s \ {x}) /\ m = Cardinality(s \ {x})
      OBVIOUS
    <3>3. a \in Nat /\ b \in Nat /\ m \in Nat
      BY <1>1, <3>2 DEF Summable
    <3>4. SumFunctionOnSet(f, s) = a + b
      BY <1>1, <3>1, <3>2, SumStep
    <3>5. Cardinality(s) = m + 1
      <4>1. IsFiniteSet(s)
        BY <1>1 DEF Summable
      <4>2. m = Cardinality(s) - 1
        BY <3>1, <3>2, <4>1, FS_RemoveElement
      <4>. QED
        BY <1>1, <4>2
    <3>6. b * n >= m * c /\ a * n >= c
      BY <1>2, <3>1, <3>2
    <3>7. (a + b) * n = a * n + b * n /\ (m + 1) * c = m * c + c
      BY <3>3
    <3>8. (a + b) * n >= (m + 1) * c
      <4>1. a * n \in Nat /\ b * n \in Nat /\ m * c \in Nat
        BY <3>3
      <4>. QED
        BY <3>6, <3>7, <4>1
    <3>. QED
      BY <3>4, <3>5, <3>8
  <2>. QED
    BY <2>1, <2>2
<1>3. Hereditary(T, S) /\ IsFiniteSet(S)
  BY <1>2 DEF Hereditary, Summable
<1>4. SUBSET S \subseteq T
  <2>. HIDE DEF T
  <2>. QED
    BY <1>3, SubsetInduction
<1>. QED
  BY <1>4

\* The last element of a set of places of a sequence.
Tops(S) == [s \in SUBSET S |-> Max(s)]

\* The library's maximum is one.
LEMMA MaxOf ==
  ASSUME NEW n \in Nat, NEW s \in SUBSET (1..n), s # {}
  PROVE  Max(s) \in s /\ \A k \in s : Max(s) >= k
<1>. DEFINE T == {n - k : k \in s}
<1>0. \A k \in s : k \in Int /\ n - k \in Nat
  OBVIOUS
<1>1. T \in SUBSET Nat /\ T # {}
  BY <1>0
<1>2. PICK m \in T : \A k \in T : m <= k
  BY <1>1, LeastNat
<1>3. PICK x \in s : m = n - x
  BY <1>2
<1>4. \A k \in s : x >= k
  BY <1>2, <1>3
<1>. QED
  BY <1>4 DEF Max

\* The places of a sequence of length n.
Places(n) == 1..n

\* Folding over a sequence goes through its prefixes.
Through(D, n, base, step) == D[0] = base /\ \A k \in Places(n) : D[k] = step[<<k, D[k - 1]>>]

Folds(n, V, base, step) ==
  \E g \in [SUBSET Places(n) -> V] : \E D \in [0..n -> V] :
    /\ Follows(g, Places(n), base, Tops(Places(n)), step)
    /\ Through(D, n, base, step) /\ g[Places(n)] = D[n]

\* A fold over a sequence of length n takes n steps, which begin with base.
LEMMA FoldSteps ==
  ASSUME NEW n \in Nat, NEW V, NEW base \in V, NEW step, Steps(step, Places(n), V)
  PROVE  Folds(n, V, base, step)
<1>. USE DEF Folds
<1>1. IsFiniteSet(Places(n))
  BY FS_Interval DEF Places
<1>2. Picks(Tops(Places(n)), Places(n))
  BY MaxOf DEF Places, Picks, Tops
<1>3. PICK g \in [SUBSET Places(n) -> V] : Follows(g, Places(n), base, Tops(Places(n)), step)
  BY <1>1, <1>2, Recursion
<1>. DEFINE path == [k \in 0..n |-> g[1..k]]
<1>4. path \in [0..n -> V] /\ g[Places(n)] = path[n]
  BY DEF Places
<1>5. path[0] = base
  <2>1. (1..0) = {} /\ {} \in SUBSET Places(n) /\ path[0] = g[1..0]
    OBVIOUS
  <2>. QED
    BY <1>3, <2>1 DEF Follows
<1>6. ASSUME NEW k \in Places(n) PROVE path[k] = step[<<k, path[k - 1]>>]
  <2>1. (1..k) \in SUBSET Places(n) /\ (1..k) # {} /\ (1..k) \ {k} = 1..(k - 1)
    BY DEF Places
  <2>2. Tops(Places(n))[1..k] = k
    <3>0. PICK s : s = 1..k
      OBVIOUS
    <3>1. Max(s) \in s /\ \A i \in s : Max(s) >= i
      <4>1. s \in SUBSET (1..n) /\ s # {}
        BY <2>1, <3>0 DEF Places
      <4>. QED
        BY <4>1, MaxOf
    <3>2. Max(1..k) = k
      BY <2>1, <3>0, <3>1 DEF Places
    <3>. QED
      BY <2>1, <3>2 DEF Tops
  <2>3. g[1..k] = step[<<k, g[1..(k - 1)]>>]
    BY <1>3, <2>1, <2>2 DEF Follows
  <2>4. k \in 0..n /\ k - 1 \in 0..n
    BY DEF Places
  <2>. QED
    BY <2>3, <2>4
<1>7. Through(path, n, base, step)
  BY <1>5, <1>6 DEF Through
<1>. HIDE DEF path
<1>. QED
  BY <1>3, <1>4, <1>7

-----------------------------------------------------------------------------
(* The metrics of the devices. *)

\* The metrics of a device, which are zero before it has an entry.
Metrics == [in : Nat, out : Nat, retransmissions : Nat, failed : Nat,
            destinations : SUBSET (Address \cup {Unset}), total : Nat]
Devices == UNION {[ips -> Metrics] : ips \in SUBSET Address}
MetricsOf(devices, ip) == IF ip \in DOMAIN devices THEN devices[ip] ELSE Zero
Put(devices, ip, change) ==
  [d \in DOMAIN devices \cup {ip} |-> IF d = ip THEN change ELSE devices[d]]

\* The metrics of a device are of their type, with or without an entry.
LEMMA DevicesType ==
  ASSUME NEW devices \in Devices
  PROVE  /\ DOMAIN devices \subseteq Address /\ devices \in [DOMAIN devices -> Metrics]
         /\ \A ip : MetricsOf(devices, ip) \in Metrics
<1>1. PICK ips \in SUBSET Address : devices \in [ips -> Metrics]
  BY DEF Devices
<1>2. Zero \in Metrics
  BY DEF Zero, Metrics
<1>. QED
  BY <1>1, <1>2 DEF MetricsOf

\* Putting metrics in for an address keeps the type.
LEMMA PutType ==
  ASSUME NEW devices \in Devices, NEW ip \in Address, NEW change \in Metrics
  PROVE  Put(devices, ip, change) \in Devices
<1>1. DOMAIN devices \cup {ip} \in SUBSET Address
  BY DevicesType
<1>2. Put(devices, ip, change) \in [DOMAIN devices \cup {ip} -> Metrics]
  BY DevicesType DEF Put
<1>. QED
  BY <1>1, <1>2 DEF Devices

\* What a connection adds at its ends.
Sent(m, conn) ==
  [in |-> m.in + conn.resp, out |-> m.out + conn.orig, total |-> m.total + Bytes(conn),
   retransmissions |-> m.retransmissions + One(conn.missed > 0),
   failed |-> m.failed + One(conn.failed), destinations |-> m.destinations \cup {conn.dst}]
Received(m, conn) ==
  [m EXCEPT !.in = @ + conn.orig, !.out = @ + conn.resp, !.total = @ + Bytes(conn)]

\* AsSource puts in what the source sent.
LEMMA AsSourcePuts ==
  ASSUME NEW devices, NEW conn
  PROVE  AsSource(devices, conn) = Put(devices, conn.src, Sent(MetricsOf(devices, conn.src), conn))
BY DEF AsSource, Updated, Put, Sent, MetricsOf

\* AsDestination puts in what the destination received.
LEMMA AsDestinationPuts ==
  ASSUME NEW devices, NEW conn
  PROVE  AsDestination(devices, conn)
           = Put(devices, conn.dst, Received(MetricsOf(devices, conn.dst), conn))
BY DEF AsDestination, Updated, Put, Received, MetricsOf

\* What a connection adds, field by field.
LEMMA AddedType ==
  ASSUME NEW m \in Metrics, NEW conn \in Connection
  PROVE  /\ Bytes(conn) \in Nat /\ conn.orig \in Nat /\ conn.resp \in Nat
         /\ Bytes(conn) = conn.orig + conn.resp
         /\ m.in \in Nat /\ m.out \in Nat /\ m.total \in Nat /\ m.failed \in Nat
         /\ Sent(m, conn) \in Metrics
         /\ Sent(m, conn).in = m.in + conn.resp /\ Sent(m, conn).out = m.out + conn.orig
         /\ Sent(m, conn).total = m.total + Bytes(conn)
         /\ Sent(m, conn).failed = m.failed + One(conn.failed)
         /\ Received(m, conn) \in Metrics
         /\ Received(m, conn).in = m.in + conn.orig /\ Received(m, conn).out = m.out + conn.resp
         /\ Received(m, conn).total = m.total + Bytes(conn)
         /\ Received(m, conn).failed = m.failed
<1>1. One(TRUE) = 1 /\ One(FALSE) = 0
  BY DEF One
<1>2. (conn.missed > 0) \in BOOLEAN /\ conn.failed \in BOOLEAN
  BY DEF Connection
<1>3. One(conn.missed > 0) \in Nat /\ One(conn.failed) \in Nat
  BY DEF One
<1>4. conn.orig \in Nat /\ conn.resp \in Nat /\ conn.dst \in Address \cup {Unset}
  BY DEF Connection
<1>5. Bytes(conn) \in Nat /\ Bytes(conn) = conn.orig + conn.resp
  BY <1>4 DEF Bytes
<1>6. PICK bytes, missed, failed :
        bytes = Bytes(conn) /\ missed = One(conn.missed > 0) /\ failed = One(conn.failed)
  OBVIOUS
<1>7. bytes \in Nat /\ missed \in Nat /\ failed \in Nat
  BY <1>3, <1>5, <1>6
<1>8. Sent(m, conn) =
        [in |-> m.in + conn.resp, out |-> m.out + conn.orig, total |-> m.total + bytes,
         retransmissions |-> m.retransmissions + missed,
         failed |-> m.failed + failed, destinations |-> m.destinations \cup {conn.dst}]
  BY <1>6 DEF Sent
<1>9. Received(m, conn) =
        [m EXCEPT !.in = @ + conn.orig, !.out = @ + conn.resp, !.total = @ + bytes]
  BY <1>6 DEF Received
<1>10. m.destinations \cup {conn.dst} \in SUBSET (Address \cup {Unset})
  BY <1>4 DEF Metrics
<1>11. /\ m.in \in Nat /\ m.out \in Nat /\ m.total \in Nat /\ m.failed \in Nat
       /\ m.retransmissions \in Nat
  BY DEF Metrics
<1>12. /\ Sent(m, conn) \in Metrics
       /\ Sent(m, conn).in = m.in + conn.resp /\ Sent(m, conn).out = m.out + conn.orig
       /\ Sent(m, conn).total = m.total + bytes /\ Sent(m, conn).failed = m.failed + failed
  BY <1>4, <1>7, <1>8, <1>10, <1>11 DEF Metrics
<1>13. /\ Received(m, conn) \in Metrics
       /\ Received(m, conn).in = m.in + conn.orig /\ Received(m, conn).out = m.out + conn.resp
       /\ Received(m, conn).total = m.total + bytes /\ Received(m, conn).failed = m.failed
  <2>1. /\ Received(m, conn).in = m.in + conn.orig /\ Received(m, conn).out = m.out + conn.resp
        /\ Received(m, conn).total = m.total + bytes /\ Received(m, conn).failed = m.failed
    BY <1>9 DEF Metrics
  <2>2. m.in + conn.orig \in Nat /\ m.out + conn.resp \in Nat /\ m.total + bytes \in Nat
    BY <1>4, <1>7, <1>11
  <2>3. Received(m, conn) \in Metrics
    BY <1>9, <2>2 DEF Metrics
  <2>. QED
    BY <2>1, <2>3
<1>. QED
  BY <1>4, <1>5, <1>6, <1>11, <1>12, <1>13

\* AddConnection keeps the type of the devices.
LEMMA AddConnectionType ==
  ASSUME NEW devices \in Devices, NEW conn \in Connection
  PROVE  AddConnection(devices, conn) \in Devices
<1>1. ASSUME NEW ds \in Devices, conn.src \in Address
      PROVE  AsSource(ds, conn) \in Devices
  BY <1>1, AsSourcePuts, AddedType, DevicesType, PutType
<1>2. ASSUME NEW ds \in Devices, conn.dst \in Address
      PROVE  AsDestination(ds, conn) \in Devices
  BY <1>2, AsDestinationPuts, AddedType, DevicesType, PutType
<1>3. \A ip : IsLocal(ip) => ip \in Address
  BY DEF IsLocal, Address
<1>. QED
  BY <1>1, <1>2, <1>3 DEF AddConnection

\* DeviceMetrics goes through the prefixes.
LEMMA DeviceMetricsFolds ==
  ASSUME NEW all \in Seq(Connection)
  PROVE  \E D \in [0..Len(all) -> Devices] :
           /\ D[0] = <<>> /\ \A k \in 1..Len(all) : D[k] = AddConnection(D[k - 1], all[k])
           /\ DeviceMetrics(all) = D[Len(all)]
<1>. DEFINE n == Len(all)
            S == Places(n)
            step == [p \in S \X Devices |-> AddConnection(p[2], all[p[1]])]
            Is(iter) == iter = [s \in SUBSET S |-> IF s = {} THEN <<>>
                                  ELSE AddConnection(iter[s \ {Max(s)}], all[Max(s)])]
<1>1. n \in Nat /\ DOMAIN all = S /\ \A k \in S : all[k] \in Connection
  BY DEF Places
<1>2. \A k \in S, ds \in Devices : step[<<k, ds>>] = AddConnection(ds, all[k])
  OBVIOUS
<1>3. \A k \in S, ds \in Devices : AddConnection(ds, all[k]) \in Devices
  BY <1>1, AddConnectionType
<1>4. Steps(step, S, Devices)
  BY <1>2, <1>3 DEF Steps
<1>5. <<>> \in Devices
  <2>1. <<>> \in [{} -> Metrics]
    OBVIOUS
  <2>. QED
    BY <2>1 DEF Devices
<1>. HIDE DEF n, step
<1>6. PICK g \in [SUBSET S -> Devices] : \E D \in [0..n -> Devices] :
        Follows(g, S, <<>>, Tops(Places(n)), step) /\ Through(D, n, <<>>, step) /\ g[S] = D[n]
  <2>1. Folds(n, Devices, <<>>, step)
    BY <1>1, <1>4, <1>5, FoldSteps
  <2>. QED
    BY <2>1 DEF Folds
<1>0. PICK D \in [0..n -> Devices] :
        Follows(g, S, <<>>, Tops(Places(n)), step) /\ Through(D, n, <<>>, step) /\ g[S] = D[n]
  BY <1>6
<1>7. \A s \in SUBSET S : s # {} => Max(s) \in s
  BY <1>1, MaxOf DEF Places
<1>8. \A s \in SUBSET S : g[s] = IF s = {} THEN <<>>
                                 ELSE AddConnection(g[s \ {Max(s)}], all[Max(s)])
  BY <1>2, <1>0, <1>7 DEF Follows, Tops
<1>9. Is(g)
  BY <1>6, <1>8
<1>10. PICK iter : Is(iter) /\ DeviceMetrics(all) = iter[S]
  BY <1>1, <1>9 DEF DeviceMetrics, FoldLeft, MapThenFoldSet
<1>11. iter[S] = g[S]
  <2>. DEFINE T == {s \in SUBSET S : iter[s] = g[s]}
  <2>1. \A s \in SUBSET S : iter[s] = IF s = {} THEN <<>>
                                 ELSE AddConnection(iter[s \ {Max(s)}], all[Max(s)])
    BY <1>10
  <2>2. Hereditary(T, S)
    BY <1>7, <1>8, <2>1 DEF Hereditary
  <2>3. IsFiniteSet(S)
    BY <1>1, FS_Interval DEF Places
  <2>. HIDE DEF T
  <2>4. SUBSET S \subseteq T
    BY <2>2, <2>3, SubsetInduction
  <2>. QED
    BY <2>4 DEF T
<1>12. D[0] = <<>> /\ \A k \in S : D[k] = AddConnection(D[k - 1], all[k])
  <2>1. ASSUME NEW k \in S PROVE k - 1 \in 0..n
    BY <1>1 DEF Places
  <2>. QED
    BY <1>2, <1>0, <2>1 DEF Through
<1>. QED
  BY <1>0, <1>10, <1>11, <1>12 DEF n, Places

-----------------------------------------------------------------------------
(* The network and the destinations. *)

\* The types of the network's metrics and of the destinations.
Networks == [failed : Nat, internal : Nat, external : Nat, active : Nat]
NoTraffic(n) == [failed |-> 0, internal |-> 0, external |-> 0, active |-> n]

\* The numbers of a connection are natural.
LEMMA BytesType ==
  ASSUME NEW conn \in Connection
  PROVE  /\ Bytes(conn) \in Nat /\ conn.orig \in Nat /\ conn.resp \in Nat
         /\ Bytes(conn) = conn.orig + conn.resp /\ One(conn.failed) \in Nat
BY DEF Bytes, Connection, One

\* Each connection is inside or outside traffic.
LEMMA AddToNetworkType ==
  ASSUME NEW network \in Networks, NEW conn \in Connection
  PROVE  LET new == AddToNetwork(network, conn)
             inside == IsLocal(conn.src) /\ IsLocal(conn.dst)
         IN /\ new \in Networks
            /\ new.internal = network.internal + IF inside THEN Bytes(conn) ELSE 0
            /\ new.external = network.external + IF inside THEN 0 ELSE Bytes(conn)
<1>1. PICK bytes \in Nat, failed \in Nat : bytes = Bytes(conn) /\ failed = One(conn.failed)
  BY BytesType
<1>2. CASE IsLocal(conn.src) /\ IsLocal(conn.dst)
  <2>1. AddToNetwork(network, conn) =
          [network EXCEPT !.failed = @ + failed, !.internal = @ + bytes, !.external = @]
    BY <1>1, <1>2 DEF AddToNetwork
  <2>2. PICK new : new = AddToNetwork(network, conn)
    OBVIOUS
  <2>3. /\ network.failed \in Nat /\ network.internal \in Nat /\ network.external \in Nat
        /\ network.active \in Nat
    BY DEF Networks
  <2>4. new \in Networks /\ new.internal = network.internal + bytes /\ new.external = network.external
    <3>1. /\ new.internal = network.internal + bytes /\ new.external = network.external
          /\ new.failed = network.failed + failed /\ new.active = network.active
          /\ new = [failed |-> new.failed, internal |-> new.internal,
                    external |-> new.external, active |-> new.active]
      BY <2>1, <2>2 DEF Networks
    <3>2. network.failed + failed \in Nat /\ network.internal + bytes \in Nat /\ network.external \in Nat
      BY <1>1, <2>3
    <3>. QED
      BY <2>3, <3>1, <3>2 DEF Networks
  <2>. QED
    BY <1>1, <1>2, <2>2, <2>3, <2>4
<1>3. CASE ~(IsLocal(conn.src) /\ IsLocal(conn.dst))
  <2>1. AddToNetwork(network, conn) =
          [network EXCEPT !.failed = @ + failed, !.internal = @, !.external = @ + bytes]
    BY <1>1, <1>3 DEF AddToNetwork
  <2>2. PICK new : new = AddToNetwork(network, conn)
    OBVIOUS
  <2>3. /\ network.failed \in Nat /\ network.internal \in Nat /\ network.external \in Nat
        /\ network.active \in Nat
    BY DEF Networks
  <2>4. new \in Networks /\ new.internal = network.internal /\ new.external = network.external + bytes
    <3>1. /\ new.internal = network.internal /\ new.external = network.external + bytes
          /\ new.failed = network.failed + failed /\ new.active = network.active
          /\ new = [failed |-> new.failed, internal |-> new.internal,
                    external |-> new.external, active |-> new.active]
      BY <2>1, <2>2 DEF Networks
    <3>2. network.failed + failed \in Nat /\ network.internal \in Nat /\ network.external + bytes \in Nat
      BY <1>1, <2>3
    <3>. QED
      BY <2>3, <3>1, <3>2 DEF Networks
  <2>. QED
    BY <1>1, <1>3, <2>2, <2>3, <2>4
<1>. QED
  BY <1>2, <1>3

\* So does NetworkMetrics.
LEMMA NetworkMetricsFolds ==
  ASSUME NEW all \in Seq(Connection)
  PROVE  \E D \in [0..Len(all) -> Networks] :
           /\ D[0] = NoTraffic(Len(all)) /\ \A k \in 1..Len(all) : D[k] = AddToNetwork(D[k - 1], all[k])
           /\ NetworkMetrics(all) = D[Len(all)]
<1>. DEFINE n == Len(all)
            S == Places(n)
            step == [p \in S \X Networks |-> AddToNetwork(p[2], all[p[1]])]
            Is(iter) == iter = [s \in SUBSET S |-> IF s = {} THEN NoTraffic(n)
                                  ELSE AddToNetwork(iter[s \ {Max(s)}], all[Max(s)])]
<1>1. n \in Nat /\ DOMAIN all = S /\ \A k \in S : all[k] \in Connection
  BY DEF Places
<1>2. \A k \in S, ds \in Networks : step[<<k, ds>>] = AddToNetwork(ds, all[k])
  OBVIOUS
<1>3. \A k \in S, ds \in Networks : AddToNetwork(ds, all[k]) \in Networks
  BY <1>1, AddToNetworkType
<1>4. Steps(step, S, Networks)
  BY <1>2, <1>3 DEF Steps
<1>5. NoTraffic(n) \in Networks
  BY <1>1 DEF NoTraffic, Networks
<1>. HIDE DEF n, step
<1>6. PICK g \in [SUBSET S -> Networks] : \E D \in [0..n -> Networks] :
        /\ Follows(g, S, NoTraffic(n), Tops(Places(n)), step)
        /\ Through(D, n, NoTraffic(n), step) /\ g[S] = D[n]
  <2>1. Folds(n, Networks, NoTraffic(n), step)
    BY <1>1, <1>4, <1>5, FoldSteps
  <2>. QED
    BY <2>1 DEF Folds
<1>0. PICK D \in [0..n -> Networks] :
        /\ Follows(g, S, NoTraffic(n), Tops(Places(n)), step)
        /\ Through(D, n, NoTraffic(n), step) /\ g[S] = D[n]
  BY <1>6
<1>7. \A s \in SUBSET S : s # {} => Max(s) \in s
  BY <1>1, MaxOf DEF Places
<1>8. \A s \in SUBSET S : g[s] = IF s = {} THEN NoTraffic(n)
                                 ELSE AddToNetwork(g[s \ {Max(s)}], all[Max(s)])
  BY <1>2, <1>0, <1>7 DEF Follows, Tops
<1>9. Is(g)
  BY <1>6, <1>8
<1>10. PICK iter : Is(iter) /\ NetworkMetrics(all) = iter[S]
  BY <1>1, <1>9 DEF n, NetworkMetrics, NoTraffic, FoldLeft, MapThenFoldSet
<1>11. iter[S] = g[S]
  <2>. DEFINE T == {s \in SUBSET S : iter[s] = g[s]}
  <2>1. \A s \in SUBSET S : iter[s] = IF s = {} THEN NoTraffic(n)
                                 ELSE AddToNetwork(iter[s \ {Max(s)}], all[Max(s)])
    BY <1>10
  <2>2. Hereditary(T, S)
    BY <1>7, <1>8, <2>1 DEF Hereditary
  <2>3. IsFiniteSet(S)
    BY <1>1, FS_Interval DEF Places
  <2>. HIDE DEF T
  <2>4. SUBSET S \subseteq T
    BY <2>2, <2>3, SubsetInduction
  <2>. QED
    BY <2>4 DEF T
<1>12. D[0] = NoTraffic(n) /\ \A k \in S : D[k] = AddToNetwork(D[k - 1], all[k])
  <2>1. ASSUME NEW k \in S PROVE k - 1 \in 0..n
    BY <1>1 DEF Places
  <2>. QED
    BY <1>2, <1>0, <2>1 DEF Through
<1>. QED
  BY <1>0, <1>10, <1>11, <1>12 DEF n, Places

\* The destinations that devices exchanged data with, and what a file adds to them.
Pair == (Address \cup {Unset}) \X (Address \cup {Unset})
Recent == [bytes : Nat, count : Nat, host : Host]
Recents == UNION {[keys -> Recent] : keys \in SUBSET Pair}
Named == [conn : Connection, host : Host]
Grouped(all) == FoldLeft(AddRecent, <<>>, all)
Key(conn) == <<conn.src, conn.dst>>
OldRecent(recent, key) ==
  IF key \in DOMAIN recent THEN recent[key] ELSE [bytes |-> 0, count |-> 0, host |-> NoName]

\* A destination without an entry has exchanged nothing.
LEMMA RecentsType ==
  ASSUME NEW recent \in Recents
  PROVE  /\ DOMAIN recent \subseteq Pair /\ recent \in [DOMAIN recent -> Recent]
         /\ \A key : OldRecent(recent, key) \in Recent
<1>1. PICK keys \in SUBSET Pair : recent \in [keys -> Recent]
  BY DEF Recents
<1>2. [bytes |-> 0, count |-> 0, host |-> NoName] \in Recent
  BY DEF Recent, Host
<1>. QED
  BY <1>1, <1>2 DEF OldRecent

\* AddRecent adds the bytes of an outbound connection to its destination.
LEMMA AddRecentPuts ==
  ASSUME NEW recent \in Recents, NEW named \in Named
  PROVE  IF Outbound(named.conn)
         THEN /\ Key(named.conn) \in Pair
              /\ \E new \in Recent :
                   /\ new.bytes = OldRecent(recent, Key(named.conn)).bytes + Bytes(named.conn)
                   /\ AddRecent(recent, named) = Put(recent, Key(named.conn), new)
         ELSE AddRecent(recent, named) = recent
<1>1. named.conn \in Connection /\ named.host \in Host
  BY DEF Named
<1>. DEFINE old == OldRecent(recent, Key(named.conn))
            new == [bytes |-> old.bytes + Bytes(named.conn), count |-> old.count + 1,
                    host |-> IF named.host # NoName THEN named.host ELSE old.host]
<1>2. new \in Recent /\ new.bytes = old.bytes + Bytes(named.conn)
  BY <1>1, BytesType, RecentsType DEF Recent
<1>3. Key(named.conn) \in Pair
  BY <1>1 DEF Key, Pair, Connection
<1>4. CASE Outbound(named.conn)
  <2>1. AddRecent(recent, named) = Put(recent, Key(named.conn), new)
    BY <1>4 DEF AddRecent, Put, OldRecent, Key
  <2>. HIDE DEF new, old
  <2>. QED
    BY <1>2, <1>3, <1>4, <2>1 DEF old
<1>5. CASE ~Outbound(named.conn)
  BY <1>5 DEF AddRecent
<1>. QED
  BY <1>4, <1>5

\* AddRecent keeps the type of the destinations.
LEMMA AddRecentType ==
  ASSUME NEW recent \in Recents, NEW named \in Named
  PROVE  AddRecent(recent, named) \in Recents
<1>1. ASSUME NEW key \in Pair, NEW new \in Recent PROVE Put(recent, key, new) \in Recents
  <2>1. DOMAIN recent \cup {key} \in SUBSET Pair
    BY RecentsType
  <2>2. Put(recent, key, new) \in [DOMAIN recent \cup {key} -> Recent]
    BY RecentsType DEF Put
  <2>. QED
    BY <2>1, <2>2 DEF Recents
<1>. QED
  BY <1>1, AddRecentPuts

\* So does the grouping of the connections with the outside.
LEMMA GroupedFolds ==
  ASSUME NEW all \in Seq(Named)
  PROVE  \E D \in [0..Len(all) -> Recents] :
           /\ D[0] = <<>> /\ \A k \in 1..Len(all) : D[k] = AddRecent(D[k - 1], all[k])
           /\ Grouped(all) = D[Len(all)]
<1>. DEFINE n == Len(all)
            S == Places(n)
            step == [p \in S \X Recents |-> AddRecent(p[2], all[p[1]])]
            Is(iter) == iter = [s \in SUBSET S |-> IF s = {} THEN <<>>
                                  ELSE AddRecent(iter[s \ {Max(s)}], all[Max(s)])]
<1>1. n \in Nat /\ DOMAIN all = S /\ \A k \in S : all[k] \in Named
  BY DEF Places
<1>2. \A k \in S, ds \in Recents : step[<<k, ds>>] = AddRecent(ds, all[k])
  OBVIOUS
<1>3. \A k \in S, ds \in Recents : AddRecent(ds, all[k]) \in Recents
  BY <1>1, AddRecentType
<1>4. Steps(step, S, Recents)
  BY <1>2, <1>3 DEF Steps
<1>5. <<>> \in Recents
  <2>1. <<>> \in [{} -> Recent]
    OBVIOUS
  <2>. QED
    BY <2>1 DEF Recents
<1>. HIDE DEF n, step
<1>6. PICK g \in [SUBSET S -> Recents] : \E D \in [0..n -> Recents] :
        Follows(g, S, <<>>, Tops(Places(n)), step) /\ Through(D, n, <<>>, step) /\ g[S] = D[n]
  <2>1. Folds(n, Recents, <<>>, step)
    BY <1>1, <1>4, <1>5, FoldSteps
  <2>. QED
    BY <2>1 DEF Folds
<1>0. PICK D \in [0..n -> Recents] :
        Follows(g, S, <<>>, Tops(Places(n)), step) /\ Through(D, n, <<>>, step) /\ g[S] = D[n]
  BY <1>6
<1>7. \A s \in SUBSET S : s # {} => Max(s) \in s
  BY <1>1, MaxOf DEF Places
<1>8. \A s \in SUBSET S : g[s] = IF s = {} THEN <<>>
                                 ELSE AddRecent(g[s \ {Max(s)}], all[Max(s)])
  BY <1>2, <1>0, <1>7 DEF Follows, Tops
<1>9. Is(g)
  BY <1>6, <1>8
<1>10. PICK iter : Is(iter) /\ Grouped(all) = iter[S]
  BY <1>1, <1>9 DEF Grouped, FoldLeft, MapThenFoldSet
<1>11. iter[S] = g[S]
  <2>. DEFINE T == {s \in SUBSET S : iter[s] = g[s]}
  <2>1. \A s \in SUBSET S : iter[s] = IF s = {} THEN <<>>
                                 ELSE AddRecent(iter[s \ {Max(s)}], all[Max(s)])
    BY <1>10
  <2>2. Hereditary(T, S)
    BY <1>7, <1>8, <2>1 DEF Hereditary
  <2>3. IsFiniteSet(S)
    BY <1>1, FS_Interval DEF Places
  <2>. HIDE DEF T
  <2>4. SUBSET S \subseteq T
    BY <2>2, <2>3, SubsetInduction
  <2>. QED
    BY <2>4 DEF T
<1>12. D[0] = <<>> /\ \A k \in S : D[k] = AddRecent(D[k - 1], all[k])
  <2>1. ASSUME NEW k \in S PROVE k - 1 \in 0..n
    BY <1>1 DEF Places
  <2>. QED
    BY <1>2, <1>0, <2>1 DEF Through
<1>. QED
  BY <1>0, <1>10, <1>11, <1>12 DEF n, Places

-----------------------------------------------------------------------------
(* Sums that grow with the connections. *)

\* The sum over the places of a sequence up to k.
SumTo(f, places, k) == SumFunctionOnSet(f, {i \in places : i <= k})

\* The sum up to a place is that up to the place before and what is there.
LEMMA SumToStep ==
  ASSUME NEW n \in Nat, NEW f, NEW places, places \subseteq Places(n), Summable(f, places)
  PROVE  /\ SumTo(f, places, 0) = 0 /\ SumTo(f, places, n) = SumFunctionOnSet(f, places)
         /\ \A k \in 0..n : SumTo(f, places, k) \in Nat
         /\ \A k \in Places(n) :
              SumTo(f, places, k) = SumTo(f, places, k - 1) + (IF k \in places THEN f[k] ELSE 0)
<1>. DEFINE upto(k) == {i \in places : i <= k}
<1>1. ASSUME NEW k PROVE Summable(f, upto(k)) /\ SumFunctionOnSet(f, upto(k)) \in Nat
  <2>1. Summable(f, upto(k))
    BY SumSubset
  <2>. QED
    BY <2>1, SumType
<1>0. \A i \in places : i \in Nat /\ 1 <= i /\ i <= n
  BY DEF Places
<1>2. upto(0) = {} /\ upto(n) = places
  BY <1>0
<1>3. ASSUME NEW k \in Places(n)
      PROVE  SumFunctionOnSet(f, upto(k))
               = SumFunctionOnSet(f, upto(k - 1)) + (IF k \in places THEN f[k] ELSE 0)
  <2>1. CASE k \in places
    <3>0. k \in Nat /\ \A i \in Nat : i <= k /\ i # k <=> i <= k - 1
      BY DEF Places
    <3>1. k \in upto(k) /\ upto(k) \ {k} = upto(k - 1)
      <4>1. k \in upto(k)
        BY <2>1, <3>0
      <4>2. \A i \in places : i <= k /\ i # k <=> i <= k - 1
        BY <1>0, <3>0
      <4>. QED
        BY <4>1, <4>2
    <3>2. f[k] \in Nat
      BY <2>1 DEF Summable
    <3>3. SumFunctionOnSet(f, upto(k)) = f[k] + SumFunctionOnSet(f, upto(k) \ {k})
      BY <1>1, <3>1, SumStep
    <3>4. SumFunctionOnSet(f, upto(k - 1)) \in Nat
      BY <1>1
    <3>5. SumFunctionOnSet(f, upto(k)) = f[k] + SumFunctionOnSet(f, upto(k - 1))
      BY <3>1, <3>3
    <3>. HIDE DEF upto
    <3>. QED
      BY <2>1, <3>2, <3>4, <3>5
  <2>2. CASE k \notin places
    <3>0. k \in Nat /\ \A i \in Nat : i <= k /\ i # k <=> i <= k - 1
      BY DEF Places
    <3>1. upto(k) = upto(k - 1)
      BY <1>0, <2>2, <3>0
    <3>2. SumFunctionOnSet(f, upto(k - 1)) \in Nat
      BY <1>1
    <3>. HIDE DEF upto
    <3>. QED
      BY <2>2, <3>1, <3>2
  <2>. QED
    BY <2>1, <2>2
<1>4. SumFunctionOnSet(f, {}) = 0
  BY <1>1, <1>2, SumType
<1>. QED
  BY <1>1, <1>2, <1>3, <1>4 DEF SumTo

-----------------------------------------------------------------------------
\* The sums over the devices.
Failures(devices) == SumFunction([ip \in DOMAIN devices |-> devices[ip].failed])

\* Putting metrics in for an address changes the sums by the difference.
LEMMA PutSums ==
  ASSUME NEW devices \in Devices, IsFiniteSet(DOMAIN devices),
         NEW ip \in Address, NEW change \in Metrics
  PROVE  LET old == MetricsOf(devices, ip)
             put == Put(devices, ip, change)
         IN /\ IsFiniteSet(DOMAIN put) /\ DOMAIN put = DOMAIN devices \cup {ip}
            /\ \A d : MetricsOf(put, d) = IF d = ip THEN change ELSE MetricsOf(devices, d)
            /\ Total(put) + old.total = Total(devices) + change.total
            /\ Failures(put) + old.failed = Failures(devices) + change.failed
            /\ Total(devices) \in Nat /\ Total(put) \in Nat
            /\ Failures(devices) \in Nat /\ Failures(put) \in Nat
<1>. DEFINE put == Put(devices, ip, change)
            D == DOMAIN devices
            total(ds) == [d \in DOMAIN ds |-> ds[d].total]
            failed(ds) == [d \in DOMAIN ds |-> ds[d].failed]
<1>1. DOMAIN put = D \cup {ip} /\ put \in Devices
      /\ \A d \in D \cup {ip} : put[d] = IF d = ip THEN change ELSE devices[d]
  BY PutType DEF Put
<1>2. IsFiniteSet(D \cup {ip})
  BY FS_AddElement
<1>3. \A d : MetricsOf(put, d) = IF d = ip THEN change ELSE MetricsOf(devices, d)
  BY <1>1 DEF MetricsOf
<1>4. /\ \A d \in D : devices[d].total \in Nat /\ devices[d].failed \in Nat
      /\ change.total \in Nat /\ change.failed \in Nat
  BY DevicesType DEF Metrics
<1>. HIDE DEF put
<1>5. /\ Summable(total(devices), D) /\ Summable(failed(devices), D)
      /\ Summable(total(put), D \cup {ip}) /\ Summable(failed(put), D \cup {ip})
  BY <1>1, <1>2, <1>4 DEF Summable
<1>6. /\ \A d \in D \ {ip} : /\ total(put)[d] = total(devices)[d]
                             /\ failed(put)[d] = failed(devices)[d]
      /\ total(put)[ip] = change.total /\ failed(put)[ip] = change.failed
  BY <1>1
<1>7. /\ SumFunctionOnSet(total(put), D \cup {ip}) + (IF ip \in D THEN total(devices)[ip] ELSE 0)
           = SumFunctionOnSet(total(devices), D) + total(put)[ip]
      /\ SumFunctionOnSet(failed(put), D \cup {ip}) + (IF ip \in D THEN failed(devices)[ip] ELSE 0)
           = SumFunctionOnSet(failed(devices), D) + failed(put)[ip]
  <2>. HIDE DEF total, failed
  <2>. QED
    BY <1>5, <1>6, SumPut
<1>8. /\ Total(devices) = SumFunctionOnSet(total(devices), D)
      /\ Failures(devices) = SumFunctionOnSet(failed(devices), D)
      /\ Total(put) = SumFunctionOnSet(total(put), D \cup {ip})
      /\ Failures(put) = SumFunctionOnSet(failed(put), D \cup {ip})
  BY <1>1 DEF Total, Failures, SumFunction
<1>9. /\ MetricsOf(devices, ip).total = IF ip \in D THEN total(devices)[ip] ELSE 0
      /\ MetricsOf(devices, ip).failed = IF ip \in D THEN failed(devices)[ip] ELSE 0
  BY DEF MetricsOf, Zero
<1>10. /\ Total(devices) \in Nat /\ Total(put) \in Nat
       /\ Failures(devices) \in Nat /\ Failures(put) \in Nat
  BY <1>5, <1>8, SumType
<1>. QED
  BY <1>1, <1>2, <1>3, <1>6, <1>7, <1>8, <1>9, <1>10 DEF put

\* What a connection changes at its source and at its destination.
Changes(devices, ds, ip, in, out, total, failed) ==
  /\ ds \in Devices /\ IsFiniteSet(DOMAIN ds) /\ DOMAIN ds = DOMAIN devices \cup {ip}
  /\ \A d : d # ip => MetricsOf(ds, d) = MetricsOf(devices, d)
  /\ LET old == MetricsOf(devices, ip)
         new == MetricsOf(ds, ip)
     IN new.in = old.in + in /\ new.out = old.out + out /\ new.total = old.total + total
  /\ Total(ds) = Total(devices) + total /\ Failures(ds) = Failures(devices) + failed

\* Metrics that grow by some amounts change the sums by these.
LEMMA PutChanges ==
  ASSUME NEW devices \in Devices, IsFiniteSet(DOMAIN devices), NEW ip \in Address,
         NEW new \in Metrics, NEW in \in Nat, NEW out \in Nat, NEW total \in Nat,
         NEW failed \in Nat,
         LET old == MetricsOf(devices, ip)
         IN /\ new.in = old.in + in /\ new.out = old.out + out
            /\ new.total = old.total + total /\ new.failed = old.failed + failed
  PROVE  Changes(devices, Put(devices, ip, new), ip, in, out, total, failed)
<1>1. PICK old, put : old = MetricsOf(devices, ip) /\ put = Put(devices, ip, new)
  OBVIOUS
<1>2. old \in Metrics /\ old.total \in Nat /\ old.failed \in Nat
  BY <1>1, DevicesType DEF Metrics
<1>3. /\ IsFiniteSet(DOMAIN put) /\ DOMAIN put = DOMAIN devices \cup {ip}
      /\ \A d : MetricsOf(put, d) = IF d = ip THEN new ELSE MetricsOf(devices, d)
      /\ Total(put) + old.total = Total(devices) + new.total
      /\ Failures(put) + old.failed = Failures(devices) + new.failed
      /\ Total(devices) \in Nat /\ Total(put) \in Nat
      /\ Failures(devices) \in Nat /\ Failures(put) \in Nat
  <2>1. LET was == MetricsOf(devices, ip)
            is == Put(devices, ip, new)
        IN /\ IsFiniteSet(DOMAIN is) /\ DOMAIN is = DOMAIN devices \cup {ip}
           /\ \A d : MetricsOf(is, d) = IF d = ip THEN new ELSE MetricsOf(devices, d)
           /\ Total(is) + was.total = Total(devices) + new.total
           /\ Failures(is) + was.failed = Failures(devices) + new.failed
           /\ Total(devices) \in Nat /\ Total(is) \in Nat
           /\ Failures(devices) \in Nat /\ Failures(is) \in Nat
    BY PutSums
  <2>. QED
    BY <1>1, <2>1
<1>4. put \in Devices
  BY <1>1, PutType
<1>5. Total(put) = Total(devices) + total /\ Failures(put) = Failures(devices) + failed
  <2>1. new.total = old.total + total /\ new.failed = old.failed + failed
    BY <1>1
  <2>. QED
    BY <1>2, <1>3, <2>1
<1>. QED
  BY <1>1, <1>3, <1>4, <1>5 DEF Changes

\* The source gets the response and is blamed for a failure.
LEMMA SourceChanges ==
  ASSUME NEW devices \in Devices, IsFiniteSet(DOMAIN devices), NEW conn \in Connection,
         conn.src \in Address
  PROVE  Changes(devices, AsSource(devices, conn), conn.src,
                 conn.resp, conn.orig, Bytes(conn), One(conn.failed))
<1>1. PICK old, new : old = MetricsOf(devices, conn.src) /\ new = Sent(old, conn)
  OBVIOUS
<1>2. old \in Metrics
  BY <1>1, DevicesType
<1>3. /\ new \in Metrics /\ new.in = old.in + conn.resp /\ new.out = old.out + conn.orig
      /\ new.total = old.total + Bytes(conn) /\ new.failed = old.failed + One(conn.failed)
  BY <1>1, <1>2, AddedType
<1>4. AsSource(devices, conn) = Put(devices, conn.src, new)
  BY <1>1, AsSourcePuts
<1>. QED
  BY <1>1, <1>3, <1>4, PutChanges, BytesType

\* The destination gets the request.
LEMMA DestinationChanges ==
  ASSUME NEW devices \in Devices, IsFiniteSet(DOMAIN devices), NEW conn \in Connection,
         conn.dst \in Address
  PROVE  Changes(devices, AsDestination(devices, conn), conn.dst,
                 conn.orig, conn.resp, Bytes(conn), 0)
<1>1. PICK old, new : old = MetricsOf(devices, conn.dst) /\ new = Received(old, conn)
  OBVIOUS
<1>2. old \in Metrics
  BY <1>1, DevicesType
<1>3. /\ new \in Metrics /\ new.in = old.in + conn.orig /\ new.out = old.out + conn.resp
      /\ new.total = old.total + Bytes(conn) /\ new.failed = old.failed + 0
  BY <1>1, <1>2, AddedType
<1>4. AsDestination(devices, conn) = Put(devices, conn.dst, new)
  BY <1>1, AsDestinationPuts
<1>. QED
  BY <1>1, <1>3, <1>4, PutChanges, BytesType

\* Devices whose sums are kept.
LocalDevices(devices) ==
  /\ devices \in Devices /\ IsFiniteSet(DOMAIN devices) /\ \A ip \in DOMAIN devices : IsLocal(ip)
  /\ \A ip : LET m == MetricsOf(devices, ip) IN m.in + m.out = m.total
  /\ Total(devices) \in Nat /\ Failures(devices) \in Nat

\* A change of a local address that receives and sends what is added to its total
\* keeps that true of all devices.
LEMMA ChangesKeep ==
  ASSUME NEW devices, LocalDevices(devices), NEW ds, NEW ip, IsLocal(ip),
         NEW in \in Nat, NEW out \in Nat, NEW failed \in Nat, NEW total \in Nat, total = in + out,
         Changes(devices, ds, ip, in, out, total, failed)
  PROVE  LocalDevices(ds)
<1>1. \A d : LET m == MetricsOf(devices, d)
             IN m.in \in Nat /\ m.out \in Nat /\ m.total \in Nat /\ m.in + m.out = m.total
  BY DevicesType DEF LocalDevices, Metrics
<1>2. ASSUME NEW d PROVE LET m == MetricsOf(ds, d) IN m.in + m.out = m.total
  <2>1. CASE d = ip
    <3>1. PICK old, new : old = MetricsOf(devices, ip) /\ new = MetricsOf(ds, ip)
      OBVIOUS
    <3>2. new.in = old.in + in /\ new.out = old.out + out /\ new.total = old.total + total
      BY <3>1 DEF Changes
    <3>. QED
      BY <1>1, <2>1, <3>1, <3>2
  <2>2. CASE d # ip
    BY <1>1, <2>2 DEF Changes
  <2>. QED
    BY <2>1, <2>2
<1>3. /\ ds \in Devices /\ IsFiniteSet(DOMAIN ds) /\ \A d \in DOMAIN ds : IsLocal(d)
      /\ Total(ds) \in Nat /\ Failures(ds) \in Nat
  BY DEF Changes, LocalDevices
<1>. QED
  BY <1>2, <1>3 DEF LocalDevices

\* A connection adds its bytes to its ends that are local.
LEMMA AddConnectionAdds ==
  ASSUME NEW devices, LocalDevices(devices), NEW conn \in Connection
  PROVE  LET new == AddConnection(devices, conn)
             from == IsLocal(conn.src)
             to == IsLocal(conn.dst) /\ conn.src # Unset
         IN /\ LocalDevices(new)
            /\ \A ip : IsLocal(ip) =>
                 MetricsOf(new, ip).in = MetricsOf(devices, ip).in
                   + (IF conn.src = ip THEN conn.resp ELSE 0)
                   + (IF conn.dst = ip /\ conn.src # Unset THEN conn.orig ELSE 0)
            /\ Total(new) = Total(devices) + (IF from THEN Bytes(conn) ELSE 0)
                              + (IF to THEN Bytes(conn) ELSE 0)
            /\ Failures(new) = Failures(devices) + (IF from THEN One(conn.failed) ELSE 0)
<1>1. PICK orig, resp, bytes, failed :
        orig = conn.orig /\ resp = conn.resp /\ bytes = Bytes(conn) /\ failed = One(conn.failed)
  OBVIOUS
<1>2. orig \in Nat /\ resp \in Nat /\ bytes \in Nat /\ failed \in Nat
      /\ bytes = orig + resp /\ bytes = resp + orig
  BY <1>1, BytesType
<1>3. ~IsLocal(Unset) /\ \A ip : IsLocal(ip) => ip \in Address
  BY MetricsAssumption DEF IsLocal, Address
<1>4. PICK sent : sent = IF IsLocal(conn.src) THEN AsSource(devices, conn) ELSE devices
  OBVIOUS
<1>5. /\ LocalDevices(sent)
      /\ \A ip : IsLocal(ip) => MetricsOf(sent, ip).in
           = MetricsOf(devices, ip).in + (IF conn.src = ip THEN resp ELSE 0)
      /\ Total(sent) = Total(devices) + (IF IsLocal(conn.src) THEN bytes ELSE 0)
      /\ Failures(sent) = Failures(devices) + (IF IsLocal(conn.src) THEN failed ELSE 0)
  <2>0. /\ \A ip : MetricsOf(devices, ip).in \in Nat
        /\ devices \in Devices /\ IsFiniteSet(DOMAIN devices)
        /\ Total(devices) \in Nat /\ Failures(devices) \in Nat
    BY DevicesType DEF LocalDevices, Metrics
  <2>1. CASE IsLocal(conn.src)
    <3>1. Changes(devices, sent, conn.src, resp, orig, bytes, failed)
      BY <1>1, <1>3, <1>4, <2>0, <2>1, SourceChanges
    <3>2. LocalDevices(sent)
      BY <1>2, <2>1, <3>1, ChangesKeep
    <3>. QED
      BY <2>0, <2>1, <3>1, <3>2 DEF Changes
  <2>2. CASE ~IsLocal(conn.src)
    BY <1>4, <2>0, <2>2
  <2>. QED
    BY <2>1, <2>2
<1>6. PICK new : new = IF IsLocal(conn.dst) THEN AsDestination(sent, conn) ELSE sent
  OBVIOUS
<1>7. /\ LocalDevices(new)
      /\ \A ip : IsLocal(ip) => MetricsOf(new, ip).in
           = MetricsOf(sent, ip).in + (IF conn.dst = ip THEN orig ELSE 0)
      /\ Total(new) = Total(sent) + (IF IsLocal(conn.dst) THEN bytes ELSE 0)
      /\ Failures(new) = Failures(sent)
  <2>0. /\ \A ip : MetricsOf(sent, ip).in \in Nat
        /\ sent \in Devices /\ IsFiniteSet(DOMAIN sent)
        /\ Total(sent) \in Nat /\ Failures(sent) \in Nat
    BY <1>5, DevicesType DEF LocalDevices, Metrics
  <2>1. CASE IsLocal(conn.dst)
    <3>1. Changes(sent, new, conn.dst, orig, resp, bytes, 0)
      BY <1>1, <1>3, <1>6, <2>0, <2>1, DestinationChanges
    <3>2. LocalDevices(new)
      BY <1>2, <1>5, <2>1, <3>1, ChangesKeep
    <3>. QED
      BY <2>0, <2>1, <3>1, <3>2 DEF Changes
  <2>2. CASE ~IsLocal(conn.dst)
    BY <1>5, <1>6, <2>0, <2>2
  <2>. QED
    BY <2>1, <2>2
<1>8. CASE conn.src = Unset
  <2>1. AddConnection(devices, conn) = devices
    BY <1>8 DEF AddConnection
  <2>2. /\ \A ip : MetricsOf(devices, ip).in \in Nat
        /\ Total(devices) \in Nat /\ Failures(devices) \in Nat
    BY DevicesType DEF LocalDevices, Metrics
  <2>. QED
    BY <1>3, <1>8, <2>1, <2>2
<1>9. CASE conn.src # Unset
  <2>1. AddConnection(devices, conn) = new
    BY <1>4, <1>6, <1>9 DEF AddConnection
  <2>. QED
    BY <1>1, <1>5, <1>7, <1>9, <2>1
<1>. QED
  BY <1>8, <1>9

\* What is added up over the connections, and for which of them.
OrigOf(all) == [i \in DOMAIN all |-> Orig(all[i])]
RespOf(all) == [i \in DOMAIN all |-> Resp(all[i])]
BytesOf(all) == [i \in DOMAIN all |-> Bytes(all[i])]
OnesOf(all) == [i \in DOMAIN all |-> Count(all[i])]
From(all, ip) == {i \in DOMAIN all : all[i].src = ip}
To(all, ip) == {i \in DOMAIN all : all[i].dst = ip /\ all[i].src # Unset}
LocalFrom(all) == {i \in DOMAIN all : IsLocal(all[i].src)}
LocalTo(all) == {i \in DOMAIN all : IsLocal(all[i].dst) /\ all[i].src # Unset}
FailedFrom(all) == {i \in DOMAIN all : all[i].failed /\ IsLocal(all[i].src)}
Beyond(all) == {i \in DOMAIN all : ~(IsLocal(all[i].src) /\ IsLocal(all[i].dst))}

\* What connections have can be added up, over any of them.
LEMMA ValuesSummable ==
  ASSUME NEW all \in Seq(Connection), NEW places, places \subseteq DOMAIN all
  PROVE  /\ places \subseteq Places(Len(all)) /\ Len(all) \in Nat
         /\ Summable(OrigOf(all), places) /\ Summable(RespOf(all), places)
         /\ Summable(BytesOf(all), places) /\ Summable(OnesOf(all), places)
<1>1. Len(all) \in Nat /\ DOMAIN all = 1..Len(all) /\ \A i \in DOMAIN all : all[i] \in Connection
  OBVIOUS
<1>2. IsFiniteSet(places)
  <2>1. IsFiniteSet(1..Len(all))
    BY <1>1, FS_Interval
  <2>. QED
    BY <1>1, <2>1, FS_Subset
<1>3. \A i \in DOMAIN all : /\ OrigOf(all)[i] \in Nat /\ RespOf(all)[i] \in Nat
                            /\ BytesOf(all)[i] \in Nat /\ OnesOf(all)[i] \in Nat
  BY <1>1, BytesType DEF OrigOf, RespOf, BytesOf, OnesOf, Orig, Resp, Count
<1>. QED
  BY <1>1, <1>2, <1>3 DEF Places, Summable

\* A sum over the places, at the next place.
Grows(f, places, n) ==
  /\ SumTo(f, places, 0) = 0 /\ SumTo(f, places, n) = SumFunctionOnSet(f, places)
  /\ \A k \in 0..n : SumTo(f, places, k) \in Nat
  /\ \A k \in Places(n) :
       SumTo(f, places, k) = SumTo(f, places, k - 1) + (IF k \in places THEN f[k] ELSE 0)

\* It can be added up one connection after the other.
LEMMA SumsGrow ==
  ASSUME NEW all \in Seq(Connection), NEW places, places \subseteq DOMAIN all
  PROVE  /\ Grows(OrigOf(all), places, Len(all)) /\ Grows(RespOf(all), places, Len(all))
         /\ Grows(BytesOf(all), places, Len(all)) /\ Grows(OnesOf(all), places, Len(all))
<1>1. /\ places \subseteq Places(Len(all)) /\ Len(all) \in Nat
      /\ Summable(OrigOf(all), places) /\ Summable(RespOf(all), places)
      /\ Summable(BytesOf(all), places) /\ Summable(OnesOf(all), places)
  BY ValuesSummable
<1>2. ASSUME NEW f, Summable(f, places) PROVE Grows(f, places, Len(all))
  BY <1>1, <1>2, SumToStep DEF Grows
<1>. QED
  BY <1>1, <1>2

\* What is true of the devices after k connections.
DevicesAddUp(all, ds, k) ==
  /\ LocalDevices(ds)
  /\ \A ip : IsLocal(ip) => MetricsOf(ds, ip).in
       = SumTo(RespOf(all), From(all, ip), k) + SumTo(OrigOf(all), To(all, ip), k)
  /\ Total(ds) = SumTo(BytesOf(all), LocalFrom(all), k) + SumTo(BytesOf(all), LocalTo(all), k)
  /\ Failures(ds) = SumTo(OnesOf(all), FailedFrom(all), k)

\* Before the first connection there are no devices, and nothing to add up.
LEMMA NoDevicesAddUp ==
  ASSUME NEW all \in Seq(Connection)
  PROVE  DevicesAddUp(all, <<>>, 0)
<1>1. /\ \A ip : Grows(RespOf(all), From(all, ip), Len(all)) /\ Grows(OrigOf(all), To(all, ip), Len(all))
      /\ Grows(BytesOf(all), LocalFrom(all), Len(all)) /\ Grows(BytesOf(all), LocalTo(all), Len(all))
      /\ Grows(OnesOf(all), FailedFrom(all), Len(all))
  BY SumsGrow DEF From, To, LocalFrom, LocalTo, FailedFrom
<1>2. DOMAIN <<>> = {} /\ IsFiniteSet({})
  BY FS_EmptySet
<1>3. <<>> \in Devices
  <2>1. <<>> \in [{} -> Metrics]
    OBVIOUS
  <2>. QED
    BY <2>1 DEF Devices
<1>4. Total(<<>>) = 0 /\ Failures(<<>>) = 0
  <2>1. ASSUME NEW f PROVE SumFunctionOnSet(f, {}) = 0
    BY <1>2, SumType DEF Summable
  <2>2. Total(<<>>) = SumFunctionOnSet([ip \in {} |-> <<>>[ip].total], {})
    BY <1>2 DEF Total, SumFunction
  <2>3. Failures(<<>>) = SumFunctionOnSet([ip \in {} |-> <<>>[ip].failed], {})
    BY <1>2 DEF Failures, SumFunction
  <2>. QED
    BY <2>1, <2>2, <2>3
<1>5. \A ip : MetricsOf(<<>>, ip) = Zero
  BY <1>2 DEF MetricsOf
<1>6. Zero.in = 0 /\ Zero.out = 0 /\ Zero.total = 0
  BY DEF Zero
<1>7. LocalDevices(<<>>)
  BY <1>2, <1>3, <1>4, <1>5, <1>6 DEF LocalDevices
<1>. QED
  BY <1>1, <1>4, <1>5, <1>6, <1>7 DEF DevicesAddUp, Grows

\* AddConnection keeps the devices in agreement with the connections so far.
LEMMA MoreDevicesAddUp ==
  ASSUME NEW all \in Seq(Connection), NEW k \in Places(Len(all)), NEW ds,
         DevicesAddUp(all, ds, k - 1)
  PROVE  DevicesAddUp(all, AddConnection(ds, all[k]), k)
<1>1. PICK n, conn, new : n = Len(all) /\ conn = all[k] /\ new = AddConnection(ds, conn)
  OBVIOUS
<1>2. n \in Nat /\ k \in DOMAIN all /\ conn \in Connection /\ k \in 0..n /\ k - 1 \in 0..n
      /\ k \in Places(n)
  BY <1>1 DEF Places
<1>3. /\ \A ip : Grows(RespOf(all), From(all, ip), n) /\ Grows(OrigOf(all), To(all, ip), n)
      /\ Grows(BytesOf(all), LocalFrom(all), n) /\ Grows(BytesOf(all), LocalTo(all), n)
      /\ Grows(OnesOf(all), FailedFrom(all), n)
  BY <1>1, SumsGrow DEF From, To, LocalFrom, LocalTo, FailedFrom
<1>4. /\ LocalDevices(new)
      /\ \A ip : IsLocal(ip) =>
           MetricsOf(new, ip).in = MetricsOf(ds, ip).in
             + (IF conn.src = ip THEN conn.resp ELSE 0)
             + (IF conn.dst = ip /\ conn.src # Unset THEN conn.orig ELSE 0)
      /\ Total(new) = Total(ds) + (IF IsLocal(conn.src) THEN Bytes(conn) ELSE 0)
                        + (IF IsLocal(conn.dst) /\ conn.src # Unset THEN Bytes(conn) ELSE 0)
      /\ Failures(new) = Failures(ds) + (IF IsLocal(conn.src) THEN One(conn.failed) ELSE 0)
  <2>1. LocalDevices(ds)
    BY DEF DevicesAddUp
  <2>2. LET is == AddConnection(ds, conn)
            from == IsLocal(conn.src)
            to == IsLocal(conn.dst) /\ conn.src # Unset
        IN /\ LocalDevices(is)
           /\ \A ip : IsLocal(ip) =>
                MetricsOf(is, ip).in = MetricsOf(ds, ip).in
                  + (IF conn.src = ip THEN conn.resp ELSE 0)
                  + (IF conn.dst = ip /\ conn.src # Unset THEN conn.orig ELSE 0)
           /\ Total(is) = Total(ds) + (IF from THEN Bytes(conn) ELSE 0)
                            + (IF to THEN Bytes(conn) ELSE 0)
           /\ Failures(is) = Failures(ds) + (IF from THEN One(conn.failed) ELSE 0)
    BY <1>2, <2>1, AddConnectionAdds
  <2>. QED
    BY <1>1, <2>2
<1>5. /\ OrigOf(all)[k] = conn.orig /\ RespOf(all)[k] = conn.resp
      /\ BytesOf(all)[k] = Bytes(conn) /\ OnesOf(all)[k] = 1
      /\ conn.orig \in Nat /\ conn.resp \in Nat /\ Bytes(conn) \in Nat
  BY <1>1, <1>2, BytesType DEF OrigOf, RespOf, BytesOf, OnesOf, Orig, Resp, Count
<1>6. ASSUME NEW ip, IsLocal(ip)
      PROVE  MetricsOf(new, ip).in
               = SumTo(RespOf(all), From(all, ip), k) + SumTo(OrigOf(all), To(all, ip), k)
  <2>1. /\ k \in From(all, ip) <=> conn.src = ip
        /\ k \in To(all, ip) <=> conn.dst = ip /\ conn.src # Unset
    BY <1>1, <1>2 DEF From, To
  <2>2. MetricsOf(ds, ip).in
          = SumTo(RespOf(all), From(all, ip), k - 1) + SumTo(OrigOf(all), To(all, ip), k - 1)
    BY <1>6 DEF DevicesAddUp
  <2>3. /\ SumTo(RespOf(all), From(all, ip), k) = SumTo(RespOf(all), From(all, ip), k - 1)
             + (IF conn.src = ip THEN conn.resp ELSE 0)
        /\ SumTo(OrigOf(all), To(all, ip), k) = SumTo(OrigOf(all), To(all, ip), k - 1)
             + (IF conn.dst = ip /\ conn.src # Unset THEN conn.orig ELSE 0)
        /\ SumTo(RespOf(all), From(all, ip), k - 1) \in Nat
        /\ SumTo(OrigOf(all), To(all, ip), k - 1) \in Nat
    BY <1>2, <1>3, <1>5, <2>1 DEF Grows
  <2>. QED
    BY <1>4, <1>5, <1>6, <2>2, <2>3
<1>7. Total(new) = SumTo(BytesOf(all), LocalFrom(all), k) + SumTo(BytesOf(all), LocalTo(all), k)
  <2>1. /\ k \in LocalFrom(all) <=> IsLocal(conn.src)
        /\ k \in LocalTo(all) <=> IsLocal(conn.dst) /\ conn.src # Unset
    BY <1>1, <1>2 DEF LocalFrom, LocalTo
  <2>2. Total(ds) = SumTo(BytesOf(all), LocalFrom(all), k - 1) + SumTo(BytesOf(all), LocalTo(all), k - 1)
    BY DEF DevicesAddUp
  <2>3. /\ SumTo(BytesOf(all), LocalFrom(all), k) = SumTo(BytesOf(all), LocalFrom(all), k - 1)
             + (IF IsLocal(conn.src) THEN Bytes(conn) ELSE 0)
        /\ SumTo(BytesOf(all), LocalTo(all), k) = SumTo(BytesOf(all), LocalTo(all), k - 1)
             + (IF IsLocal(conn.dst) /\ conn.src # Unset THEN Bytes(conn) ELSE 0)
        /\ SumTo(BytesOf(all), LocalFrom(all), k - 1) \in Nat
        /\ SumTo(BytesOf(all), LocalTo(all), k - 1) \in Nat
    BY <1>2, <1>3, <1>5, <2>1 DEF Grows
  <2>. QED
    BY <1>4, <1>5, <2>2, <2>3
<1>8. Failures(new) = SumTo(OnesOf(all), FailedFrom(all), k)
  <2>1. k \in FailedFrom(all) <=> conn.failed /\ IsLocal(conn.src)
    BY <1>1, <1>2 DEF FailedFrom
  <2>2. Failures(ds) = SumTo(OnesOf(all), FailedFrom(all), k - 1)
    BY DEF DevicesAddUp
  <2>3. SumTo(OnesOf(all), FailedFrom(all), k) = SumTo(OnesOf(all), FailedFrom(all), k - 1)
             + (IF conn.failed /\ IsLocal(conn.src) THEN 1 ELSE 0)
        /\ SumTo(OnesOf(all), FailedFrom(all), k - 1) \in Nat
    BY <1>2, <1>3, <1>5, <2>1 DEF Grows
  <2>. QED
    BY <1>4, <2>2, <2>3 DEF One
<1>. QED
  BY <1>1, <1>4, <1>6, <1>7, <1>8 DEF DevicesAddUp

\* calculate_device_metrics agrees with all connections.
LEMMA DeviceMetricsAddUp ==
  ASSUME NEW all \in Seq(Connection)
  PROVE  DevicesAddUp(all, DeviceMetrics(all), Len(all))
<1>1. PICK D \in [0..Len(all) -> Devices] :
        /\ D[0] = <<>> /\ \A k \in 1..Len(all) : D[k] = AddConnection(D[k - 1], all[k])
        /\ DeviceMetrics(all) = D[Len(all)]
  BY DeviceMetricsFolds
<1>. DEFINE T == {k \in Nat : k <= Len(all) => DevicesAddUp(all, D[k], k)}
<1>2. Len(all) \in Nat
  OBVIOUS
<1>3. 0 \in T
  BY <1>1, NoDevicesAddUp
<1>4. ASSUME NEW k \in Nat, k \in T PROVE k + 1 \in T
  <2>1. CASE k + 1 <= Len(all)
    <3>1. k + 1 \in Places(Len(all)) /\ (k + 1) - 1 = k /\ k + 1 \in 1..Len(all)
      BY <1>2, <2>1 DEF Places
    <3>2. DevicesAddUp(all, D[k], k)
      BY <1>2, <1>4, <2>1
    <3>3. D[k + 1] = AddConnection(D[k], all[k + 1])
      BY <1>1, <3>1
    <3>4. DevicesAddUp(all, D[k + 1], k + 1)
      BY <3>1, <3>2, <3>3, MoreDevicesAddUp
    <3>. QED
      BY <3>4
  <2>. QED
    BY <2>1
<1>5. Len(all) \in T
  <2>. HIDE DEF T
  <2>. QED
    BY <1>2, <1>3, <1>4, SetInduction
<1>. QED
  BY <1>1, <1>2, <1>5

\* What is true of the network after k connections.
NetworkAddsUp(all, network, k) ==
  /\ network \in Networks
  /\ network.internal + network.external = SumTo(BytesOf(all), DOMAIN all, k)
  /\ network.external = SumTo(BytesOf(all), Beyond(all), k)
  /\ 2 * network.internal
       <= SumTo(BytesOf(all), LocalFrom(all), k) + SumTo(BytesOf(all), LocalTo(all), k)

\* AddToNetwork keeps the network in agreement with the connections so far.
LEMMA MoreNetworkAddsUp ==
  ASSUME NEW all \in Seq(Connection), NEW k \in Places(Len(all)), NEW network,
         NetworkAddsUp(all, network, k - 1)
  PROVE  NetworkAddsUp(all, AddToNetwork(network, all[k]), k)
<1>1. PICK n, conn, new, bytes :
        n = Len(all) /\ conn = all[k] /\ new = AddToNetwork(network, conn) /\ bytes = Bytes(conn)
  OBVIOUS
<1>2. n \in Nat /\ k \in DOMAIN all /\ conn \in Connection /\ k \in 0..n /\ k - 1 \in 0..n
      /\ k \in Places(n)
  BY <1>1 DEF Places
<1>3. /\ Grows(BytesOf(all), DOMAIN all, n) /\ Grows(BytesOf(all), Beyond(all), n)
      /\ Grows(BytesOf(all), LocalFrom(all), n) /\ Grows(BytesOf(all), LocalTo(all), n)
  BY <1>1, SumsGrow DEF Beyond, LocalFrom, LocalTo
<1>4. BytesOf(all)[k] = bytes /\ bytes \in Nat
  BY <1>1, <1>2, BytesType DEF BytesOf
<1>5. PICK inside : inside = (IsLocal(conn.src) /\ IsLocal(conn.dst))
  OBVIOUS
<1>6. /\ new \in Networks
      /\ new.internal = network.internal + IF inside THEN bytes ELSE 0
      /\ new.external = network.external + IF inside THEN 0 ELSE bytes
  <2>1. LET is == AddToNetwork(network, conn)
            within == IsLocal(conn.src) /\ IsLocal(conn.dst)
        IN /\ is \in Networks
           /\ is.internal = network.internal + IF within THEN Bytes(conn) ELSE 0
           /\ is.external = network.external + IF within THEN 0 ELSE Bytes(conn)
    BY <1>2, AddToNetworkType DEF NetworkAddsUp
  <2>. QED
    BY <1>1, <1>5, <2>1
<1>7. PICK everything, beyond, from, to :
        /\ everything = SumTo(BytesOf(all), DOMAIN all, k - 1)
        /\ beyond = SumTo(BytesOf(all), Beyond(all), k - 1)
        /\ from = SumTo(BytesOf(all), LocalFrom(all), k - 1)
        /\ to = SumTo(BytesOf(all), LocalTo(all), k - 1)
  OBVIOUS
<1>8. /\ everything \in Nat /\ beyond \in Nat /\ from \in Nat /\ to \in Nat
      /\ SumTo(BytesOf(all), DOMAIN all, k) = everything + bytes
      /\ SumTo(BytesOf(all), Beyond(all), k) = beyond + IF inside THEN 0 ELSE bytes
      /\ SumTo(BytesOf(all), LocalFrom(all), k) >= from + IF inside THEN bytes ELSE 0
      /\ SumTo(BytesOf(all), LocalTo(all), k) >= to + IF inside THEN bytes ELSE 0
  <2>1. k \in Beyond(all) <=> ~inside
    BY <1>1, <1>2, <1>5 DEF Beyond
  <2>2. inside => k \in LocalFrom(all) /\ k \in LocalTo(all)
    <3>1. ~IsLocal(Unset)
      BY MetricsAssumption DEF IsLocal, Address
    <3>. QED
      BY <1>1, <1>2, <1>5, <3>1 DEF LocalFrom, LocalTo
  <2>3. everything \in Nat /\ beyond \in Nat /\ from \in Nat /\ to \in Nat
    BY <1>2, <1>3, <1>7 DEF Grows
  <2>4. /\ SumTo(BytesOf(all), DOMAIN all, k) = everything + bytes
        /\ SumTo(BytesOf(all), Beyond(all), k) = beyond + IF inside THEN 0 ELSE bytes
    BY <1>2, <1>3, <1>4, <1>7, <2>1, <2>3 DEF Grows
  <2>5. /\ SumTo(BytesOf(all), LocalFrom(all), k) = from + IF k \in LocalFrom(all) THEN bytes ELSE 0
        /\ SumTo(BytesOf(all), LocalTo(all), k) = to + IF k \in LocalTo(all) THEN bytes ELSE 0
    BY <1>2, <1>3, <1>4, <1>7 DEF Grows
  <2>. QED
    BY <1>4, <2>2, <2>3, <2>4, <2>5
<1>9. /\ network.internal \in Nat /\ network.external \in Nat
      /\ network.internal + network.external = everything
      /\ network.external = beyond /\ 2 * network.internal <= from + to
  BY <1>7 DEF NetworkAddsUp, Networks
<1>10. /\ SumTo(BytesOf(all), LocalFrom(all), k) \in Nat
       /\ SumTo(BytesOf(all), LocalTo(all), k) \in Nat
  BY <1>2, <1>3 DEF Grows
<1>11. /\ new.internal + new.external = SumTo(BytesOf(all), DOMAIN all, k)
       /\ new.external = SumTo(BytesOf(all), Beyond(all), k)
       /\ 2 * new.internal
            <= SumTo(BytesOf(all), LocalFrom(all), k) + SumTo(BytesOf(all), LocalTo(all), k)
  <2>1. PICK internal, external, toall, tobeyond, fromk, tok :
          /\ internal = network.internal /\ external = network.external
          /\ toall = SumTo(BytesOf(all), DOMAIN all, k)
          /\ tobeyond = SumTo(BytesOf(all), Beyond(all), k)
          /\ fromk = SumTo(BytesOf(all), LocalFrom(all), k)
          /\ tok = SumTo(BytesOf(all), LocalTo(all), k)
    OBVIOUS
  <2>0. /\ everything \in Nat /\ beyond \in Nat /\ from \in Nat /\ to \in Nat
        /\ internal \in Nat /\ external \in Nat /\ fromk \in Nat /\ tok \in Nat
        /\ internal + external = everything /\ external = beyond /\ 2 * internal <= from + to
    BY <1>8, <1>9, <1>10, <2>1
  <2>. SUFFICES new.internal + new.external = toall /\ new.external = tobeyond
                /\ 2 * new.internal <= fromk + tok
    BY <2>1
  <2>2. CASE inside
    <3>1. new.internal = internal + bytes /\ new.external = external
      BY <1>6, <1>9, <2>1, <2>2
    <3>2. toall = everything + bytes /\ tobeyond = beyond
          /\ fromk >= from + bytes /\ tok >= to + bytes
      BY <1>8, <2>1, <2>2
    <3>. QED
      BY <1>4, <2>0, <3>1, <3>2
  <2>3. CASE ~inside
    <3>1. new.internal = internal /\ new.external = external + bytes
      BY <1>6, <1>9, <2>1, <2>3
    <3>2. toall = everything + bytes /\ tobeyond = beyond + bytes /\ fromk >= from /\ tok >= to
      BY <1>8, <2>1, <2>3
    <3>. QED
      BY <1>4, <2>0, <3>1, <3>2
  <2>. QED
    BY <2>2, <2>3
<1>. QED
  BY <1>1, <1>6, <1>11 DEF NetworkAddsUp

\* calculate_network_metrics agrees with all connections.
LEMMA NetworkMetricsAddUp ==
  ASSUME NEW all \in Seq(Connection)
  PROVE  NetworkAddsUp(all, NetworkMetrics(all), Len(all))
<1>1. PICK D \in [0..Len(all) -> Networks] :
        /\ D[0] = NoTraffic(Len(all))
        /\ \A k \in 1..Len(all) : D[k] = AddToNetwork(D[k - 1], all[k])
        /\ NetworkMetrics(all) = D[Len(all)]
  BY NetworkMetricsFolds
<1>. DEFINE T == {k \in Nat : k <= Len(all) => NetworkAddsUp(all, D[k], k)}
<1>2. Len(all) \in Nat
  OBVIOUS
<1>3. 0 \in T
  <2>1. /\ Grows(BytesOf(all), DOMAIN all, Len(all)) /\ Grows(BytesOf(all), Beyond(all), Len(all))
        /\ Grows(BytesOf(all), LocalFrom(all), Len(all)) /\ Grows(BytesOf(all), LocalTo(all), Len(all))
    BY SumsGrow DEF Beyond, LocalFrom, LocalTo
  <2>2. NoTraffic(Len(all)).internal = 0 /\ NoTraffic(Len(all)).external = 0
        /\ NoTraffic(Len(all)) \in Networks
    BY <1>2 DEF NoTraffic, Networks
  <2>. QED
    BY <1>1, <2>1, <2>2 DEF NetworkAddsUp, Grows
<1>4. ASSUME NEW k \in Nat, k \in T PROVE k + 1 \in T
  <2>1. CASE k + 1 <= Len(all)
    <3>1. k + 1 \in Places(Len(all)) /\ (k + 1) - 1 = k /\ k + 1 \in 1..Len(all)
      BY <1>2, <2>1 DEF Places
    <3>2. NetworkAddsUp(all, D[k], k)
      BY <1>2, <1>4, <2>1
    <3>3. D[k + 1] = AddToNetwork(D[k], all[k + 1])
      BY <1>1, <3>1
    <3>4. NetworkAddsUp(all, D[k + 1], k + 1)
      BY <3>1, <3>2, <3>3, MoreNetworkAddsUp
    <3>. QED
      BY <3>4
  <2>. QED
    BY <2>1
<1>5. Len(all) \in T
  <2>. HIDE DEF T
  <2>. QED
    BY <1>2, <1>3, <1>4, SetInduction
<1>. QED
  BY <1>1, <1>2, <1>5

-----------------------------------------------------------------------------
\* What went outside according to the destinations, link-local ones aside.
Listed(recent) == {key \in DOMAIN recent : key[2] \notin LinkLocal}
OutsideBytes(recent) ==
  SumFunctionOnSet([key \in DOMAIN recent |-> recent[key].bytes], Listed(recent))
RecentAddsUp(all, recent, k) ==
  /\ recent \in Recents /\ IsFiniteSet(DOMAIN recent)
  /\ OutsideBytes(recent) <= SumTo(BytesOf(all), Beyond(all), k)

\* The connections with the names of their destinations.
WithNames(all, names) == [i \in DOMAIN all |-> [conn |-> all[i], host |-> names[i]]]

\* The bytes of the destinations listed can be added up.
LEMMA RecentSummable ==
  ASSUME NEW recent \in Recents, IsFiniteSet(DOMAIN recent)
  PROVE  /\ Summable([key \in DOMAIN recent |-> recent[key].bytes], Listed(recent))
         /\ OutsideBytes(recent) \in Nat
<1>1. Listed(recent) \subseteq DOMAIN recent
  BY DEF Listed
<1>2. IsFiniteSet(Listed(recent))
  BY <1>1, FS_Subset
<1>3. Summable([key \in DOMAIN recent |-> recent[key].bytes], Listed(recent))
  BY <1>1, <1>2, RecentsType DEF Summable, Recent
<1>. QED
  BY <1>3, SumType DEF OutsideBytes

\* More bytes are listed for a key only if it is outside.
LEMMA PutRecent ==
  ASSUME NEW recent \in Recents, IsFiniteSet(DOMAIN recent), NEW key \in Pair,
         NEW new \in Recent, NEW bytes \in Nat, new.bytes = OldRecent(recent, key).bytes + bytes
  PROVE  /\ IsFiniteSet(DOMAIN Put(recent, key, new))
         /\ OutsideBytes(Put(recent, key, new))
              = OutsideBytes(recent) + IF key[2] \notin LinkLocal THEN bytes ELSE 0
<1>. DEFINE put == Put(recent, key, new)
            D == DOMAIN recent
            value(r) == [k \in DOMAIN r |-> r[k].bytes]
<1>1. DOMAIN put = D \cup {key} /\ \A k \in D \cup {key} : put[k] = IF k = key THEN new ELSE recent[k]
  BY DEF Put
<1>2. put \in Recents
  <2>1. D \cup {key} \in SUBSET Pair
    BY RecentsType
  <2>2. put \in [D \cup {key} -> Recent]
    BY RecentsType DEF Put
  <2>. QED
    BY <2>1, <2>2 DEF Recents
<1>3. IsFiniteSet(DOMAIN put)
  BY <1>1, FS_AddElement
<1>. HIDE DEF put
<1>4. /\ Summable(value(recent), Listed(recent)) /\ Summable(value(put), Listed(put))
      /\ OutsideBytes(recent) \in Nat /\ OutsideBytes(put) \in Nat
  BY <1>2, <1>3, RecentSummable
<1>5. /\ OutsideBytes(recent) = SumFunctionOnSet(value(recent), Listed(recent))
      /\ OutsideBytes(put) = SumFunctionOnSet(value(put), Listed(put))
  BY DEF OutsideBytes
<1>6. \A k \in Listed(recent) \ {key} : value(put)[k] = value(recent)[k]
  BY <1>1 DEF Listed
<1>7. value(put)[key] = new.bytes
  BY <1>1
<1>8. CASE key[2] \notin LinkLocal
  <2>1. Listed(put) = Listed(recent) \cup {key}
    BY <1>1, <1>8 DEF Listed
  <2>2. OldRecent(recent, key).bytes = IF key \in Listed(recent) THEN value(recent)[key] ELSE 0
    BY <1>8 DEF OldRecent, Listed
  <2>3. OldRecent(recent, key).bytes \in Nat
    BY RecentsType DEF Recent
  <2>4. SumFunctionOnSet(value(put), Listed(recent) \cup {key})
          + (IF key \in Listed(recent) THEN value(recent)[key] ELSE 0)
          = SumFunctionOnSet(value(recent), Listed(recent)) + value(put)[key]
    <3>. HIDE DEF value
    <3>. QED
      BY <1>4, <1>6, <2>1, SumPut
  <2>5. OutsideBytes(put) + OldRecent(recent, key).bytes = OutsideBytes(recent) + new.bytes
    BY <1>5, <1>7, <2>1, <2>2, <2>4
  <2>. QED
    BY <1>3, <1>4, <1>8, <2>3, <2>5 DEF put
<1>9. CASE key[2] \in LinkLocal
  <2>1. Listed(put) = Listed(recent) /\ key \notin Listed(recent)
    BY <1>1, <1>9 DEF Listed
  <2>2. SumFunctionOnSet(value(recent), Listed(recent)) = SumFunctionOnSet(value(put), Listed(recent))
    <3>1. \A k \in Listed(recent) : value(recent)[k] = value(put)[k]
      BY <1>6, <2>1
    <3>. HIDE DEF value
    <3>. QED
      BY <1>4, <3>1, SumSame
  <2>. QED
    BY <1>3, <1>4, <1>5, <1>9, <2>1, <2>2 DEF put
<1>. QED
  BY <1>8, <1>9

\* AddRecent lists no more bytes than the connections so far had beyond the network.
LEMMA MoreRecentAddsUp ==
  ASSUME NEW all \in Seq(Connection), NEW k \in Places(Len(all)), NEW recent,
         RecentAddsUp(all, recent, k - 1), NEW host \in Host
  PROVE  RecentAddsUp(all, AddRecent(recent, [conn |-> all[k], host |-> host]), k)
<1>1. PICK n, conn, named, bytes : n = Len(all) /\ conn = all[k] /\ bytes = Bytes(conn)
                                   /\ named = [conn |-> conn, host |-> host]
  OBVIOUS
<1>2. n \in Nat /\ k \in DOMAIN all /\ conn \in Connection /\ k \in 0..n /\ k - 1 \in 0..n
      /\ k \in Places(n)
  BY <1>1 DEF Places
<1>3. Grows(BytesOf(all), Beyond(all), n)
  BY <1>1, SumsGrow DEF Beyond
<1>4. BytesOf(all)[k] = bytes /\ bytes \in Nat
  BY <1>1, <1>2, BytesType DEF BytesOf
<1>5. named \in Named /\ named.conn = conn
  BY <1>1, <1>2 DEF Named
<1>6. recent \in Recents /\ IsFiniteSet(DOMAIN recent) /\ OutsideBytes(recent) \in Nat
      /\ OutsideBytes(recent) <= SumTo(BytesOf(all), Beyond(all), k - 1)
  BY RecentSummable DEF RecentAddsUp
<1>7. PICK before, after : /\ before = SumTo(BytesOf(all), Beyond(all), k - 1)
                           /\ after = SumTo(BytesOf(all), Beyond(all), k)
  OBVIOUS
<1>8. before \in Nat /\ after \in Nat
      /\ after = before + IF k \in Beyond(all) THEN bytes ELSE 0
  BY <1>2, <1>3, <1>4, <1>7 DEF Grows
<1>9. CASE ~Outbound(conn)
  <2>1. AddRecent(recent, named) = recent
    BY <1>5, <1>6, <1>9, AddRecentPuts
  <2>2. OutsideBytes(recent) <= after
    BY <1>4, <1>6, <1>7, <1>8
  <2>. QED
    BY <1>1, <1>6, <1>7, <2>1, <2>2 DEF RecentAddsUp
<1>10. CASE Outbound(conn)
  <2>1. PICK new \in Recent : /\ Key(conn) \in Pair
                              /\ new.bytes = OldRecent(recent, Key(conn)).bytes + bytes
                              /\ AddRecent(recent, named) = Put(recent, Key(conn), new)
    BY <1>1, <1>5, <1>6, <1>10, AddRecentPuts
  <2>2. Put(recent, Key(conn), new) \in Recents
    BY <1>5, <1>6, <2>1, AddRecentType
  <2>3. /\ IsFiniteSet(DOMAIN Put(recent, Key(conn), new))
        /\ OutsideBytes(Put(recent, Key(conn), new))
             = OutsideBytes(recent) + IF Key(conn)[2] \notin LinkLocal THEN bytes ELSE 0
    BY <1>4, <1>6, <2>1, PutRecent
  <2>4. Key(conn)[2] \notin LinkLocal => k \in Beyond(all)
    BY <1>1, <1>2, <1>10 DEF Key, Beyond, Outbound, IsPrivate, IsLocal
  <2>5. OutsideBytes(Put(recent, Key(conn), new)) <= after
    <3>1. PICK key : key = Key(conn)[2]
      OBVIOUS
    <3>2. CASE key \notin LinkLocal
      BY <1>4, <1>6, <1>7, <1>8, <2>3, <2>4, <3>1, <3>2
    <3>3. CASE key \in LinkLocal
      BY <1>4, <1>6, <1>7, <1>8, <2>3, <3>1, <3>3
    <3>. QED
      BY <3>2, <3>3
  <2>. QED
    BY <1>1, <1>7, <2>1, <2>2, <2>3, <2>5 DEF RecentAddsUp
<1>. QED
  BY <1>9, <1>10

\* save_recent_connections lists no more bytes than the file has beyond the network.
LEMMA RecentConnectionsAddUp ==
  ASSUME NEW all \in Seq(Connection), NEW names \in Seq(Host), Len(names) = Len(all)
  PROVE  LET recent == RecentConnections(WithNames(all, names))
         IN  recent \in Recents /\ IsFiniteSet(DOMAIN recent)
             /\ OutsideBytes(recent) <= SumFunctionOnSet(BytesOf(all), Beyond(all))
<1>. DEFINE named == WithNames(all, names)
<1>1. Len(all) \in Nat /\ DOMAIN all = 1..Len(all) /\ DOMAIN names = DOMAIN all
      /\ \A k \in DOMAIN all : all[k] \in Connection /\ names[k] \in Host
  OBVIOUS
<1>2. /\ named \in Seq(Named) /\ Len(named) = Len(all)
      /\ \A k \in 1..Len(all) : named[k] = [conn |-> all[k], host |-> names[k]]
  <2>1. \A k \in DOMAIN all : [conn |-> all[k], host |-> names[k]] \in Named
    BY <1>1 DEF Named
  <2>2. named \in [1..Len(all) -> Named]
    BY <1>1, <2>1 DEF WithNames
  <2>. QED
    BY <1>1, <2>2 DEF WithNames
<1>. HIDE DEF named
<1>3. PICK D \in [0..Len(all) -> Recents] :
        /\ D[0] = <<>> /\ \A k \in 1..Len(all) : D[k] = AddRecent(D[k - 1], named[k])
        /\ Grouped(named) = D[Len(all)]
  BY <1>2, GroupedFolds
<1>. DEFINE T == {k \in Nat : k <= Len(all) => RecentAddsUp(all, D[k], k)}
<1>4. 0 \in T
  <2>1. Grows(BytesOf(all), Beyond(all), Len(all))
    BY SumsGrow DEF Beyond
  <2>2. DOMAIN <<>> = {} /\ IsFiniteSet(DOMAIN <<>>) /\ <<>> \in Recents
    BY <1>1, <1>3, FS_EmptySet
  <2>3. OutsideBytes(<<>>) = 0
    <3>1. Listed(<<>>) = {}
      BY <2>2 DEF Listed
    <3>. QED
      BY <2>2, <3>1, RecentSummable, SumType DEF OutsideBytes
  <2>. QED
    BY <1>3, <2>1, <2>2, <2>3 DEF RecentAddsUp, Grows
<1>5. ASSUME NEW k \in Nat, k \in T PROVE k + 1 \in T
  <2>1. CASE k + 1 <= Len(all)
    <3>1. k + 1 \in Places(Len(all)) /\ (k + 1) - 1 = k /\ k + 1 \in 1..Len(all)
      BY <1>1, <2>1 DEF Places
    <3>2. RecentAddsUp(all, D[k], k)
      BY <1>1, <1>5, <2>1
    <3>3. D[k + 1] = AddRecent(D[k], [conn |-> all[k + 1], host |-> names[k + 1]])
      BY <1>2, <1>3, <3>1
    <3>4. names[k + 1] \in Host
      BY <1>1, <3>1
    <3>5. RecentAddsUp(all, D[k + 1], k + 1)
      BY <3>1, <3>2, <3>3, <3>4, MoreRecentAddsUp
    <3>. QED
      BY <3>5
  <2>. QED
    BY <2>1
<1>6. Len(all) \in T
  <2>. HIDE DEF T
  <2>. QED
    BY <1>1, <1>4, <1>5, SetInduction
<1>7. RecentAddsUp(all, Grouped(named), Len(all))
  BY <1>1, <1>3, <1>6
<1>8. SumTo(BytesOf(all), Beyond(all), Len(all)) = SumFunctionOnSet(BytesOf(all), Beyond(all))
  BY SumsGrow DEF Beyond, Grows
<1>9. PICK grouped, recent : grouped = Grouped(named) /\ recent = RecentConnections(named)
  OBVIOUS
<1>10. grouped \in Recents /\ IsFiniteSet(DOMAIN grouped)
       /\ OutsideBytes(grouped) <= SumFunctionOnSet(BytesOf(all), Beyond(all))
  BY <1>7, <1>8, <1>9 DEF RecentAddsUp
<1>11. recent = [key \in {k \in DOMAIN grouped : k[1] \in Known} |-> grouped[key]]
  BY <1>9 DEF RecentConnections, Grouped
<1>12. /\ DOMAIN recent \subseteq DOMAIN grouped
       /\ \A key \in DOMAIN recent : recent[key] = grouped[key]
  BY <1>11
<1>13. recent \in Recents /\ IsFiniteSet(DOMAIN recent)
  <2>1. DOMAIN recent \in SUBSET Pair /\ recent \in [DOMAIN recent -> Recent]
    BY <1>10, <1>11, <1>12, RecentsType
  <2>2. IsFiniteSet(DOMAIN recent)
    BY <1>10, <1>12, FS_Subset
  <2>. QED
    BY <2>1, <2>2 DEF Recents
<1>14. OutsideBytes(recent) <= OutsideBytes(grouped)
  <2>. DEFINE value(r) == [k \in DOMAIN r |-> r[k].bytes]
  <2>1. /\ Summable(value(grouped), Listed(grouped)) /\ Summable(value(recent), Listed(recent))
    BY <1>10, <1>13, RecentSummable
  <2>2. Listed(recent) \subseteq Listed(grouped)
        /\ \A k \in Listed(recent) : value(recent)[k] = value(grouped)[k]
    BY <1>12 DEF Listed
  <2>. HIDE DEF value
  <2>3. SumFunctionOnSet(value(recent), Listed(recent))
          = SumFunctionOnSet(value(grouped), Listed(recent))
    BY <2>1, <2>2, SumSame
  <2>4. SumFunctionOnSet(value(grouped), Listed(recent))
          <= SumFunctionOnSet(value(grouped), Listed(grouped))
    BY <2>1, <2>2, SumSubset
  <2>. QED
    BY <2>3, <2>4 DEF OutsideBytes, value
<1>15. OutsideBytes(recent) <= SumFunctionOnSet(BytesOf(all), Beyond(all))
  <2>1. OutsideBytes(recent) \in Nat /\ OutsideBytes(grouped) \in Nat
    BY <1>10, <1>13, RecentSummable
  <2>2. SumFunctionOnSet(BytesOf(all), Beyond(all)) \in Nat
    BY ValuesSummable, SumType DEF Beyond
  <2>. QED
    BY <1>10, <1>14, <2>1, <2>2
<1>. QED
  BY <1>9, <1>13, <1>15 DEF named

-----------------------------------------------------------------------------
(* The invariant of the analyses, and that their traffic adds up. *)

\* The result of an analysis is that of its connections and their names.
ResultOf(all, names) ==
  [devices |-> DeviceMetrics(all), network |-> NetworkMetrics(all),
   talkers |-> TopTalkers(DeviceMetrics(all)), recent |-> RecentConnections(WithNames(all, names))]
ResultInv ==
  TypeOK /\ \A a \in Calculated : /\ Len(hosts[a]) = Len(conns[a])
                                  /\ result[a] = ResultOf(conns[a], hosts[a])

\* Only Calculate ends an analysis that has connections.
LEMMA ResultStep ==
  ASSUME ResultInv, TypeOK', NEW a \in Analyses,
         \/ ReadLog(a) \/ EnrichInside(a) \/ EnrichCached(a)
         \/ Lookup(a) \/ Resolved(a) \/ Calculate(a)
  PROVE  ResultInv'
<1>1. TypeOK /\ pc \in [Analyses -> {"log", "enrich", "lookup", "end"}] /\ DOMAIN result = Analyses
  BY DEF ResultInv, TypeOK
<1>2. ASSUME NEW b \in Analyses, b # a
      PROVE  pc'[b] = pc[b] /\ conns'[b] = conns[b] /\ hosts'[b] = hosts[b] /\ result'[b] = result[b]
  BY <1>1, <1>2 DEF ReadLog, EnrichInside, EnrichCached, Lookup, Resolved, Calculate, Goto, AddHost, TypeOK
<1>3. CASE Calculate(a)
  <2>1. /\ result'[a] = ResultOf(conns[a], hosts[a]) /\ Len(hosts[a]) = Len(conns[a])
        /\ UNCHANGED <<conns, hosts>>
    BY <1>1, <1>3 DEF Calculate, ResultOf, WithNames
  <2>. QED
    BY <1>1, <1>2, <2>1 DEF ResultInv, Calculated
<1>4. CASE ~Calculate(a)
  <2>1. a \notin Calculated'
    <3>1. CASE ReadLog(a)
      <4>1. PICK n \in 0..(MaxRows - Used) :
              /\ \E rows \in [1..n -> Rows] : conns' = [conns EXCEPT ![a] = [i \in 1..n |-> Parse(rows[i])]]
              /\ pc' = [pc EXCEPT ![a] = IF n = 0 THEN "end" ELSE "enrich"]
        BY <3>1 DEF ReadLog, Goto
      <4>2. PICK rows \in [1..n -> Rows] : conns' = [conns EXCEPT ![a] = [i \in 1..n |-> Parse(rows[i])]]
        BY <4>1
      <4>3. CASE n = 0
        <5>1. conns'[a] = [i \in 1..0 |-> Parse(rows[i])]
          BY <1>1, <4>2, <4>3 DEF TypeOK
        <5>2. conns'[a] = <<>>
          <6>1. PICK seq : seq = conns'[a]
            OBVIOUS
          <6>2. seq \in Seq(Connection)
            BY <6>1 DEF TypeOK
          <6>3. DOMAIN seq = 1..0
            BY <5>1, <6>1
          <6>4. Len(seq) = 0
            BY <6>2, <6>3
          <6>. QED
            BY <6>1, <6>2, <6>4
        <5>. QED
          BY <5>2 DEF Calculated
      <4>4. CASE n # 0
        BY <1>1, <4>1, <4>4 DEF Calculated
      <4>. QED
        BY <4>3, <4>4
    <3>2. CASE EnrichInside(a) \/ EnrichCached(a) \/ Lookup(a) \/ Resolved(a)
      BY <1>1, <3>2 DEF EnrichInside, EnrichCached, Enriching, Lookup, Resolved, Goto, Calculated
    <3>. QED
      BY <1>4, <3>1, <3>2
  <2>. QED
    BY <1>1, <1>2, <2>1 DEF ResultInv, Calculated
<1>. QED
  BY <1>3, <1>4

\* The result of every analysis is that of its connections and names: no thread
\* changes the data of another.
THEOREM ResultInvariant == Spec => []ResultInv
<1>1. Init => ResultInv
  <2>1. Init => TypeOK
    BY DEF Init, TypeOK
  <2>. QED
    BY <2>1 DEF Init, ResultInv, Calculated
<1>2. ResultInv /\ TypeOK' /\ [Next]_vars => ResultInv'
  <2>1. ResultInv /\ TypeOK' /\ UNCHANGED vars => ResultInv'
    BY DEF vars, ResultInv, Calculated
  <2>. QED
    BY <2>1, ResultStep DEF Next
<1>. QED
  BY <1>1, <1>2, TypeCorrect, PTL DEF Spec

\* calculate_device_metrics, calculate_network_metrics and save_recent_connections
\* lose no traffic of any file, count none of it twice, and agree with each other.
THEOREM TrafficAdded == Spec => []TrafficAddsUp
<1>1. ASSUME ResultInv PROVE TrafficAddsUp
  <2>. SUFFICES ASSUME NEW a \in Calculated
       PROVE LET all == conns[a]
                 devices == result[a].devices
                 network == result[a].network
                 recent == result[a].recent
                 Sourced(conn) == conn.src # Unset
                 Outside(key) == key[2] \notin LinkLocal
             IN /\ \A ip \in DOMAIN devices :
                     /\ devices[ip].in = SumOver(all, Resp, LAMBDA c : c.src = ip)
                          + SumOver(all, Orig, LAMBDA c : c.dst = ip /\ Sourced(c))
                     /\ devices[ip].in + devices[ip].out = devices[ip].total
                /\ Total(devices)
                     = SumOver(all, Bytes, LAMBDA c : IsLocal(c.src))
                       + SumOver(all, Bytes, LAMBDA c : IsLocal(c.dst) /\ Sourced(c))
                /\ network.internal + network.external = SumOver(all, Bytes, All)
                /\ 2 * network.internal <= Total(devices)
                /\ SumFunction([ip \in DOMAIN devices |-> devices[ip].failed])
                     = SumOver(all, Count, LAMBDA c : c.failed /\ IsLocal(c.src))
                /\ SumFunctionOnSet([key \in DOMAIN recent |-> recent[key].bytes],
                                    {key \in DOMAIN recent : Outside(key)}) <= network.external
    BY DEF TrafficAddsUp
  <2>1. PICK all, names, devices, network, recent :
          /\ all = conns[a] /\ names = hosts[a] /\ devices = result[a].devices
          /\ network = result[a].network /\ recent = result[a].recent
    OBVIOUS
  <2>2. /\ all \in Seq(Connection) /\ names \in Seq(Host) /\ Len(names) = Len(all)
        /\ result[a] = ResultOf(all, names)
    BY <1>1, <2>1 DEF ResultInv, TypeOK, Calculated
  <2>3. /\ devices = DeviceMetrics(all) /\ network = NetworkMetrics(all)
        /\ recent = RecentConnections(WithNames(all, names))
    BY <2>1, <2>2 DEF ResultOf
  <2>4. /\ \A ip : Grows(RespOf(all), From(all, ip), Len(all)) /\ Grows(OrigOf(all), To(all, ip), Len(all))
        /\ Grows(BytesOf(all), LocalFrom(all), Len(all)) /\ Grows(BytesOf(all), LocalTo(all), Len(all))
        /\ Grows(OnesOf(all), FailedFrom(all), Len(all)) /\ Grows(BytesOf(all), DOMAIN all, Len(all))
        /\ Grows(BytesOf(all), Beyond(all), Len(all))
    BY <2>2, SumsGrow DEF From, To, LocalFrom, LocalTo, FailedFrom, Beyond
  <2>5. DevicesAddUp(all, devices, Len(all)) /\ NetworkAddsUp(all, network, Len(all))
        /\ OutsideBytes(recent) <= SumFunctionOnSet(BytesOf(all), Beyond(all))
    BY <2>2, <2>3, DeviceMetricsAddUp, NetworkMetricsAddUp, RecentConnectionsAddUp
  <2>6. ASSUME NEW ip \in DOMAIN devices
        PROVE  /\ devices[ip].in = SumFunctionOnSet(RespOf(all), From(all, ip))
                                     + SumFunctionOnSet(OrigOf(all), To(all, ip))
               /\ devices[ip].in + devices[ip].out = devices[ip].total
    BY <2>4, <2>5 DEF DevicesAddUp, LocalDevices, MetricsOf, Grows
  <2>7. /\ Total(devices) = SumFunctionOnSet(BytesOf(all), LocalFrom(all))
                              + SumFunctionOnSet(BytesOf(all), LocalTo(all))
        /\ Failures(devices) = SumFunctionOnSet(OnesOf(all), FailedFrom(all))
        /\ network.internal + network.external = SumFunctionOnSet(BytesOf(all), DOMAIN all)
        /\ 2 * network.internal <= Total(devices)
        /\ OutsideBytes(recent) <= network.external
    BY <2>4, <2>5 DEF DevicesAddUp, NetworkAddsUp, Grows
  <2>8. ASSUME NEW ip \in DOMAIN devices
        PROVE  LET Sourced(conn) == conn.src # Unset
               IN devices[ip].in = SumOver(all, Resp, LAMBDA c : c.src = ip)
                    + SumOver(all, Orig, LAMBDA c : c.dst = ip /\ Sourced(c))
    BY <2>6 DEF SumOver, RespOf, OrigOf, From, To
  <2>9. LET Sourced(conn) == conn.src # Unset
        IN Total(devices)
             = SumOver(all, Bytes, LAMBDA c : IsLocal(c.src))
               + SumOver(all, Bytes, LAMBDA c : IsLocal(c.dst) /\ Sourced(c))
    BY <2>7 DEF SumOver, BytesOf, LocalFrom, LocalTo
  <2>10. network.internal + network.external = SumOver(all, Bytes, All)
    <3>1. DOMAIN all = {i \in DOMAIN all : All(all[i])}
      BY DEF All
    <3>. QED
      BY <2>7, <3>1 DEF SumOver, BytesOf
  <2>11. SumFunction([ip \in DOMAIN devices |-> devices[ip].failed])
           = SumOver(all, Count, LAMBDA c : c.failed /\ IsLocal(c.src))
    BY <2>7 DEF SumOver, OnesOf, FailedFrom, Failures
  <2>12. LET Outside(key) == key[2] \notin LinkLocal
         IN SumFunctionOnSet([key \in DOMAIN recent |-> recent[key].bytes],
                             {key \in DOMAIN recent : Outside(key)}) <= network.external
    BY <2>7 DEF OutsideBytes, Listed
  <2>. QED
    BY <2>1, <2>6, <2>7, <2>8, <2>9, <2>10, <2>11, <2>12
<1>. QED
  BY <1>1, ResultInvariant, PTL

-----------------------------------------------------------------------------
(* The ranking. *)

\* A sequence of the elements of S, each once, by falling weight.
Descends(weight, S, seq) ==
  /\ seq \in [1..Cardinality(S) -> S]
  /\ \A i, j \in 1..Cardinality(S) : i # j => seq[i] # seq[j]
  /\ \A i, j \in 1..Cardinality(S) : i < j => weight[seq[i]] >= weight[seq[j]]

\* The lightest element may come last.
LEMMA DescendsLast ==
  ASSUME NEW S, IsFiniteSet(S), NEW weight, \A x \in S : weight[x] \in Nat,
         NEW x \in S, \A y \in S : weight[x] <= weight[y],
         NEW seq, Descends(weight, S \ {x}, seq)
  PROVE  \E longer : Descends(weight, S, longer)
<1>1. PICK n \in Nat : Cardinality(S \ {x}) = n /\ Cardinality(S) = n + 1
  <2>1. /\ IsFiniteSet(S \ {x}) /\ Cardinality(S \ {x}) = Cardinality(S) - 1
        /\ Cardinality(S) \in Nat
    BY FS_RemoveElement, FS_CardinalityType
  <2>2. Cardinality(S \ {x}) \in Nat
    BY <2>1, FS_CardinalityType
  <2>. QED
    BY <2>1, <2>2
<1>2. /\ seq \in [1..n -> S \ {x}]
      /\ \A i, j \in 1..n : i # j => seq[i] # seq[j]
      /\ \A i, j \in 1..n : i < j => weight[seq[i]] >= weight[seq[j]]
  BY <1>1 DEF Descends
<1>. DEFINE longer == [i \in 1..(n + 1) |-> IF i = n + 1 THEN x ELSE seq[i]]
<1>3. \A i \in 1..(n + 1) : \/ i = n + 1 /\ longer[i] = x
                            \/ i \in 1..n /\ i # n + 1 /\ longer[i] = seq[i] /\ seq[i] \in S \ {x}
  BY <1>2
<1>4. longer \in [1..(n + 1) -> S]
  BY <1>3
<1>. HIDE DEF longer
<1>5. \A i, j \in 1..(n + 1) : i # j => longer[i] # longer[j]
  BY <1>2, <1>3
<1>6. ASSUME NEW i \in 1..(n + 1), NEW j \in 1..(n + 1), i < j
      PROVE  weight[longer[i]] >= weight[longer[j]]
  <2>1. i \in 1..n
    BY <1>6
  <2>2. CASE j \in 1..n
    BY <1>2, <1>3, <1>6, <2>1, <2>2
  <2>3. CASE j = n + 1
    <3>1. longer[i] \in S /\ longer[j] = x
      BY <1>3, <2>3, <2>1
    <3>2. weight[x] <= weight[longer[i]] /\ weight[x] \in Nat /\ weight[longer[i]] \in Nat
      BY <3>1
    <3>. QED
      BY <3>1, <3>2
  <2>. QED
    BY <2>2, <2>3
<1>. QED
  BY <1>1, <1>4, <1>5, <1>6 DEF Descends

\* A finite set can be sorted.
LEMMA Sortable ==
  ASSUME NEW S, IsFiniteSet(S), NEW weight, \A x \in S : weight[x] \in Nat
  PROVE  \E seq : Descends(weight, S, seq)
<1>. DEFINE T == {s \in SUBSET S : \E seq : Descends(weight, s, seq)}
<1>1. ASSUME NEW s \in SUBSET S, \A x \in s : s \ {x} \in T PROVE s \in T
  <2>1. CASE s = {}
    <3>1. Cardinality(s) = 0 /\ 1..0 = {}
      BY <2>1, FS_EmptySet
    <3>2. [i \in {} |-> i] \in [{} -> s]
      OBVIOUS
    <3>3. Descends(weight, s, [i \in {} |-> i])
      BY <3>1, <3>2 DEF Descends
    <3>. QED
      BY <3>3
  <2>2. CASE s # {}
    <3>. DEFINE weights == {weight[y] : y \in s}
    <3>1. weights \in SUBSET Nat /\ weights # {}
      BY <2>2
    <3>2. PICK m \in weights : \A k \in weights : m <= k
      BY <3>1, LeastNat
    <3>3. PICK x \in s : m = weight[x]
      BY <3>2
    <3>4. \A y \in s : weight[x] <= weight[y]
      BY <3>2, <3>3
    <3>5. PICK seq : Descends(weight, s \ {x}, seq)
      BY <1>1
    <3>6. IsFiniteSet(s) /\ \A y \in s : weight[y] \in Nat
      BY FS_Subset
    <3>7. \E longer : Descends(weight, s, longer)
      BY <3>3, <3>4, <3>5, <3>6, DescendsLast
    <3>. QED
      BY <3>7
  <2>. QED
    BY <2>1, <2>2
<1>2. Hereditary(T, S)
  BY <1>1 DEF Hereditary
<1>3. SUBSET S \subseteq T
  <2>. HIDE DEF T
  <2>. QED
    BY <1>2, SubsetInduction
<1>. QED
  BY <1>3

\* So Sorted does sort, and leaves nobody out.
LEMMA SortedDescends ==
  ASSUME NEW ds, IsFiniteSet(DOMAIN ds), \A ip \in DOMAIN ds : ds[ip].total \in Nat
  PROVE  /\ Descends([ip \in DOMAIN ds |-> ds[ip].total], DOMAIN ds, Sorted(ds, DOMAIN ds))
         /\ \A ip \in DOMAIN ds : \E i \in 1..Cardinality(DOMAIN ds) : Sorted(ds, DOMAIN ds)[i] = ip
<1>. DEFINE D == DOMAIN ds
            weight == [ip \in D |-> ds[ip].total]
            n == Cardinality(D)
            Good(seq) == /\ seq \in SetToSeqs(D)
                         /\ \A i, j \in DOMAIN seq : i < j => ds[seq[i]].total >= ds[seq[j]].total
<1>1. ASSUME NEW seq PROVE Descends(weight, D, seq) <=> Good(seq)
  <2>1. seq \in SetToSeqs(D) <=> /\ seq \in [1..n -> D]
                                 /\ \A i, j \in 1..n : i # j => seq[i] # seq[j]
    BY DEF SetToSeqs
  <2>2. ASSUME seq \in [1..n -> D]
        PROVE  DOMAIN seq = 1..n /\ \A i \in 1..n : weight[seq[i]] = ds[seq[i]].total
    BY <2>2
  <2>. HIDE DEF weight, n, D
  <2>. QED
    BY <2>1, <2>2 DEF Descends, n
<1>2. PICK some : Descends(weight, D, some)
  <2>1. \A ip \in D : weight[ip] \in Nat
    OBVIOUS
  <2>. HIDE DEF weight
  <2>. QED
    BY <2>1, Sortable
<1>3. Good(some)
  BY <1>1, <1>2
<1>4. PICK seq : seq = Sorted(ds, D)
  OBVIOUS
<1>5. Good(seq)
  BY <1>3, <1>4 DEF Sorted
<1>6. Descends(weight, D, seq)
  BY <1>1, <1>5
<1>7. \A ip \in D : \E i \in 1..n : seq[i] = ip
  <2>1. n \in Nat /\ IsFiniteSet(1..n) /\ Cardinality(1..n) = n
    BY FS_CardinalityType, FS_Interval
  <2>2. seq \in Injection(1..n, D)
    <3>. HIDE DEF D, weight
    <3>. QED
      BY <1>6 DEF Descends, Injection, IsInjective
  <2>3. seq \in Surjection(1..n, D)
    <3>. HIDE DEF D
    <3>1. IsFiniteSet(D)
      BY DEF D
    <3>. QED
      BY <2>1, <2>2, <3>1, FS_Injection
  <2>. QED
    BY <2>3 DEF Surjection
<1>. QED
  BY <1>4, <1>6, <1>7

\* What devices add up to makes them fit for a ranking.
Rankable(ds) == IsFiniteSet(DOMAIN ds) /\ \A ip \in DOMAIN ds : ds[ip].total \in Nat

\* The ranking is the head of the sorted devices.
Heads(ds, talkers, k, n, seq) ==
  /\ k \in Nat /\ n \in Nat /\ seq \in [1..n -> DOMAIN ds]
  /\ k <= n /\ (k = n \/ k = TopN)
  /\ DOMAIN talkers = 1..k /\ Len(talkers) = k
  /\ \A i \in 1..k : talkers[i].ip = seq[i] /\ talkers[i].total = ds[seq[i]].total
  /\ \A i, j \in 1..n : /\ i # j => seq[i] # seq[j]
                        /\ i < j => ds[seq[i]].total >= ds[seq[j]].total
  /\ \A ip \in DOMAIN ds : \E i \in 1..n : seq[i] = ip

\* TopTalkers is such a head.
LEMMA RankingOf ==
  ASSUME NEW ds, Rankable(ds)
  PROVE  \E k, n, seq : Heads(ds, TopTalkers(ds), k, n, seq)
<1>1. PICK n \in Nat : n = Cardinality(DOMAIN ds)
  BY FS_CardinalityType DEF Rankable
<1>2. PICK seq : seq = Sorted(ds, DOMAIN ds)
  OBVIOUS
<1>3. /\ Descends([ip \in DOMAIN ds |-> ds[ip].total], DOMAIN ds, seq)
      /\ \A ip \in DOMAIN ds : \E i \in 1..n : seq[i] = ip
  BY <1>1, <1>2, SortedDescends DEF Rankable
<1>4. seq \in [1..n -> DOMAIN ds] /\ DOMAIN seq = 1..n /\ Len(seq) = n
  <2>1. seq \in [1..n -> DOMAIN ds]
    BY <1>1, <1>3 DEF Descends
  <2>2. seq \in Seq(DOMAIN ds)
    BY <2>1
  <2>. QED
    BY <2>1, <2>2
<1>5. \A i, j \in 1..n : /\ i # j => seq[i] # seq[j]
                         /\ i < j => ds[seq[i]].total >= ds[seq[j]].total
  BY <1>1, <1>3, <1>4 DEF Descends
<1>6. PICK k \in Nat : k = (IF n < TopN THEN n ELSE TopN) /\ k <= n
  BY MetricsAssumption
<1>7. PICK first : first = FirstOnes(seq)
  OBVIOUS
<1>8. DOMAIN first = 1..k /\ Len(first) = k /\ \A i \in 1..k : first[i] = seq[i]
  <2>1. first = SubSeq(seq, 1, k)
    BY <1>4, <1>6, <1>7 DEF FirstOnes
  <2>2. seq \in Seq(DOMAIN ds)
    BY <1>4
  <2>. QED
    BY <1>4, <1>6, <2>1, <2>2
<1>9. PICK talkers : talkers = TopTalkers(ds)
  OBVIOUS
<1>10. talkers = [i \in 1..k |-> [ip |-> first[i], total |-> ds[first[i]].total,
                                   hog |-> IsHog(ds, first[i])]]
  BY <1>2, <1>7, <1>8, <1>9 DEF TopTalkers, Ranking
<1>11. DOMAIN talkers = 1..k /\ Len(talkers) = k
  <2>1. DOMAIN talkers = 1..k
    BY <1>10
  <2>. QED
    BY <2>1
<1>12. \A i \in 1..k : talkers[i].ip = seq[i] /\ talkers[i].total = ds[seq[i]].total
  BY <1>8, <1>10
<1>13. Heads(ds, talkers, k, n, seq)
  BY <1>3, <1>4, <1>5, <1>6, <1>11, <1>12 DEF Heads
<1>. QED
  BY <1>9, <1>13

\* Fewer than half of the devices consume more than twice the average.
LEMMA FewHogs ==
  ASSUME NEW ds, Rankable(ds), NEW hogs, hogs = {ip \in DOMAIN ds : IsHog(ds, ip)}, hogs # {}
  PROVE  2 * Cardinality(hogs) < Cardinality(DOMAIN ds)
<1>. DEFINE f == [ip \in DOMAIN ds |-> ds[ip].total]
<1>1. Summable(f, DOMAIN ds) /\ SumFunctionOnSet(f, DOMAIN ds) = Total(ds)
  <2>1. DOMAIN f = DOMAIN ds
    OBVIOUS
  <2>. QED
    BY <2>1 DEF Rankable, Summable, Total, SumFunction
<1>2. hogs \subseteq DOMAIN ds
  OBVIOUS
<1>. HIDE DEF f
<1>3. /\ Summable(f, hogs) /\ SumFunctionOnSet(f, hogs) <= Total(ds)
      /\ SumFunctionOnSet(f, hogs) \in Nat /\ Total(ds) \in Nat
  <2>1. Summable(f, hogs) /\ SumFunctionOnSet(f, hogs) <= Total(ds)
    BY <1>1, <1>2, SumSubset
  <2>. QED
    BY <1>1, <2>1, SumType
<1>4. PICK T, n, h, s : /\ T = Total(ds) /\ n = Cardinality(DOMAIN ds)
                        /\ h = Cardinality(hogs) /\ s = SumFunctionOnSet(f, hogs)
  OBVIOUS
<1>5. T \in Nat /\ n \in Nat /\ s \in Nat /\ h \in Nat /\ h # 0 /\ s <= T
  <2>1. n \in Nat
    BY <1>4, FS_CardinalityType DEF Rankable
  <2>2. IsFiniteSet(hogs)
    BY <1>3 DEF Summable
  <2>3. h \in Nat /\ h # 0
    BY <1>4, <2>2, FS_CardinalityType, FS_EmptySet
  <2>. QED
    BY <1>3, <1>4, <2>1, <2>3
<1>6. \A ip \in hogs : f[ip] * n >= 2 * T + 1
  <2>. SUFFICES ASSUME NEW ip \in hogs PROVE f[ip] * n >= 2 * T + 1
    OBVIOUS
  <2>1. PICK t \in Nat : t = f[ip] /\ t = ds[ip].total
    BY DEF Rankable, f
  <2>2. t * n > 2 * T
    BY <1>4, <2>1 DEF IsHog
  <2>3. t * n \in Nat
    BY <1>5
  <2>. QED
    BY <1>5, <2>1, <2>2, <2>3
<1>7. s * n >= h * (2 * T + 1)
  <2>1. (2 * T + 1) \in Nat
    BY <1>5
  <2>. QED
    BY <1>3, <1>4, <1>5, <1>6, <2>1, SumAtLeast
<1>8. 2 * h < n
  <2>. SUFFICES ASSUME n <= 2 * h PROVE FALSE
    BY <1>5
  <2>1. s * n <= T * n
    BY <1>5
  <2>2. T * n <= T * (2 * h)
    BY <1>5
  <2>3. h * (2 * T + 1) = T * (2 * h) + h
    BY <1>5
  <2>4. s * n \in Nat /\ T * n \in Nat /\ T * (2 * h) \in Nat
    BY <1>5
  <2>. QED
    BY <1>5, <1>7, <2>1, <2>2, <2>3, <2>4
<1>. QED
  BY <1>4, <1>8

\* calculate_top_talkers lists the devices that consumed most, in order, each once,
\* and calls fewer than half of them hogs.
THEOREM TalkersAreRanked == Spec => []TalkersRanked
<1>1. ASSUME ResultInv PROVE TalkersRanked
  <2>. SUFFICES ASSUME NEW a \in Calculated, NEW ds, NEW talkers, NEW listed,
                       ds = result[a].devices, talkers = result[a].talkers,
                       listed = {talkers[i].ip : i \in DOMAIN talkers}
       PROVE  /\ \A i, j \in DOMAIN talkers : i < j => talkers[i].total >= talkers[j].total
              /\ Cardinality(listed) = Len(talkers)
              /\ \A ip \in DOMAIN ds \ listed, l \in listed : ds[ip].total <= ds[l].total
              /\ DOMAIN ds \ listed # {} => Len(talkers) = TopN
              /\ {ip \in DOMAIN ds : IsHog(ds, ip)} # {} =>
                   2 * Cardinality({ip \in DOMAIN ds : IsHog(ds, ip)}) < Cardinality(DOMAIN ds)
    BY DEF TalkersRanked
  <2>1. PICK all \in Seq(Connection) : /\ result[a] = ResultOf(all, hosts[a])
                                       /\ ds = DeviceMetrics(all) /\ talkers = TopTalkers(ds)
    <3>1. result[a] = ResultOf(conns[a], hosts[a]) /\ conns[a] \in Seq(Connection)
      BY <1>1 DEF ResultInv, TypeOK, Calculated
    <3>. QED
      BY <3>1 DEF ResultOf
  <2>2. Rankable(ds)
    <3>1. LocalDevices(ds)
      BY <2>1, DeviceMetricsAddUp DEF DevicesAddUp
    <3>. QED
      BY <3>1 DEF LocalDevices, Devices, Metrics, Rankable
  <2>0. PICK k, n, seq : Heads(ds, talkers, k, n, seq)
    BY <2>1, <2>2, RankingOf
  <2>3. /\ k \in Nat /\ n \in Nat /\ seq \in [1..n -> DOMAIN ds]
        /\ k <= n /\ (k = n \/ k = TopN)
        /\ DOMAIN talkers = 1..k /\ Len(talkers) = k
        /\ \A i \in 1..k : talkers[i].ip = seq[i] /\ talkers[i].total = ds[seq[i]].total
        /\ \A i, j \in 1..n : /\ i # j => seq[i] # seq[j]
                              /\ i < j => ds[seq[i]].total >= ds[seq[j]].total
        /\ \A ip \in DOMAIN ds : \E i \in 1..n : seq[i] = ip
    BY <2>0 DEF Heads
  <2>4. \A i \in 1..k : i \in 1..n
    BY <2>3
  <2>5. listed = {seq[i] : i \in 1..k}
    BY <2>3
  <2>6. \A i, j \in DOMAIN talkers : i < j => talkers[i].total >= talkers[j].total
    BY <2>3, <2>4
  <2>7. Cardinality(listed) = k
    <3>. DEFINE first == [i \in 1..k |-> seq[i]]
    <3>1. IsFiniteSet(1..k) /\ Cardinality(1..k) = k
      BY <2>3, FS_Interval
    <3>2. /\ first \in [1..k -> listed]
          /\ \A i, j \in 1..k : first[i] = first[j] => i = j
          /\ \A l \in listed : \E i \in 1..k : first[i] = l
      <4>1. \A i \in 1..k : first[i] = seq[i] /\ seq[i] \in listed
        BY <2>5
      <4>2. \A i, j \in 1..k : i # j => seq[i] # seq[j]
        BY <2>3, <2>4
      <4>3. first \in [1..k -> listed]
        BY <4>1
      <4>4. \A l \in listed : \E i \in 1..k : first[i] = l
        BY <2>5
      <4>. HIDE DEF first
      <4>. QED
        BY <4>1, <4>2, <4>3, <4>4
    <3>. HIDE DEF first
    <3>3. first \in Injection(1..k, listed) /\ first \in Surjection(1..k, listed)
      BY <3>2 DEF Injection, IsInjective, Surjection
    <3>. QED
      BY <3>1, <3>3, FS_Surjection
  <2>8. ASSUME NEW ip \in DOMAIN ds \ listed
        PROVE  k = TopN /\ \A l \in listed : ds[ip].total <= ds[l].total
    <3>1. PICK i \in 1..n : seq[i] = ip
      BY <2>3
    <3>2. i \notin 1..k
      BY <2>5, <2>8, <3>1
    <3>3. i > k
      BY <2>3, <3>1, <3>2
    <3>4. k = TopN
      BY <2>3, <3>3
    <3>5. ASSUME NEW l \in listed PROVE ds[ip].total <= ds[l].total
      <4>1. PICK j \in 1..k : seq[j] = l
        BY <2>5
      <4>2. j < i /\ j \in 1..n
        BY <2>3, <2>4, <3>1, <3>3
      <4>3. ds[seq[j]].total >= ds[seq[i]].total
        BY <2>3, <4>2
      <4>4. ds[ip].total \in Nat /\ ds[l].total \in Nat
        <5>1. l \in DOMAIN ds
          BY <2>3, <4>1, <4>2
        <5>. QED
          BY <2>2, <5>1 DEF Rankable
      <4>. QED
        BY <3>1, <4>1, <4>3, <4>4
    <3>. QED
      BY <3>4, <3>5
  <2>9. {ip \in DOMAIN ds : IsHog(ds, ip)} # {} =>
          2 * Cardinality({ip \in DOMAIN ds : IsHog(ds, ip)}) < Cardinality(DOMAIN ds)
    BY <2>2, FewHogs
  <2>. QED
    BY <2>3, <2>6, <2>7, <2>8, <2>9
<1>. QED
  BY <1>1, ResultInvariant, PTL
=============================================================================
