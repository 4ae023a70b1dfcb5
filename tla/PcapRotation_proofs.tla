------------------------- MODULE PcapRotation_proofs -------------------------
(***************************************************************************)
(* Theorems about PcapRotation for any number of connections, packets,     *)
(* seconds and I/O errors.  RotationInv is inductive: one lemma per group  *)
(* of actions, one step per conjunct.                                      *)
(***************************************************************************)
EXTENDS PcapRotation, FiniteSetTheorems, TLAPS

RotationInv == TypeOK /\ LockInv /\ HandOverInv

\* Program counters of a thread.
Pcs == {"off", "read", "lock"} \cup Holding

\* The records a thread moves to.
LEMMA ThreadTypes ==
  ASSUME NEW t \in Thread, NEW pc \in Pcs, NEW packet \in Packets \cup {None},
         NEW completed \in Names \cup {None}
  PROVE  /\ [t EXCEPT !.pc = pc] \in Thread
         /\ [t EXCEPT !.pc = pc].pc = pc
         /\ [t EXCEPT !.pc = pc].packet = t.packet
         /\ [t EXCEPT !.pc = pc].completed = t.completed
         /\ [pc |-> pc, packet |-> packet, completed |-> completed] \in Thread
         /\ Off \in Thread /\ Off.pc = "off"
         /\ [Off EXCEPT !.pc = pc] \in Thread /\ [Off EXCEPT !.pc = pc].pc = pc
BY DEF Thread, Off, Pcs, Holding

\* One thread moves, the others do not.
LEMMA OneMoves ==
  ASSUME TypeOK, NEW c \in Clients, NEW t \in Thread, client' = [client EXCEPT ![c] = t]
  PROVE  /\ client' \in [Clients -> Thread]
         /\ client'[c] = t
         /\ \A d \in Clients \ {c} : client'[d] = client[d]
BY DEF TypeOK

\* Goto changes the program counter of one thread only.
LEMMA GotoMoves ==
  ASSUME TypeOK, NEW c \in Clients, NEW pc \in Pcs, Goto(c, pc)
  PROVE  /\ client' \in [Clients -> Thread]
         /\ client'[c].pc = pc
         /\ client'[c].packet = client[c].packet
         /\ client'[c].completed = client[c].completed
         /\ \A d \in Clients \ {c} : client'[d] = client[d]
<1>1. client[c] \in Thread
  BY DEF TypeOK
<1>. DEFINE t == [client[c] EXCEPT !.pc = pc]
<1>2. /\ t \in Thread /\ t.pc = pc
      /\ t.packet = client[c].packet /\ t.completed = client[c].completed
  BY <1>1, ThreadTypes
<1>3. client' = [client EXCEPT ![c] = t]
  BY DEF Goto
<1>. HIDE DEF t
<1>. QED
  BY <1>2, <1>3, OneMoves

\* The others wait for the lock or are outside write_packet.
LEMMA OthersOutside ==
  ASSUME RotationInv, NEW c \in Clients, lock = c, NEW d \in Clients \ {c}
  PROVE  client[d].pc \notin Holding
BY DEF RotationInv, LockInv

\* A thread that does not hold the lock needs a packet at most.
LEMMA OutsideInv ==
  ASSUME RotationInv, NEW d \in Clients, client'[d] = client[d], client[d].pc \notin Holding
  PROVE  ThreadInv(d)'
BY DEF RotationInv, HandOverInv, ThreadInv, At, Holding, Rotating

\* What is left of a file is a sequence of parts.
LEMMA TailType ==
  ASSUME TypeOK, FileInv, file = "open", LoseTail
  PROVE  disk' \in [Names -> Seq(Parts) \cup {None}]
<1>1. path \in Names /\ disk[path] \in Seq(Parts)
  BY DEF TypeOK, FileInv
<1>2. PICK n \in 0..Len(disk[path]) : disk' = [disk EXCEPT ![path] = SubSeq(disk[path], 1, n)]
  BY DEF LoseTail
<1>3. SubSeq(disk[path], 1, n) \in Seq(Parts)
  BY <1>1, <1>2
<1>. QED
  BY <1>1, <1>2, <1>3 DEF TypeOK

\* The server as it starts.
LEMMA InitRotationInv == Init => RotationInv
<1>. SUFFICES ASSUME Init PROVE RotationInv
  OBVIOUS
<1>1. Off \in Thread /\ Off.pc = "off"
  BY DEF Off, Thread
<1>2. TypeOK
  <2>1. 1 \in Names
    BY BoundsAssumption DEF Names
  <2>2. <<>> \in Seq(Names)
    OBVIOUS
  <2>3. /\ client \in [Clients -> Thread] /\ disk \in [Names -> Seq(Parts) \cup {None}]
        /\ handed \in Seq(Names)
    BY <1>1, <2>2 DEF Init
  <2>4. taken \in 0..MaxPackets /\ faults \in 0..MaxFaults
    BY BoundsAssumption DEF Init
  <2>. QED
    BY <2>1, <2>3, <2>4 DEF Init, TypeOK
<1>3. LockInv
  BY <1>1, NoneAssumption DEF Init, LockInv, Holding
<1>4. HandOverInv
  BY <1>1 DEF Init, HandOverInv, HandedInOrder, FileInv, ThreadInv, At, Rotating
<1>. QED
  BY <1>2, <1>3, <1>4 DEF RotationInv

\* Steps of a thread before it decides what to write.
LEMMA ReaderStep ==
  ASSUME RotationInv, NEW c \in Clients,
         Connect(c) \/ Receive(c) \/ Disconnect(c) \/ Enter(c)
  PROVE  RotationInv'
<1>. USE DEF RotationInv
<1>1. client[c] \in Thread
  BY DEF TypeOK
<1>2. CASE Connect(c) \/ Disconnect(c)
  <2>1. PICK pc \in {"read", "off"} : Goto(c, pc)
    BY <1>2 DEF Connect, Disconnect
  <2>2. /\ UNCHANGED <<server, lock, second, file, path, due, disk, handed, taken, faults>>
        /\ client[c].pc \in {"off", "read"}
    BY <1>2 DEF Connect, Disconnect, At
  <2>3. /\ client' \in [Clients -> Thread] /\ client'[c].pc = pc
        /\ \A d \in Clients \ {c} : client'[d] = client[d]
    BY <2>1, GotoMoves DEF Pcs
  <2>4. TypeOK'
    BY <2>2, <2>3 DEF TypeOK
  <2>5. LockInv'
    BY <2>2, <2>3 DEF LockInv, Holding
  <2>6. HandOverInv'
    BY <2>2, <2>3 DEF HandOverInv, HandedInOrder, FileInv, ThreadInv, At, Rotating
  <2>. QED
    BY <2>4, <2>5, <2>6
<1>3. CASE Receive(c)
  <2>. DEFINE t == [pc |-> "lock", packet |-> taken + 1, completed |-> None]
  <2>1. /\ UNCHANGED <<server, lock, second, file, path, due, disk, handed, faults>>
        /\ client[c].pc = "read" /\ taken' = taken + 1 /\ taken' \in Packets
        /\ client' = [client EXCEPT ![c] = t]
    BY <1>3, BoundsAssumption DEF Receive, At, TypeOK, Packets
  <2>2. t \in Thread /\ t.pc = "lock" /\ t.packet \in Packets
    BY <2>1 DEF Thread
  <2>. HIDE DEF t
  <2>3. /\ client' \in [Clients -> Thread] /\ client'[c] = t
        /\ \A d \in Clients \ {c} : client'[d] = client[d]
    BY <2>1, <2>2, OneMoves
  <2>4. TypeOK'
    BY <2>1, <2>3, BoundsAssumption DEF TypeOK, Packets
  <2>5. LockInv'
    BY <2>1, <2>2, <2>3 DEF LockInv, Holding
  <2>6. HandOverInv'
    BY <2>1, <2>2, <2>3 DEF HandOverInv, HandedInOrder, FileInv, ThreadInv, At, Rotating
  <2>. QED
    BY <2>4, <2>5, <2>6
<1>4. CASE Enter(c)
  <2>1. /\ UNCHANGED <<server, second, file, path, due, disk, handed, taken, faults>>
        /\ client[c].pc = "lock" /\ lock = None /\ lock' = c
    BY <1>4 DEF Enter, At
  <2>2. client[c].packet \in Packets
    BY <2>1 DEF HandOverInv, ThreadInv
  <2>3. /\ client' \in [Clients -> Thread] /\ client'[c].packet \in Packets
        /\ client'[c].pc \in {"open", "close", "header"}
        /\ client'[c].pc = "open" => file = "none"
        /\ client'[c].pc # "open" => file # "none"
        /\ client'[c].pc = "close" => due /\ client'[c].completed = path
        /\ \A d \in Clients \ {c} : client'[d] = client[d]
    <3>1. CASE file = "none"
      <4>1. Goto(c, "open")
        BY <1>4, <3>1 DEF Enter
      <4>. QED
        BY <2>2, <3>1, <4>1, GotoMoves DEF Pcs, Holding
    <3>2. CASE file # "none" /\ due
      <4>. DEFINE t == [pc |-> "close", packet |-> client[c].packet, completed |-> path]
      <4>1. client' = [client EXCEPT ![c] = t]
        BY <1>4, <3>2 DEF Enter
      <4>2. t \in Thread /\ t.pc = "close" /\ t.packet \in Packets /\ t.completed = path
        BY <2>2 DEF TypeOK, Thread, Holding
      <4>. HIDE DEF t
      <4>3. /\ client' \in [Clients -> Thread] /\ client'[c] = t
            /\ \A d \in Clients \ {c} : client'[d] = client[d]
        BY <4>1, <4>2, OneMoves
      <4>. QED
        BY <3>2, <4>2, <4>3
    <3>3. CASE file # "none" /\ ~due
      <4>1. Goto(c, "header")
        BY <1>4, <3>3 DEF Enter
      <4>. QED
        BY <2>2, <3>3, <4>1, GotoMoves DEF Pcs, Holding
    <3>. QED
      BY <3>1, <3>2, <3>3
  <2>4. TypeOK'
    BY <2>1, <2>3 DEF TypeOK
  <2>5. LockInv'
    BY <2>1, <2>3, NoneAssumption DEF LockInv, Holding
  <2>6. HandedInOrder' /\ FileInv'
    BY <2>1 DEF HandOverInv, HandedInOrder, FileInv
  <2>7. ThreadInv(c)'
    <3>1. FileInv /\ path \in Names \cup {None} /\ second \in Names
      BY DEF HandOverInv, TypeOK
    <3>2. handed \in Seq(Names)
      BY DEF TypeOK
    <3>. QED
      BY <2>1, <2>3, <3>1, <3>2, BoundsAssumption DEF FileInv, ThreadInv, At, Rotating, Names
  <2>8. ASSUME NEW d \in Clients \ {c} PROVE ThreadInv(d)'
    BY <2>1, <2>3 DEF HandOverInv, ThreadInv, At, Rotating
  <2>. QED
    BY <2>4, <2>5, <2>6, <2>7, <2>8 DEF HandOverInv
<1>. QED
  BY <1>2, <1>3, <1>4

\* A thread that holds the lock keeps it: who holds it is right again if the thread
\* is still inside, or leaves and releases it.
LEMMA LockStep ==
  ASSUME RotationInv, NEW c \in Clients, client[c].pc \in Holding,
         \A d \in Clients \ {c} : client'[d] = client[d],
         \/ client'[c].pc \in Holding /\ lock' = lock
         \/ client'[c].pc \notin Holding /\ lock' = None
  PROVE  /\ LockInv' /\ lock = c
         /\ \A d \in Clients \ {c} : ThreadInv(d)'
<1>1. lock = c
  BY DEF RotationInv, LockInv
<1>2. LockInv'
  BY <1>1, NoneAssumption DEF RotationInv, LockInv
<1>3. ASSUME NEW d \in Clients \ {c} PROVE ThreadInv(d)'
  BY <1>1, <1>3, OthersOutside, OutsideInv
<1>. QED
  BY <1>1, <1>2, <1>3

\* A thread that gives up: the packet is lost, the lock is free.
LEMMA RaiseStep ==
  ASSUME RotationInv, NEW c \in Clients, client[c].pc \in Holding, Raise(c)
  PROVE  /\ client' \in [Clients -> Thread] /\ lock' = None /\ LockInv'
         /\ \A d \in Clients : ThreadInv(d)'
<1>1. Off \in Thread /\ Off.pc = "off"
  BY DEF Off, Thread
<1>2. client' = [client EXCEPT ![c] = Off] /\ lock' = None
  BY DEF Raise
<1>3. /\ client' \in [Clients -> Thread] /\ client'[c] = Off
      /\ \A d \in Clients \ {c} : client'[d] = client[d]
  BY <1>1, <1>2, OneMoves DEF RotationInv
<1>4. client'[c].pc \notin Holding
  BY <1>1, <1>3 DEF Holding
<1>5. LockInv' /\ \A d \in Clients \ {c} : ThreadInv(d)'
  BY <1>2, <1>3, <1>4, LockStep
<1>6. ThreadInv(c)'
  BY <1>1, <1>3 DEF ThreadInv, At, Rotating
<1>. QED
  BY <1>2, <1>3, <1>5, <1>6

\* Closing, also when the tail of the file is lost.
LEMMA CloseStep ==
  ASSUME RotationInv, NEW c \in Clients, CloseOld(c) \/ CloseFails(c)
  PROVE  RotationInv'
<1>. USE DEF RotationInv
<1>1. /\ client[c].pc = "close" /\ client[c].pc \in Holding /\ file' = "closed"
      /\ file # "none" /\ path \in Names
      /\ UNCHANGED <<server, second, path, due, handed, taken>>
  BY DEF CloseOld, CloseFails, At, Holding, HandOverInv, ThreadInv, FileInv
<1>2. CASE CloseOld(c)
  <2>1. Goto(c, "reopen") /\ UNCHANGED <<lock, disk, faults>>
    BY <1>2 DEF CloseOld
  <2>2. /\ client' \in [Clients -> Thread] /\ client'[c].pc = "reopen"
        /\ client'[c].packet = client[c].packet /\ client'[c].completed = client[c].completed
        /\ \A d \in Clients \ {c} : client'[d] = client[d]
    BY <2>1, GotoMoves DEF Pcs, Holding
  <2>3. LockInv' /\ \A d \in Clients \ {c} : ThreadInv(d)'
    BY <1>1, <2>1, <2>2, LockStep DEF Holding
  <2>4. TypeOK'
    BY <1>1, <2>1, <2>2 DEF TypeOK
  <2>5. HandedInOrder' /\ FileInv' /\ ThreadInv(c)'
    BY <1>1, <2>1, <2>2
    DEF HandOverInv, HandedInOrder, FileInv, ThreadInv, At, Rotating
  <2>. QED
    BY <2>3, <2>4, <2>5 DEF HandOverInv
<1>3. CASE CloseFails(c)
  <2>1. Raise(c) /\ faults' = faults + 1 /\ faults' \in 0..MaxFaults /\ file = "open" /\ LoseTail
    BY <1>3, BoundsAssumption DEF CloseFails, Fault, TypeOK
  <2>2. /\ client' \in [Clients -> Thread] /\ lock' = None /\ LockInv'
        /\ \A d \in Clients : ThreadInv(d)'
    BY <1>1, <2>1, RaiseStep
  <2>3. disk' \in [Names -> Seq(Parts) \cup {None}]
    BY <1>1, <2>1, TailType DEF HandOverInv
  <2>4. TypeOK'
    BY <1>1, <2>1, <2>2, <2>3 DEF TypeOK
  <2>5. HandedInOrder' /\ FileInv'
    BY <1>1, <2>1, BoundsAssumption DEF HandOverInv, HandedInOrder, FileInv, TypeOK
  <2>. QED
    BY <2>2, <2>4, <2>5 DEF HandOverInv
<1>. QED
  BY <1>2, <1>3

\* A new file, or none because it cannot be opened.
LEMMA OpenStep ==
  ASSUME RotationInv, NEW c \in Clients, OpenNew(c) \/ OpenFails(c)
  PROVE  RotationInv'
<1>. USE DEF RotationInv
<1>1. /\ client[c].pc \in {"open", "reopen"} /\ client[c].pc \in Holding
      /\ path' = second /\ second \in Names /\ second' = second
      /\ UNCHANGED <<server, handed, taken>>
  BY DEF OpenNew, OpenFails, Holding, TypeOK
<1>2. /\ path # None => path \in Names /\ path <= second
      /\ handed \in Seq(Names) /\ faults \in 0..MaxFaults /\ \A n \in Names : n \in Nat
      /\ None \notin Nat
  BY BoundsAssumption, NoneAssumption DEF TypeOK, HandOverInv, FileInv, Names
<1>3. \A i \in DOMAIN handed : handed[i] \in Nat /\ handed[i] <= path' /\
        (faults = 0 => handed[i] < path')
  <2>1. CASE client[c].pc = "open"
    BY <1>1, <1>2, <2>1 DEF HandOverInv, FileInv, ThreadInv, At
  <2>2. CASE client[c].pc = "reopen"
    BY <1>1, <1>2, <2>2 DEF HandOverInv, FileInv, ThreadInv, At, Rotating
  <2>. QED
    BY <1>1, <2>1, <2>2
<1>4. CASE OpenNew(c)
  <2>. DEFINE pc == IF client[c].pc = "open" THEN "header" ELSE "hand"
  <2>1. /\ Goto(c, pc) /\ disk' = [disk EXCEPT ![second] = <<>>] /\ file' = "open"
        /\ due' = FALSE /\ UNCHANGED <<lock, faults>>
    BY <1>4 DEF OpenNew, At
  <2>2. pc \in Pcs /\ pc \in {"header", "hand"} /\ pc \in Holding
    BY DEF Pcs, Holding
  <2>3. pc = "hand" => client[c].pc = "reopen"
    BY <1>1
  <2>. HIDE DEF pc
  <2>4. /\ client' \in [Clients -> Thread] /\ client'[c].pc = pc
        /\ client'[c].packet = client[c].packet /\ client'[c].completed = client[c].completed
        /\ \A d \in Clients \ {c} : client'[d] = client[d]
    BY <2>1, <2>2, GotoMoves
  <2>5. LockInv' /\ \A d \in Clients \ {c} : ThreadInv(d)'
    BY <1>1, <2>1, <2>2, <2>4, LockStep
  <2>6. disk' \in [Names -> Seq(Parts) \cup {None}] /\ disk'[path'] = <<>>
    <3>1. <<>> \in Seq(Parts)
      OBVIOUS
    <3>. QED
      BY <1>1, <2>1, <3>1 DEF TypeOK
  <2>7. TypeOK'
    BY <1>1, <2>1, <2>4, <2>6 DEF TypeOK
  <2>8. HandedInOrder' /\ FileInv'
    <3>1. disk'[path'] \in Seq(Parts)
      BY <2>6
    <3>. QED
      BY <1>1, <1>2, <1>3, <2>1, <2>6, <3>1 DEF HandOverInv, HandedInOrder, FileInv
  <2>9. ThreadInv(c)'
    <3>1. client[c].packet \in Packets
      BY <1>1 DEF HandOverInv, ThreadInv
    <3>2. CASE pc = "header"
      BY <2>1, <2>4, <3>1, <3>2 DEF ThreadInv, At, Rotating
    <3>3. CASE pc = "hand"
      <4>1. /\ client[c].completed \in Names /\ client[c].completed <= second
            /\ \A i \in DOMAIN handed : handed[i] <= client[c].completed
            /\ faults = 0 => /\ \A i \in DOMAIN handed : handed[i] < client[c].completed
                             /\ client[c].completed < second
        <5>1. client[c].pc = "reopen" /\ ThreadInv(c) /\ path \in Names
          BY <2>3, <3>3 DEF HandOverInv, FileInv, ThreadInv, At
        <5>2. path \in Nat /\ path <= second /\ second \in Nat /\ Names \subseteq Nat
          BY <1>1, <1>2, <5>1, NoneAssumption
        <5>3. /\ client[c].completed \in Names /\ client[c].completed <= path
              /\ \A i \in DOMAIN handed : handed[i] <= client[c].completed
              /\ faults = 0 => /\ \A i \in DOMAIN handed : handed[i] < client[c].completed
                               /\ client[c].completed = path /\ path < second
          BY <5>1 DEF ThreadInv, At, Rotating
        <5>4. client[c].completed \in Nat /\ client[c].completed <= second
          <6>1. client[c].completed \in Nat
            BY <5>2, <5>3
          <6>2. ASSUME NEW n \in Nat, n <= path PROVE n <= second
            BY <5>2, <6>2
          <6>. QED
            BY <5>3, <6>1, <6>2
        <5>5. faults = 0 => client[c].completed < second
          BY <5>3
        <5>. QED
          BY <5>3, <5>4, <5>5
      <4>. QED
        BY <1>1, <2>1, <2>4, <3>1, <3>3, <4>1 DEF ThreadInv, At, Rotating
    <3>. QED
      BY <2>2, <3>2, <3>3
  <2>. QED
    BY <2>5, <2>7, <2>8, <2>9 DEF HandOverInv
<1>5. CASE OpenFails(c)
  <2>1. /\ Raise(c) /\ faults' = faults + 1 /\ faults' \in 0..MaxFaults
        /\ UNCHANGED <<file, due, disk>>
    BY <1>5, BoundsAssumption DEF OpenFails, Fault, TypeOK
  <2>2. /\ client' \in [Clients -> Thread] /\ lock' = None /\ LockInv'
        /\ \A d \in Clients : ThreadInv(d)'
    BY <1>1, <2>1, RaiseStep
  <2>3. TypeOK'
    BY <1>1, <2>1, <2>2 DEF TypeOK
  <2>4. file # "open"
    BY <1>1 DEF HandOverInv, ThreadInv, At
  <2>5. HandedInOrder' /\ FileInv'
    BY <1>1, <1>2, <1>3, <2>1, <2>4 DEF HandOverInv, HandedInOrder, FileInv
  <2>. QED
    BY <2>2, <2>3, <2>5 DEF HandOverInv
<1>. QED
  BY <1>4, <1>5

\* The file a rotation completed is the next to be handed over.
LEMMA HandStep ==
  ASSUME RotationInv, NEW c \in Clients, Hand(c) \/ HandFails(c)
  PROVE  RotationInv'
<1>. USE DEF RotationInv
<1>1. /\ client[c].pc = "hand" /\ client[c].pc \in Holding
      /\ UNCHANGED <<server, second, file, path, due, disk, taken>>
  BY DEF Hand, HandFails, At, Holding
<1>2. CASE Hand(c)
  <2>. DEFINE name == client[c].completed
  <2>1. /\ Goto(c, "header") /\ handed' = Append(handed, name) /\ UNCHANGED <<lock, faults>>
    BY <1>2 DEF Hand
  <2>2. /\ client' \in [Clients -> Thread] /\ client'[c].pc = "header"
        /\ client'[c].packet = client[c].packet
        /\ \A d \in Clients \ {c} : client'[d] = client[d]
    BY <2>1, GotoMoves DEF Pcs, Holding
  <2>3. LockInv' /\ \A d \in Clients \ {c} : ThreadInv(d)'
    BY <1>1, <2>1, <2>2, LockStep DEF Holding
  <2>4. /\ handed \in Seq(Names) /\ name \in Names /\ name <= path /\ file = "open"
        /\ path \in Names /\ Names \subseteq Nat /\ faults \in Nat
        /\ \A i \in DOMAIN handed : handed[i] <= name
        /\ faults = 0 => name < path /\ \A i \in DOMAIN handed : handed[i] < name
    BY <1>1, BoundsAssumption
    DEF HandOverInv, FileInv, ThreadInv, At, Rotating, TypeOK, Names
  <2>. HIDE DEF name
  <2>5. /\ handed' \in Seq(Names) /\ Len(handed') = Len(handed) + 1 /\ Len(handed) \in Nat
        /\ DOMAIN handed = 1..Len(handed) /\ DOMAIN handed' = 1..Len(handed')
        /\ \A i \in DOMAIN handed : handed'[i] = handed[i] /\ handed[i] \in Names
        /\ handed'[Len(handed')] = name
    BY <2>1, <2>4
  <2>6. TypeOK'
    BY <1>1, <2>1, <2>2, <2>5 DEF TypeOK
  <2>7. HandedInOrder'
    <3>1. ASSUME NEW i \in DOMAIN handed', NEW j \in DOMAIN handed', i < j
          PROVE  handed'[i] <= handed'[j] /\ (faults = 0 => handed'[i] < handed'[j])
      <4>1. i \in DOMAIN handed /\ (j \in DOMAIN handed \/ j = Len(handed'))
        BY <2>5, <3>1
      <4>. QED
        BY <2>4, <2>5, <3>1, <4>1 DEF HandOverInv, HandedInOrder
    <3>. QED
      BY <2>1, <3>1 DEF HandedInOrder
  <2>8. FileInv'
    <3>1. \A i \in DOMAIN handed' : handed'[i] <= path /\ (faults = 0 => handed'[i] < path)
      <4>1. ASSUME NEW i \in DOMAIN handed'
            PROVE  handed'[i] <= path /\ (faults = 0 => handed'[i] < path)
        <5>1. i \in DOMAIN handed \/ i = Len(handed')
          BY <2>5
        <5>2. CASE i \in DOMAIN handed
          BY <2>5, <5>2 DEF HandOverInv, FileInv
        <5>3. CASE i = Len(handed')
          BY <2>4, <2>5, <5>3
        <5>. QED
          BY <5>1, <5>2, <5>3
      <4>. QED
        BY <4>1
    <3>. QED
      BY <1>1, <2>1, <2>4, <3>1 DEF HandOverInv, FileInv
  <2>9. ThreadInv(c)'
    BY <1>1, <2>1, <2>2, <2>4 DEF HandOverInv, ThreadInv, At, Rotating
  <2>. QED
    BY <2>3, <2>6, <2>7, <2>8, <2>9 DEF HandOverInv
<1>3. CASE HandFails(c)
  <2>1. /\ Raise(c) /\ faults' = faults + 1 /\ faults' \in 0..MaxFaults /\ handed' = handed
    BY <1>3, BoundsAssumption DEF HandFails, Fault, TypeOK
  <2>2. /\ client' \in [Clients -> Thread] /\ lock' = None /\ LockInv'
        /\ \A d \in Clients : ThreadInv(d)'
    BY <1>1, <2>1, RaiseStep
  <2>3. TypeOK'
    BY <1>1, <2>1, <2>2 DEF TypeOK
  <2>4. HandedInOrder' /\ FileInv'
    BY <1>1, <2>1, BoundsAssumption DEF HandOverInv, HandedInOrder, FileInv, TypeOK
  <2>. QED
    BY <2>2, <2>3, <2>4 DEF HandOverInv
<1>. QED
  BY <1>2, <1>3

\* A record is written to the open file, in two parts.
LEMMA WriteStep ==
  ASSUME RotationInv, NEW c \in Clients,
         WriteHeader(c) \/ WriteData(c) \/ WriteFails(c) \/ WriteClosed(c)
  PROVE  RotationInv'
<1>. USE DEF RotationInv
<1>1. /\ client[c].pc \in {"header", "data"} /\ client[c].pc \in Holding
      /\ client[c].packet \in Packets
      /\ UNCHANGED <<server, second, file, path, due, handed, taken>>
  BY DEF WriteHeader, WriteData, WriteFails, WriteClosed, At, Holding, HandOverInv, ThreadInv
<1>2. CASE WriteHeader(c) \/ WriteData(c)
  <2>1. PICK part \in {"header", "data"} :
          disk' = [disk EXCEPT ![path] = Append(disk[path], <<client[c].packet, part>>)]
    BY <1>2 DEF WriteHeader, WriteData
  <2>2. /\ file = "open" /\ path \in Names /\ disk[path] \in Seq(Parts)
        /\ <<client[c].packet, part>> \in Parts /\ faults' = faults
    BY <1>1, <1>2, <2>1 DEF WriteHeader, WriteData, HandOverInv, FileInv, Parts
  <2>3. Append(disk[path], <<client[c].packet, part>>) \in Seq(Parts)
    BY <2>2
  <2>4. disk' \in [Names -> Seq(Parts) \cup {None}] /\ disk'[path] \in Seq(Parts)
    BY <2>1, <2>2, <2>3 DEF TypeOK
  <2>5. /\ client' \in [Clients -> Thread]
        /\ \A d \in Clients \ {c} : client'[d] = client[d]
        /\ \/ /\ client'[c].pc = "data" /\ client'[c].packet = client[c].packet
              /\ lock' = lock
           \/ client'[c].pc \in {"read", "off"} /\ lock' = None
    <3>1. CASE WriteHeader(c)
      <4>1. Goto(c, "data") /\ lock' = lock
        BY <3>1 DEF WriteHeader
      <4>. QED
        BY <4>1, GotoMoves DEF Pcs, Holding
    <3>2. CASE WriteData(c)
      <4>. DEFINE pc == IF server = "run" THEN "read" ELSE "off"
                  t == [Off EXCEPT !.pc = pc]
      <4>1. client' = [client EXCEPT ![c] = t] /\ lock' = None
        BY <3>2 DEF WriteData
      <4>2. t \in Thread /\ t.pc \in {"read", "off"}
        BY DEF Off, Thread
      <4>. HIDE DEF t
      <4>3. /\ client' \in [Clients -> Thread] /\ client'[c] = t
            /\ \A d \in Clients \ {c} : client'[d] = client[d]
        BY <4>1, <4>2, OneMoves
      <4>. QED
        BY <4>1, <4>2, <4>3
    <3>. QED
      BY <1>2, <3>1, <3>2
  <2>6. LockInv' /\ \A d \in Clients \ {c} : ThreadInv(d)'
    BY <1>1, <2>5, LockStep DEF Holding
  <2>7. TypeOK'
    BY <1>1, <2>2, <2>4, <2>5 DEF TypeOK
  <2>8. HandedInOrder' /\ FileInv' /\ ThreadInv(c)'
    BY <1>1, <2>2, <2>4, <2>5
    DEF HandOverInv, HandedInOrder, FileInv, ThreadInv, At, Rotating
  <2>. QED
    BY <2>6, <2>7, <2>8 DEF HandOverInv
<1>3. CASE WriteFails(c) \/ WriteClosed(c)
  <2>1. /\ Raise(c) /\ disk' = disk /\ faults' \in 0..MaxFaults
        /\ faults' = faults \/ faults' = faults + 1
    BY <1>3, BoundsAssumption DEF WriteFails, WriteClosed, Fault, TypeOK
  <2>2. /\ client' \in [Clients -> Thread] /\ lock' = None /\ LockInv'
        /\ \A d \in Clients : ThreadInv(d)'
    BY <1>1, <2>1, RaiseStep
  <2>3. TypeOK'
    BY <1>1, <2>1, <2>2 DEF TypeOK
  <2>4. HandedInOrder' /\ FileInv'
    BY <1>1, <2>1, BoundsAssumption DEF HandOverInv, HandedInOrder, FileInv, TypeOK
  <2>. QED
    BY <2>2, <2>3, <2>4 DEF HandOverInv
<1>. QED
  BY <1>2, <1>3

\* The clock and the main thread.
LEMMA OutsideStep ==
  ASSUME RotationInv, Elapse \/ Tick \/ Stop \/ CloseAll \/ Exit
  PROVE  RotationInv'
<1>. USE DEF RotationInv
<1>1. CASE Elapse \/ Tick \/ Stop
  <2>1. /\ UNCHANGED <<client, lock, file, path, disk, handed, taken, faults>>
        /\ second' \in Names /\ second' \in Nat /\ second \in Nat /\ second <= second'
        /\ server' \in {"run", "stopping", "closed", "exited"} /\ due' \in BOOLEAN
        /\ due' /\ ~due => file # "none" /\ path < second
    <3>1. second \in Nat /\ second <= MaxSecond /\ second >= 1
      BY BoundsAssumption DEF TypeOK, Names
    <3>2. CASE Elapse
      BY <3>1, <3>2 DEF Elapse, TypeOK, Names
    <3>3. CASE Tick
      BY <3>1, <3>3, BoundsAssumption DEF Tick, TypeOK, Names
    <3>4. CASE Stop
      BY <3>1, <3>4 DEF Stop, TypeOK, Names
    <3>. QED
      BY <1>1, <3>2, <3>3, <3>4
  <2>2. path # None => path \in Nat
    BY DEF TypeOK, Names
  <2>3. TypeOK'
    BY <2>1 DEF TypeOK
  <2>4. LockInv'
    BY <2>1 DEF LockInv
  <2>5. HandedInOrder' /\ FileInv'
    BY <2>1, <2>2, NoneAssumption, BoundsAssumption
    DEF HandOverInv, HandedInOrder, FileInv, Names
  <2>6. ASSUME NEW c \in Clients PROVE ThreadInv(c)'
    <3>1. ThreadInv(c)
      BY DEF HandOverInv
    <3>2. client[c].pc \in {"close", "reopen"} => path \in Nat
      BY <2>2, <3>1, NoneAssumption DEF ThreadInv, At, HandOverInv, FileInv, Names
    <3>. QED
      BY <2>1, <3>1, <3>2 DEF ThreadInv, At, Rotating
  <2>. QED
    BY <2>3, <2>4, <2>5, <2>6 DEF HandOverInv
<1>2. CASE CloseAll
  <2>1. /\ UNCHANGED <<client, lock, second, path, due, handed, taken>> /\ lock = None
        /\ server' = "closed" /\ file' \in {"none", "closed"} /\ (file' = "none" <=> file = "none")
        /\ faults' \in 0..MaxFaults /\ (faults' = faults \/ faults' = faults + 1)
    BY <1>2, BoundsAssumption DEF CloseAll, Fault, TypeOK
  <2>2. disk' \in [Names -> Seq(Parts) \cup {None}]
    BY <1>2, TailType DEF CloseAll, HandOverInv, TypeOK
  <2>3. TypeOK'
    BY <2>1, <2>2 DEF TypeOK
  <2>4. LockInv'
    BY <2>1 DEF LockInv
  <2>5. HandedInOrder' /\ FileInv'
    BY <2>1, BoundsAssumption DEF HandOverInv, HandedInOrder, FileInv, TypeOK
  <2>6. ASSUME NEW c \in Clients PROVE ThreadInv(c)'
    <3>1. client[c].pc \notin Holding
      BY <2>1, NoneAssumption DEF LockInv
    <3>. QED
      BY <2>1, <3>1, OutsideInv
  <2>. QED
    BY <2>3, <2>4, <2>5, <2>6 DEF HandOverInv
<1>3. CASE Exit
  <2>1. /\ UNCHANGED <<second, file, path, due, disk, handed, taken, faults>> /\ lock' = None
        /\ server' = "exited" /\ client' = [c \in Clients |-> Off]
    BY <1>3 DEF Exit
  <2>2. Off \in Thread /\ Off.pc = "off"
    BY DEF Off, Thread
  <2>3. TypeOK'
    BY <2>1, <2>2 DEF TypeOK
  <2>4. LockInv'
    BY <2>1, <2>2, NoneAssumption DEF LockInv, Holding
  <2>5. HandOverInv'
    BY <2>1, <2>2 DEF HandOverInv, HandedInOrder, FileInv, ThreadInv, At, Rotating
  <2>. QED
    BY <2>3, <2>4, <2>5
<1>. QED
  BY <1>1, <1>2, <1>3

\* The invariant is inductive.
LEMMA NextRotationInv == RotationInv /\ [Next]_vars => RotationInv'
<1>. SUFFICES ASSUME RotationInv, [Next]_vars PROVE RotationInv'
  OBVIOUS
<1>1. CASE UNCHANGED vars
  BY <1>1 DEF vars, RotationInv, TypeOK, LockInv, HandOverInv, HandedInOrder, FileInv,
              ThreadInv, At
<1>2. CASE Next
  <2>1. CASE \E c \in Clients : Connect(c) \/ Receive(c) \/ Disconnect(c) \/ Enter(c)
    BY <2>1, ReaderStep
  <2>2. CASE \E c \in Clients : Holder(c)
    BY <2>2, CloseStep, OpenStep, HandStep, WriteStep DEF Holder
  <2>3. CASE Elapse \/ Tick \/ Stop \/ CloseAll \/ Exit
    BY <2>3, OutsideStep
  <2>. QED
    BY <1>2, <2>1, <2>2, <2>3 DEF Next
<1>. QED
  BY <1>1, <1>2

\* The inductive invariant holds in every reachable state.
THEOREM RotationInvariant == Spec => []RotationInv
BY InitRotationInv, NextRotationInv, PTL DEF Spec

\* Type correctness.
THEOREM RotationTypes == Spec => []TypeOK
BY RotationInvariant, PTL DEF RotationInv

\* Mutual exclusion of write_packet: exactly the thread inside it holds the lock,
\* for any number of connections and through every error path.
THEOREM MutualExclusion == Spec => []LockInv
BY RotationInvariant, PTL DEF RotationInv

\* Where the rotation stands, and the path it will hand over, agree with the files
\* handed over and with the one that is open.
THEOREM HandOverState == Spec => []HandOverInv
BY RotationInvariant, PTL DEF RotationInv

\* Files are handed to the analysis in the order they were opened, each once unless
\* a file could not be opened.
THEOREM HandOverOrder == Spec => []HandedInOrder
<1>1. RotationInv => HandedInOrder
  BY DEF RotationInv, HandOverInv
<1>. QED
  BY <1>1, RotationInvariant, PTL

\* A step changes the file that is open, or the one it opens: neither has been
\* handed over.
LEMMA FinalStep ==
  ASSUME RotationInv, Next, faults' = 0
  PROVE  \A i \in DOMAIN handed : disk'[handed[i]] = disk[handed[i]]
<1>. SUFFICES ASSUME NEW i \in DOMAIN handed PROVE disk'[handed[i]] = disk[handed[i]]
  OBVIOUS
<1>1. /\ handed[i] \in Names /\ handed[i] \in Nat /\ faults \in Nat
      /\ disk \in [Names -> Seq(Parts) \cup {None}] /\ second \in Nat
  <2>1. handed \in Seq(Names)
    BY DEF RotationInv, TypeOK
  <2>. QED
    BY <2>1, BoundsAssumption DEF RotationInv, TypeOK, Names
<1>2. ~Fault
  BY <1>1 DEF Fault
<1>3. CASE disk' = disk
  BY <1>3
<1>4. ASSUME NEW c \in Clients, WriteHeader(c) \/ WriteData(c)
      PROVE  disk'[handed[i]] = disk[handed[i]]
  <2>1. faults = 0 /\ file = "open"
    BY <1>4 DEF WriteHeader, WriteData
  <2>2. path \in Nat /\ handed[i] < path
    BY <2>1, BoundsAssumption DEF RotationInv, HandOverInv, FileInv, Names
  <2>3. PICK record : disk' = [disk EXCEPT ![path] = record]
    BY <1>4 DEF WriteHeader, WriteData
  <2>. QED
    BY <1>1, <2>2, <2>3
<1>5. ASSUME NEW c \in Clients, OpenNew(c)
      PROVE  disk'[handed[i]] = disk[handed[i]]
  <2>1. faults = 0 /\ client[c].pc = "reopen"
    BY <1>5 DEF OpenNew, RotationInv, HandOverInv, FileInv, ThreadInv, At
  <2>2. /\ client[c].completed = path /\ path < second
        /\ handed[i] < client[c].completed
    BY <2>1 DEF RotationInv, HandOverInv, ThreadInv, At, Rotating
  <2>3. path \in Nat
    BY <2>1, BoundsAssumption DEF RotationInv, HandOverInv, FileInv, ThreadInv, At, Names
  <2>4. handed[i] # second
    BY <1>1, <2>2, <2>3
  <2>5. disk' = [disk EXCEPT ![second] = <<>>]
    BY <1>5 DEF OpenNew
  <2>. QED
    BY <1>1, <2>4, <2>5
<1>. QED
  BY <1>2, <1>3, <1>4, <1>5
  DEF Next, Holder, Connect, Receive, Disconnect, Enter, CloseOld, CloseFails, OpenFails, Hand,
      HandFails, WriteFails, WriteClosed, Elapse, Tick, Stop, CloseAll, Exit

\* Nothing is written to a file the analysis has, unless one could not be opened.
THEOREM HandedFilesAreFinal == Spec => HandedIsFinal
<1>1. RotationInv /\ [Next]_vars =>
        [faults' = 0 => \A i \in DOMAIN handed : disk'[handed[i]] = disk[handed[i]]]_vars
  BY FinalStep DEF vars
<1>. QED
  BY <1>1, RotationInvariant, PTL DEF Spec, HandedIsFinal

-----------------------------------------------------------------------------
(***************************************************************************)
(* What the files hold as long as no I/O error happens: FilesInv is        *)
(* inductive relative to RotationInv.                                      *)
(***************************************************************************)
\* The packet p has been written out, as the i-th part of file n.
Stored(p, n, i) == i \in DOMAIN Written(n) /\ Written(n)[i] = <<p, "data">>

\* A file older than the open one was handed over, or is about to be.
NamesInv ==
  /\ file = "none" => \A n \in Names : disk[n] = None
  /\ \A n \in Names : disk[n] # None => path \in Names /\ n <= path
  /\ \A n \in Names : disk[n] # None =>
       \/ n = path \/ server = "exited" \/ \E i \in DOMAIN handed : handed[i] = n
       \/ \E c \in Clients : client[c].pc \in Rotating /\ client[c].completed = n

Alternates(s) ==
  \A i \in DOMAIN s :
    IF i % 2 = 0 THEN s[i] = <<s[i - 1][1], "data">> ELSE s[i][2] = "header"

Unfinished(s) == Len(s) % 2 # 0

\* Headers and data alternate; only the open file may end in a header, the one of the
\* packet whose data is written next.
RecordsInv ==
  /\ \A n \in Names : Alternates(Written(n))
  /\ \A n \in Names :
       Unfinished(Written(n)) => n = path /\ \E c \in Clients : client[c].pc = "data"
  /\ \A c \in Clients : client[c].pc = "data" =>
       Unfinished(Written(path)) /\ Written(path)[Len(Written(path))][1] = client[c].packet

\* A packet received is with one thread, or in one place of one file.
PacketsInv ==
  /\ \A c \in Clients : client[c].pc \in {"off", "read"} => client[c].packet = None
  /\ \A c \in Clients : client[c].packet # None => client[c].packet \in 1..taken
  /\ \A c, d \in Clients :
       client[c].packet # None /\ client[c].packet = client[d].packet => c = d
  /\ \A p \in Packets, n \in Names, i \in Nat :
       Stored(p, n, i) => p <= taken /\ \A c \in Clients : client[c].packet # p
  /\ \A p \in Packets, n \in Names, m \in Names, i \in Nat, j \in Nat :
       Stored(p, n, i) /\ Stored(p, m, j) => n = m /\ i = j
  /\ \A p \in 1..taken : \/ \E c \in Clients : client[c].packet = p
                         \/ \E n \in Names, i \in Nat : Stored(p, n, i)
  /\ file = "closed" => \E c \in Clients : client[c].pc = "reopen"

FilesInv ==
  faults = 0 => /\ NamesInv
                /\ server # "exited" => RecordsInv
                /\ server \in {"run", "stopping"} => PacketsInv

\* A file is a sequence of parts.
LEMMA WrittenType ==
  ASSUME TypeOK, NEW n \in Names
  PROVE  /\ Written(n) \in Seq(Parts) /\ Len(Written(n)) \in Nat
         /\ DOMAIN Written(n) = 1..Len(Written(n))
         /\ \A i \in DOMAIN Written(n) : Written(n)[i] \in Parts
<1>1. <<>> \in Seq(Parts)
  OBVIOUS
<1>2. disk[n] # None => disk[n] \in Seq(Parts)
  BY DEF TypeOK
<1>3. Written(n) \in Seq(Parts)
  BY <1>1, <1>2 DEF Written
<1>. QED
  BY <1>3

\* Parity of a length that grows by one.
LEMMA Parity ==
  ASSUME NEW n \in Nat
  PROVE  n % 2 = 0 <=> (n + 1) % 2 # 0
OBVIOUS

\* A header after whole records, or the data after its header.
LEMMA AppendAlternates ==
  ASSUME NEW s, NEW t, NEW k \in Nat, Alternates(s),
         DOMAIN s = 1..k, DOMAIN t = 1..(k + 1), \A i \in 1..k : t[i] = s[i],
         IF k % 2 = 0 THEN t[k + 1][2] = "header" ELSE t[k + 1] = <<s[k][1], "data">>
  PROVE  Alternates(t)
<1>1. SUFFICES ASSUME NEW i \in 1..(k + 1)
               PROVE  IF i % 2 = 0 THEN t[i] = <<t[i - 1][1], "data">> ELSE t[i][2] = "header"
  BY DEF Alternates
<1>2. CASE i \in 1..k
  <2>1. i % 2 = 0 => i - 1 \in 1..k
    BY <1>2
  <2>2. i % 2 = 0 => t[i - 1] = s[i - 1]
    BY <2>1
  <2>3. t[i] = s[i]
    BY <1>2
  <2>. QED
    BY <1>2, <2>2, <2>3 DEF Alternates
<1>3. CASE i = k + 1
  <2>1. i % 2 = 0 <=> k % 2 # 0
    BY <1>3, Parity
  <2>2. CASE k % 2 = 0
    BY <1>3, <2>1, <2>2
  <2>3. CASE k % 2 # 0
    <3>1. k \in 1..k /\ i - 1 = k
      BY <1>3, <2>3
    <3>2. t[i - 1] = s[k]
      BY <3>1
    <3>. QED
      BY <1>3, <2>1, <2>3, <3>2
  <2>. QED
    BY <2>2, <2>3
<1>. QED
  BY <1>2, <1>3

\* One more part at the end of file f.
LEMMA AppendedPart ==
  ASSUME TypeOK, NEW f \in Names, disk[f] # None, NEW part \in Parts,
         disk' = [disk EXCEPT ![f] = Append(disk[f], part)]
  PROVE  /\ \A n \in Names \ {f} : Written(n)' = Written(n)
         /\ Len(Written(f)') = Len(Written(f)) + 1
         /\ DOMAIN Written(f)' = 1..(Len(Written(f)) + 1)
         /\ \A i \in 1..Len(Written(f)) : Written(f)'[i] = Written(f)[i]
         /\ Written(f)'[Len(Written(f)) + 1] = part
         /\ \A n \in Names : disk'[n] = None <=> disk[n] = None
<1>1. disk \in [Names -> Seq(Parts) \cup {None}] /\ disk[f] \in Seq(Parts)
  BY DEF TypeOK
<1>2. /\ disk'[f] = Append(disk[f], part)
      /\ \A n \in Names \ {f} : disk'[n] = disk[n]
  BY <1>1
<1>3. Append(disk[f], part) # None
  BY <1>1, NoFileAssumption
<1>. QED
  BY <1>1, <1>2, <1>3 DEF Written

\* What the steps do that write nothing and hand nothing over.
LEMMA QuietStep ==
  ASSUME RotationInv, NEW c \in Clients, faults' = 0,
         Connect(c) \/ Receive(c) \/ Disconnect(c) \/ Enter(c) \/ CloseOld(c) \/ WriteClosed(c)
  PROVE  /\ UNCHANGED <<server, disk, path, handed>> /\ (file' = "none" => file = "none")
         /\ client[c].pc \in {"off", "read", "lock", "close", "header"}
         /\ client[c].pc = "close" =>
              client'[c].pc = "reopen" /\ client'[c].completed = client[c].completed
         /\ client'[c].pc # "data"
         /\ \A d \in Clients \ {c} : client'[d] = client[d]
<1>1. /\ UNCHANGED <<server, disk, path, handed>> /\ (file' = "none" => file = "none")
      /\ client[c].pc \in {"off", "read", "lock", "close", "header"}
      /\ client[c].pc = "close" => CloseOld(c)
  BY DEF Connect, Receive, Disconnect, Enter, CloseOld, WriteClosed, At
<1>2. CASE Connect(c) \/ Disconnect(c) \/ CloseOld(c)
  <2>1. PICK pc \in {"read", "off", "reopen"} : Goto(c, pc) /\ (CloseOld(c) => pc = "reopen")
    BY <1>2 DEF Connect, Disconnect, CloseOld
  <2>. QED
    BY <1>1, <2>1, GotoMoves DEF RotationInv, Pcs, Holding
<1>3. CASE Receive(c) \/ Enter(c) \/ WriteClosed(c)
  <2>1. client[c].pc # "close"
    BY <1>3 DEF Receive, Enter, WriteClosed, At
  <2>2. PICK t \in Thread : client' = [client EXCEPT ![c] = t] /\ t.pc # "data"
    <3>1. CASE Receive(c)
      <4>. DEFINE t == [pc |-> "lock", packet |-> taken + 1, completed |-> None]
      <4>1. t \in Thread /\ t.pc # "data"
        <5>1. taken + 1 \in Packets
          BY <3>1, BoundsAssumption DEF Receive, RotationInv, TypeOK, Packets
        <5>. QED
          BY <5>1 DEF Thread
      <4>. QED
        BY <3>1, <4>1 DEF Receive
    <3>2. CASE Enter(c)
      <4>1. client[c] \in Thread /\ path \in Names \cup {None}
        BY DEF RotationInv, TypeOK
      <4>. DEFINE t(pc) == [client[c] EXCEPT !.pc = pc]
                  u == [pc |-> "close", packet |-> client[c].packet, completed |-> path]
      <4>2. t("open") \in Thread /\ t("open").pc = "open"
        BY <4>1, ThreadTypes DEF Pcs, Holding
      <4>3. t("header") \in Thread /\ t("header").pc = "header"
        BY <4>1, ThreadTypes DEF Pcs, Holding
      <4>4. file # "none" /\ due => u \in Thread /\ u.pc = "close"
        <5>1. client[c].packet \in Packets \cup {None}
          BY <4>1 DEF Thread
        <5>. QED
          BY <4>1, <5>1 DEF Thread, Holding
      <4>5. \/ client' = [client EXCEPT ![c] = t("open")]
            \/ client' = [client EXCEPT ![c] = t("header")]
            \/ file # "none" /\ due /\ client' = [client EXCEPT ![c] = u]
        BY <3>2 DEF Enter, Goto
      <4>. HIDE DEF t, u
      <4>. QED
        BY <4>2, <4>3, <4>4, <4>5
    <3>3. CASE WriteClosed(c)
      <4>1. Off \in Thread /\ Off.pc # "data"
        BY DEF Off, Thread
      <4>. QED
        BY <3>3, <4>1 DEF WriteClosed, Raise
    <3>. QED
      BY <1>3, <3>1, <3>2, <3>3
  <2>3. /\ client'[c] = t
        /\ \A d \in Clients \ {c} : client'[d] = client[d]
    BY <2>2, OneMoves DEF RotationInv
  <2>. QED
    BY <1>1, <2>1, <2>2, <2>3
<1>. QED
  BY <1>2, <1>3

\* Without an I/O error, a step is one of these.
LEMMA StepKinds ==
  ASSUME RotationInv, Next, faults' = 0
  PROVE  /\ faults = 0
         /\ \/ \E c \in Clients : Connect(c) \/ Receive(c) \/ Disconnect(c) \/ Enter(c)
                                    \/ CloseOld(c) \/ WriteClosed(c)
            \/ \E c \in Clients : OpenNew(c)
            \/ \E c \in Clients : Hand(c)
            \/ \E c \in Clients : WriteHeader(c) \/ WriteData(c)
            \/ Elapse \/ Tick \/ Stop
            \/ CloseAll /\ disk' = disk
            \/ Exit
<1>1. faults \in Nat
  BY BoundsAssumption DEF RotationInv, TypeOK
<1>2. ~Fault
  BY <1>1 DEF Fault
<1>3. CASE \E c \in Clients : Connect(c) \/ Receive(c) \/ Disconnect(c) \/ Enter(c) \/ Holder(c)
  BY <1>2, <1>3
  DEF Holder, Connect, Receive, Disconnect, Enter, CloseOld, WriteClosed, OpenNew, Hand,
      WriteHeader, WriteData, CloseFails, OpenFails, HandFails, WriteFails
<1>4. CASE Elapse \/ Tick \/ Stop \/ Exit
  BY <1>4 DEF Elapse, Tick, Stop, Exit
<1>5. CASE CloseAll
  BY <1>2, <1>5 DEF CloseAll
<1>. QED
  BY <1>3, <1>4, <1>5 DEF Next

\* The main thread and the clock touch no file that is there.
LEMMA OutsideFrame ==
  ASSUME Elapse \/ Tick \/ Stop \/ (CloseAll /\ disk' = disk) \/ Exit
  PROVE  /\ UNCHANGED <<disk, path, handed, taken>> /\ (file' = "none" => file = "none")
         /\ server = "exited" => server' = "exited"
         /\ client' = client \/ server' = "exited"
         /\ file' = file \/ server' = "closed"
         /\ server' \in {"run", "stopping"} => server \in {"run", "stopping"}
BY DEF Elapse, Tick, Stop, CloseAll, Exit

\* Every file is accounted for after a step.
LEMMA NamesStep ==
  ASSUME RotationInv, NamesInv, Next, faults' = 0
  PROVE  NamesInv'
<1>1. /\ disk \in [Names -> Seq(Parts) \cup {None}] /\ second \in Names /\ Names \subseteq Nat
      /\ faults = 0
  BY StepKinds, BoundsAssumption DEF RotationInv, TypeOK, Names
<1>2. CASE \E c \in Clients : Connect(c) \/ Receive(c) \/ Disconnect(c) \/ Enter(c)
                              \/ CloseOld(c) \/ WriteClosed(c)
  <2>1. PICK c \in Clients : Connect(c) \/ Receive(c) \/ Disconnect(c) \/ Enter(c)
                             \/ CloseOld(c) \/ WriteClosed(c)
    BY <1>2
  <2>2. /\ UNCHANGED <<server, disk, path, handed>> /\ (file' = "none" => file = "none")
        /\ client[c].pc \in {"off", "read", "lock", "close", "header"}
        /\ client[c].pc = "close" =>
             client'[c].pc = "reopen" /\ client'[c].completed = client[c].completed
        /\ \A d \in Clients \ {c} : client'[d] = client[d]
    BY <2>1, QuietStep
  <2>3. ASSUME NEW d \in Clients, client[d].pc \in Rotating
        PROVE  client'[d].pc \in Rotating /\ client'[d].completed = client[d].completed
    BY <2>2, <2>3 DEF Rotating
  <2>. QED
    BY <2>2, <2>3 DEF NamesInv
<1>3. ASSUME NEW c \in Clients, OpenNew(c) PROVE NamesInv'
  <2>. DEFINE pc == IF client[c].pc = "open" THEN "header" ELSE "hand"
  <2>1. /\ path' = second /\ file' = "open" /\ UNCHANGED <<server, handed>>
        /\ disk' = [disk EXCEPT ![second] = <<>>] /\ Goto(c, pc)
        /\ client[c].pc \in {"open", "reopen"}
    BY <1>3 DEF OpenNew, At
  <2>2. pc \in Pcs /\ (client[c].pc = "reopen" => pc = "hand")
    BY <2>1 DEF Pcs, Holding
  <2>. HIDE DEF pc
  <2>3. /\ client'[c].pc = pc /\ client'[c].completed = client[c].completed
        /\ \A d \in Clients \ {c} : client'[d] = client[d]
    BY <2>1, <2>2, GotoMoves DEF RotationInv
  <2>4. \A n \in Names \ {second} : disk'[n] = disk[n]
    BY <1>1, <2>1
  <2>5. \A n \in Names : disk[n] # None => n <= second
    <3>1. path # None => path <= second
      BY DEF RotationInv, HandOverInv, FileInv
    <3>2. ASSUME NEW n \in Names, disk[n] # None PROVE n <= second
      <4>1. path \in Names /\ n <= path
        BY <3>2 DEF NamesInv
      <4>2. path \in Nat /\ path <= second /\ n \in Nat /\ second \in Nat
        BY <1>1, <3>1, <4>1, NoneAssumption
      <4>. QED
        BY <4>1, <4>2
    <3>. QED
      BY <3>2
  <2>6. ASSUME NEW n \in Names, n # second, disk[n] # None
        PROVE  \/ server = "exited" \/ \E i \in DOMAIN handed : handed[i] = n
               \/ \E d \in Clients : client'[d].pc \in Rotating /\ client'[d].completed = n
    <3>1. CASE client[c].pc = "open"
      BY <1>3, <2>6, <3>1 DEF NamesInv, RotationInv, HandOverInv, ThreadInv, At
    <3>2. CASE client[c].pc = "reopen"
      <4>1. client[c].completed = path
        BY <1>1, <3>2 DEF RotationInv, HandOverInv, ThreadInv, At, Rotating
      <4>2. client'[c].pc \in Rotating /\ client'[c].completed = path
        BY <2>2, <2>3, <3>2, <4>1 DEF Rotating
      <4>3. \A d \in Clients : client[d].pc \in Rotating =>
              client'[d].pc \in Rotating /\ client'[d].completed = client[d].completed
        BY <2>3, <4>1, <4>2
      <4>. QED
        BY <2>6, <4>2, <4>3 DEF NamesInv
    <3>. QED
      BY <2>1, <3>1, <3>2
  <2>. QED
    BY <1>1, <2>1, <2>4, <2>5, <2>6 DEF NamesInv
<1>4. ASSUME NEW c \in Clients, Hand(c) PROVE NamesInv'
  <2>1. /\ UNCHANGED <<server, file, path, disk>> /\ Goto(c, "header")
        /\ handed' = Append(handed, client[c].completed) /\ client[c].pc = "hand"
    BY <1>4 DEF Hand, At
  <2>2. \A d \in Clients \ {c} : client'[d] = client[d]
    BY <2>1, GotoMoves DEF RotationInv, Pcs, Holding
  <2>3. client[c].completed \in Names /\ handed \in Seq(Names)
    BY <2>1 DEF RotationInv, TypeOK, HandOverInv, ThreadInv, At, Rotating
  <2>4. /\ DOMAIN handed' = 1..(Len(handed) + 1) /\ DOMAIN handed = 1..Len(handed)
        /\ Len(handed) \in Nat /\ \A i \in DOMAIN handed : handed'[i] = handed[i]
        /\ handed'[Len(handed) + 1] = client[c].completed
    BY <2>1, <2>3
  <2>5. /\ \A i \in DOMAIN handed : i \in DOMAIN handed'
        /\ Len(handed) + 1 \in DOMAIN handed'
    BY <2>4
  <2>6. ASSUME NEW n \in Names, disk[n] # None
        PROVE  \/ n = path \/ server = "exited" \/ \E i \in DOMAIN handed' : handed'[i] = n
               \/ \E d \in Clients : client'[d].pc \in Rotating /\ client'[d].completed = n
    <3>1. CASE \E i \in DOMAIN handed : handed[i] = n
      BY <2>4, <2>5, <3>1
    <3>2. CASE \E d \in Clients : client[d].pc \in Rotating /\ client[d].completed = n
      BY <2>2, <2>4, <2>5, <3>2
    <3>. QED
      BY <2>6, <3>1, <3>2 DEF NamesInv
  <2>. QED
    BY <2>1, <2>6 DEF NamesInv
<1>5. ASSUME NEW c \in Clients, WriteHeader(c) \/ WriteData(c) PROVE NamesInv'
  <2>1. /\ UNCHANGED <<server, file, path, handed>> /\ file = "open"
        /\ client[c].pc \notin Rotating
    BY <1>5 DEF WriteHeader, WriteData, At, Rotating
  <2>2. PICK f \in Names : f = path /\ disk[f] # None
    <3>1. path \in Names /\ disk[path] \in Seq(Parts)
      BY <2>1 DEF RotationInv, HandOverInv, FileInv
    <3>. QED
      BY <3>1, NoFileAssumption
  <2>3. PICK kind \in {"header", "data"} :
          disk' = [disk EXCEPT ![f] = Append(disk[f], <<client[c].packet, kind>>)]
    BY <1>5, <2>2 DEF WriteHeader, WriteData
  <2>4. \A n \in Names : disk'[n] = None <=> disk[n] = None
    <3>1. client[c].packet \in Packets
      BY <1>5 DEF WriteHeader, WriteData, At, RotationInv, HandOverInv, ThreadInv
    <3>2. PICK part \in Parts : part = <<client[c].packet, kind>>
      BY <3>1 DEF Parts
    <3>. QED
      BY <2>2, <2>3, <3>2, AppendedPart DEF RotationInv
  <2>5. \A d \in Clients : client[d].pc \in Rotating => client'[d] = client[d]
    <3>1. PICK t : client' = [client EXCEPT ![c] = t]
      BY <1>5 DEF WriteHeader, WriteData, Goto
    <3>. QED
      BY <2>1, <3>1 DEF RotationInv, TypeOK
  <2>. QED
    BY <2>1, <2>4, <2>5 DEF NamesInv
<1>6. CASE Elapse \/ Tick \/ Stop \/ (CloseAll /\ disk' = disk) \/ Exit
  BY <1>6, OutsideFrame DEF NamesInv
<1>7. \/ \E c \in Clients : Connect(c) \/ Receive(c) \/ Disconnect(c) \/ Enter(c)
                             \/ CloseOld(c) \/ WriteClosed(c)
      \/ \E c \in Clients : OpenNew(c)
      \/ \E c \in Clients : Hand(c)
      \/ \E c \in Clients : WriteHeader(c) \/ WriteData(c)
      \/ Elapse \/ Tick \/ Stop
      \/ CloseAll /\ disk' = disk
      \/ Exit
  BY StepKinds
<1>. QED
  BY <1>2, <1>3, <1>4, <1>5, <1>6, <1>7

\* A thread moves without touching the files or the record it is writing.
LEMMA RecordsKept ==
  ASSUME RecordsInv, disk' = disk, path' = path,
         \A d \in Clients :
           /\ client'[d].pc = "data" <=> client[d].pc = "data"
           /\ client[d].pc = "data" => client'[d] = client[d]
  PROVE  RecordsInv'
<1>1. /\ \A n \in Names : Written(n)' = Written(n)
      /\ Written(path)' = Written(path)
  BY DEF Written
<1>2. \A n \in Names : Alternates(Written(n)')
  BY <1>1 DEF RecordsInv
<1>3. \A n \in Names :
        Unfinished(Written(n)') => n = path' /\ \E c \in Clients : client'[c].pc = "data"
  BY <1>1 DEF RecordsInv
<1>4. \A c \in Clients : client'[c].pc = "data" =>
        /\ Unfinished(Written(path)')
        /\ Written(path)'[Len(Written(path)')][1] = client'[c].packet
  BY <1>1 DEF RecordsInv
<1>. QED
  BY <1>2, <1>3, <1>4 DEF RecordsInv

\* Only the thread inside write_packet can be between header and data.
LEMMA OneWriter ==
  ASSUME RotationInv, NEW c \in Clients, client[c].pc \in Holding
  PROVE  \A d \in Clients : d # c => client[d].pc # "data"
BY DEF RotationInv, LockInv, Holding

\* The record being written: what WriteHeader and WriteData append.
LEMMA PartWritten ==
  ASSUME RotationInv, NEW c \in Clients, NEW kind \in {"header", "data"},
         \/ WriteHeader(c) /\ kind = "header"
         \/ WriteData(c) /\ kind = "data"
  PROVE  /\ client[c].packet \in Packets /\ client[c].pc = kind /\ client[c].pc \in Holding
         /\ \A d \in Clients \ {c} : client'[d] = client[d]
         /\ kind = "header" =>
              client'[c].pc = "data" /\ client'[c].packet = client[c].packet
         /\ kind = "data" =>
              client'[c].pc \in {"read", "off"} /\ client'[c].packet = None
         /\ path' = path /\ path \in Names /\ taken' = taken /\ file' = "open"
         /\ server' = server
         /\ \E f \in Names :
              /\ f = path
              /\ \A n \in Names \ {f} : Written(n)' = Written(n)
              /\ Len(Written(f)') = Len(Written(f)) + 1
              /\ DOMAIN Written(f)' = 1..(Len(Written(f)) + 1)
              /\ \A i \in 1..Len(Written(f)) : Written(f)'[i] = Written(f)[i]
              /\ Written(f)'[Len(Written(f)) + 1] = <<client[c].packet, kind>>
<1>1. /\ client[c].pc = kind /\ client[c].pc \in Holding /\ client[c].packet \in Packets
      /\ path' = path /\ file = "open" /\ file' = "open" /\ taken' = taken
      /\ server' = server
  BY DEF WriteHeader, WriteData, At, Holding, RotationInv, HandOverInv, ThreadInv
<1>2. /\ \A d \in Clients \ {c} : client'[d] = client[d]
      /\ kind = "header" =>
           client'[c].pc = "data" /\ client'[c].packet = client[c].packet
      /\ kind = "data" =>
           client'[c].pc \in {"read", "off"} /\ client'[c].packet = None
  <2>1. CASE WriteHeader(c) /\ kind = "header"
    <3>1. Goto(c, "data")
      BY <2>1 DEF WriteHeader
    <3>. QED
      BY <2>1, <3>1, GotoMoves DEF RotationInv, Pcs, Holding
  <2>2. CASE WriteData(c) /\ kind = "data"
    <3>. DEFINE pc == IF server = "run" THEN "read" ELSE "off"
                t == [Off EXCEPT !.pc = pc]
    <3>1. client' = [client EXCEPT ![c] = t]
      BY <2>2 DEF WriteData
    <3>2. t \in Thread /\ t.pc \in {"read", "off"} /\ t.packet = None
      BY DEF Off, Thread
    <3>. HIDE DEF t
    <3>3. /\ client'[c] = t
          /\ \A d \in Clients \ {c} : client'[d] = client[d]
      BY <3>1, <3>2, OneMoves DEF RotationInv
    <3>. QED
      BY <2>2, <3>2, <3>3
  <2>. QED
    BY <2>1, <2>2
<1>3. PICK f \in Names : f = path /\ disk[f] # None
  <2>1. path \in Names /\ disk[path] \in Seq(Parts)
    BY <1>1 DEF RotationInv, HandOverInv, FileInv
  <2>. QED
    BY <2>1, NoFileAssumption
<1>4. PICK part \in Parts : part = <<client[c].packet, kind>>
  BY <1>1 DEF Parts
<1>5. disk' = [disk EXCEPT ![f] = Append(disk[f], part)]
  BY <1>3, <1>4 DEF WriteHeader, WriteData
<1>6. /\ \A n \in Names \ {f} : Written(n)' = Written(n)
      /\ Len(Written(f)') = Len(Written(f)) + 1
      /\ DOMAIN Written(f)' = 1..(Len(Written(f)) + 1)
      /\ \A i \in 1..Len(Written(f)) : Written(f)'[i] = Written(f)[i]
      /\ Written(f)'[Len(Written(f)) + 1] = part
  BY <1>3, <1>5, AppendedPart DEF RotationInv
<1>. QED
  BY <1>1, <1>2, <1>3, <1>4, <1>6

\* A new file is empty, and so was its name before.
LEMMA NewFile ==
  ASSUME RotationInv, NamesInv, NEW c \in Clients, OpenNew(c), faults = 0
  PROVE  /\ \A n \in Names : Written(n)' = Written(n)
         /\ path' \in Names /\ Written(second) = <<>>
         /\ client[c].pc \in Holding /\ client[c].pc \in {"open", "reopen"}
         /\ client'[c].pc \in {"header", "hand"} /\ client'[c].packet = client[c].packet
         /\ \A d \in Clients \ {c} : client'[d] = client[d]
         /\ file' = "open" /\ taken' = taken /\ server' = server
<1>. DEFINE pc == IF client[c].pc = "open" THEN "header" ELSE "hand"
<1>1. /\ path' = second /\ file' = "open" /\ UNCHANGED <<server, taken>>
      /\ disk' = [disk EXCEPT ![second] = <<>>] /\ Goto(c, pc)
      /\ client[c].pc \in {"open", "reopen"} /\ client[c].pc \in Holding
  BY DEF OpenNew, At, Holding
<1>2. pc \in Pcs /\ pc \in {"header", "hand"}
  BY DEF Pcs, Holding
<1>. HIDE DEF pc
<1>3. /\ client'[c].pc = pc /\ client'[c].packet = client[c].packet
      /\ \A d \in Clients \ {c} : client'[d] = client[d]
  BY <1>1, <1>2, GotoMoves DEF RotationInv
<1>4. /\ disk \in [Names -> Seq(Parts) \cup {None}] /\ second \in Names /\ Names \subseteq Nat
  BY BoundsAssumption DEF RotationInv, TypeOK, Names
<1>5. disk[second] = None
  <2>1. CASE client[c].pc = "open"
    BY <1>4, <2>1 DEF NamesInv, RotationInv, HandOverInv, ThreadInv, At
  <2>2. CASE client[c].pc = "reopen"
    <3>1. path < second
      BY <2>2 DEF RotationInv, HandOverInv, ThreadInv, At, Rotating
    <3>2. disk[second] # None => path \in Nat /\ second <= path /\ second \in Nat
      BY <1>4 DEF NamesInv
    <3>. QED
      BY <3>1, <3>2
  <2>. QED
    BY <1>1, <2>1, <2>2
<1>6. \A n \in Names : Written(n)' = Written(n)
  <2>1. /\ disk'[second] = <<>>
        /\ \A n \in Names \ {second} : disk'[n] = disk[n]
    BY <1>1, <1>4
  <2>2. Written(second) = <<>>
    BY <1>5 DEF Written
  <2>. QED
    BY <1>5, <2>1, <2>2 DEF Written
<1>. QED
  BY <1>1, <1>2, <1>3, <1>4, <1>5, <1>6 DEF Written

\* Records stay whole.
LEMMA RecordsStep ==
  ASSUME RotationInv, NamesInv, RecordsInv, Next, faults' = 0, server' # "exited"
  PROVE  RecordsInv'
<1>1. faults = 0
  BY StepKinds
<1>2. \A n \in Names : Len(Written(n)) \in Nat /\ DOMAIN Written(n) = 1..Len(Written(n))
  BY WrittenType DEF RotationInv
<1>3. ASSUME NEW c \in Clients,
             Connect(c) \/ Receive(c) \/ Disconnect(c) \/ Enter(c) \/ CloseOld(c) \/ WriteClosed(c)
      PROVE  RecordsInv'
  <2>1. /\ UNCHANGED <<disk, path>> /\ client[c].pc # "data" /\ client'[c].pc # "data"
        /\ \A d \in Clients \ {c} : client'[d] = client[d]
    BY <1>3, QuietStep
  <2>. QED
    BY <2>1, RecordsKept
<1>4. ASSUME NEW c \in Clients, Hand(c) PROVE RecordsInv'
  <2>1. UNCHANGED <<disk, path>> /\ client[c].pc = "hand" /\ Goto(c, "header")
    BY <1>4 DEF Hand, At
  <2>2. /\ client'[c].pc = "header"
        /\ \A d \in Clients \ {c} : client'[d] = client[d]
    BY <2>1, GotoMoves DEF RotationInv, Pcs, Holding
  <2>. QED
    BY <2>1, <2>2, RecordsKept
<1>5. ASSUME NEW c \in Clients, OpenNew(c) PROVE RecordsInv'
  <2>1. /\ \A n \in Names : Written(n)' = Written(n)
        /\ \A d \in Clients : client[d].pc # "data" /\ client'[d].pc # "data"
    <3>1. \A n \in Names : Written(n)' = Written(n)
      BY <1>1, <1>5, NewFile
    <3>2. client[c].pc \in Holding /\ client[c].pc # "data" /\ client'[c].pc # "data"
      BY <1>1, <1>5, NewFile
    <3>3. \A d \in Clients \ {c} : client'[d] = client[d]
      BY <1>1, <1>5, NewFile
    <3>. QED
      BY <3>1, <3>2, <3>3, OneWriter
  <2>. QED
    BY <2>1 DEF RecordsInv
<1>6. ASSUME NEW c \in Clients, WriteHeader(c) PROVE RecordsInv'
  <2>1. /\ client[c].pc = "header" /\ client[c].pc \in Holding
        /\ \A d \in Clients \ {c} : client'[d] = client[d]
        /\ client'[c].pc = "data" /\ client'[c].packet = client[c].packet /\ path' = path
    BY <1>6, PartWritten
  <2>2. PICK f \in Names :
          /\ f = path
          /\ \A n \in Names \ {f} : Written(n)' = Written(n)
          /\ Len(Written(f)') = Len(Written(f)) + 1
          /\ DOMAIN Written(f)' = 1..(Len(Written(f)) + 1)
          /\ \A i \in 1..Len(Written(f)) : Written(f)'[i] = Written(f)[i]
          /\ Written(f)'[Len(Written(f)) + 1] = <<client[c].packet, "header">>
    BY <1>6, PartWritten
  <2>3. \A d \in Clients : client[d].pc # "data"
    BY <2>1, OneWriter
  <2>4. Len(Written(f)) % 2 = 0 /\ (Len(Written(f)) + 1) % 2 # 0
    BY <1>2, <2>3, Parity DEF RecordsInv, Unfinished
  <2>5. ASSUME NEW n \in Names PROVE Alternates(Written(n)')
    <3>1. CASE n # f
      BY <2>2, <3>1 DEF RecordsInv
    <3>2. Alternates(Written(f)')
      <4>1. Alternates(Written(f))
        BY DEF RecordsInv
      <4>2. Written(f)'[Len(Written(f)) + 1][2] = "header"
        BY <2>2
      <4>. QED
        BY <1>2, <2>2, <2>4, <4>1, <4>2, AppendAlternates
    <3>. QED
      BY <3>1, <3>2
  <2>6. \A n \in Names : Unfinished(Written(n)') => n = f
    BY <2>2, <2>3 DEF RecordsInv
  <2>7. /\ Unfinished(Written(f)')
        /\ Written(f)'[Len(Written(f)')][1] = client[c].packet
    BY <2>2, <2>4 DEF Unfinished
  <2>8. \A d \in Clients : client'[d].pc = "data" => d = c
    BY <2>1, <2>3
  <2>9. path' = f
    BY <2>1, <2>2
  <2>. QED
    BY <2>1, <2>5, <2>6, <2>7, <2>8, <2>9 DEF RecordsInv
<1>7. ASSUME NEW c \in Clients, WriteData(c) PROVE RecordsInv'
  <2>1. /\ client[c].pc = "data" /\ client[c].pc \in Holding
        /\ \A d \in Clients \ {c} : client'[d] = client[d]
        /\ client'[c].pc # "data" /\ path' = path
    BY <1>7, PartWritten
  <2>2. PICK f \in Names :
          /\ f = path
          /\ \A n \in Names \ {f} : Written(n)' = Written(n)
          /\ Len(Written(f)') = Len(Written(f)) + 1
          /\ DOMAIN Written(f)' = 1..(Len(Written(f)) + 1)
          /\ \A i \in 1..Len(Written(f)) : Written(f)'[i] = Written(f)[i]
          /\ Written(f)'[Len(Written(f)) + 1] = <<client[c].packet, "data">>
    BY <1>7, PartWritten
  <2>3. \A d \in Clients : client'[d].pc # "data"
    BY <2>1, OneWriter
  <2>4. /\ Len(Written(f)) % 2 # 0 /\ (Len(Written(f)) + 1) % 2 = 0
        /\ Written(f)[Len(Written(f))][1] = client[c].packet
    <3>1. /\ Len(Written(f)) % 2 # 0
          /\ Written(f)[Len(Written(f))][1] = client[c].packet
      BY <2>1, <2>2 DEF RecordsInv, Unfinished
    <3>. QED
      BY <1>2, <3>1, Parity
  <2>5. ASSUME NEW n \in Names PROVE Alternates(Written(n)')
    <3>1. CASE n # f
      BY <2>2, <3>1 DEF RecordsInv
    <3>2. Alternates(Written(f)')
      <4>1. Alternates(Written(f))
        BY DEF RecordsInv
      <4>2. Written(f)'[Len(Written(f)) + 1] = <<Written(f)[Len(Written(f))][1], "data">>
        BY <2>2, <2>4
      <4>. QED
        BY <1>2, <2>2, <2>4, <4>1, <4>2, AppendAlternates
    <3>. QED
      BY <3>1, <3>2
  <2>6. \A n \in Names : ~Unfinished(Written(n)')
    BY <2>2, <2>4 DEF RecordsInv, Unfinished
  <2>. QED
    BY <2>3, <2>5, <2>6 DEF RecordsInv
<1>8. CASE Elapse \/ Tick \/ Stop \/ (CloseAll /\ disk' = disk) \/ Exit
  BY <1>8, OutsideFrame, RecordsKept
<1>9. \/ \E c \in Clients : Connect(c) \/ Receive(c) \/ Disconnect(c) \/ Enter(c)
                             \/ CloseOld(c) \/ WriteClosed(c)
      \/ \E c \in Clients : OpenNew(c)
      \/ \E c \in Clients : Hand(c)
      \/ \E c \in Clients : WriteHeader(c) \/ WriteData(c)
      \/ Elapse \/ Tick \/ Stop
      \/ (CloseAll /\ disk' = disk) \/ Exit
  BY StepKinds
<1>. QED
  BY <1>3, <1>4, <1>5, <1>6, <1>7, <1>8, <1>9

\* The packets stay where they are.
LEMMA PacketsKept ==
  ASSUME PacketsInv, taken' = taken,
         \A d \in Clients :
           /\ client'[d].packet = client[d].packet
           /\ client'[d].pc \in {"off", "read"} => client[d].pc \in {"off", "read"},
         \A p \in Packets, n \in Names, i \in Nat : Stored(p, n, i)' <=> Stored(p, n, i),
         file' = "closed" => \E d \in Clients : client'[d].pc = "reopen",
         taken \in 0..MaxPackets
  PROVE  PacketsInv'
<1>1. \A p \in 1..taken : p \in Packets
  BY BoundsAssumption DEF Packets
<1>2. \A c \in Clients : client'[c].pc \in {"off", "read"} => client'[c].packet = None
  BY DEF PacketsInv
<1>3. /\ \A c \in Clients : client'[c].packet # None => client'[c].packet \in 1..taken'
      /\ \A c, d \in Clients :
           client'[c].packet # None /\ client'[c].packet = client'[d].packet => c = d
  BY DEF PacketsInv
<1>4. /\ \A p \in Packets, n \in Names, i \in Nat :
           Stored(p, n, i)' => p <= taken' /\ \A c \in Clients : client'[c].packet # p
      /\ \A p \in Packets, n \in Names, m \in Names, i \in Nat, j \in Nat :
           Stored(p, n, i)' /\ Stored(p, m, j)' => n = m /\ i = j
  BY DEF PacketsInv
<1>5. \A p \in 1..taken' : \/ \E c \in Clients : client'[c].packet = p
                          \/ \E n \in Names, i \in Nat : Stored(p, n, i)'
  BY <1>1 DEF PacketsInv
<1>. QED
  BY <1>2, <1>3, <1>4, <1>5 DEF PacketsInv

\* A thread moves with the packet it has.
LEMMA CarryStep ==
  ASSUME RotationInv, PacketsInv, NEW c \in Clients, server \in {"run", "stopping"},
         Connect(c) \/ Disconnect(c) \/ Enter(c) \/ CloseOld(c) \/ Hand(c)
  PROVE  PacketsInv'
<1>1. disk' = disk /\ taken' = taken /\ taken \in 0..MaxPackets
  BY DEF Connect, Disconnect, Enter, CloseOld, Hand, RotationInv, TypeOK
<1>2. \A p \in Packets, n \in Names, i \in Nat : Stored(p, n, i)' <=> Stored(p, n, i)
  BY <1>1 DEF Stored, Written
<1>3. /\ client'[c].packet = client[c].packet
      /\ client'[c].pc \in {"off", "read"} => client[c].pc \in {"off", "read"}
      /\ CloseOld(c) => client'[c].pc = "reopen"
      /\ \A d \in Clients \ {c} : client'[d] = client[d]
  <2>1. CASE \E pc \in Pcs :
               /\ Goto(c, pc) /\ (CloseOld(c) => pc = "reopen")
               /\ pc \in {"off", "read"} => client[c].pc \in {"off", "read"}
    BY <2>1, GotoMoves DEF RotationInv
  <2>2. CASE client' = [client EXCEPT ![c] =
               [pc |-> "close", packet |-> client[c].packet, completed |-> path]]
    BY <2>2 DEF RotationInv, TypeOK, CloseOld, Goto, At
  <2>3. CASE Connect(c) \/ Disconnect(c)
    <3>1. PICK pc \in {"read", "off"} : Goto(c, pc)
      BY <2>3 DEF Connect, Disconnect
    <3>2. client[c].pc \in {"read", "off"}
      BY <2>3 DEF Connect, Disconnect, At
    <3>. QED
      BY <2>1, <2>3, <3>1, <3>2 DEF Pcs, CloseOld, Connect, Disconnect, At
  <2>4. CASE CloseOld(c) \/ Hand(c)
    <3>1. PICK pc \in {"reopen", "header"} : Goto(c, pc) /\ (CloseOld(c) => pc = "reopen")
      BY <2>4 DEF CloseOld, Hand, At
    <3>. QED
      BY <2>1, <3>1 DEF Pcs, Holding
  <2>5. CASE Enter(c)
    <3>1. ~CloseOld(c)
      BY <2>5 DEF Enter, CloseOld, At
    <3>2. \/ \E pc \in {"open", "header"} : Goto(c, pc)
          \/ client' = [client EXCEPT ![c] =
               [pc |-> "close", packet |-> client[c].packet, completed |-> path]]
      BY <2>5 DEF Enter
    <3>. QED
      BY <2>1, <2>2, <3>1, <3>2 DEF Pcs, Holding
  <2>. QED
    BY <2>3, <2>4, <2>5
<1>4. file' = "closed" => \E d \in Clients : client'[d].pc = "reopen"
  <2>1. CASE CloseOld(c)
    BY <1>3, <2>1
  <2>2. CASE Connect(c) \/ Disconnect(c)
    <3>1. file' = file /\ client[c].pc # "reopen"
      BY <2>2 DEF Connect, Disconnect, At
    <3>. QED
      BY <1>3, <3>1 DEF PacketsInv
  <2>3. CASE Enter(c)
    <3>1. file' = file /\ \A d \in Clients : client[d].pc # "reopen"
      BY <2>3, NoneAssumption DEF Enter, RotationInv, LockInv, Holding
    <3>. QED
      BY <3>1 DEF PacketsInv
  <2>4. CASE Hand(c)
    BY <2>4 DEF Hand, At, RotationInv, HandOverInv, ThreadInv
  <2>. QED
    BY <2>1, <2>2, <2>3, <2>4
<1>5. \A d \in Clients :
        /\ client'[d].packet = client[d].packet
        /\ client'[d].pc \in {"off", "read"} => client[d].pc \in {"off", "read"}
  BY <1>3
<1>. QED
  BY <1>1, <1>2, <1>4, <1>5, PacketsKept

\* A packet is received once.
LEMMA ReceiveStep ==
  ASSUME RotationInv, PacketsInv, NEW c \in Clients, Receive(c)
  PROVE  PacketsInv'
<1>. DEFINE t == [pc |-> "lock", packet |-> taken + 1, completed |-> None]
<1>1. /\ UNCHANGED <<file, disk>> /\ taken' = taken + 1 /\ taken \in Nat
      /\ taken' \in Packets /\ Packets \subseteq Nat
      /\ client' = [client EXCEPT ![c] = t] /\ client[c].pc = "read"
  BY BoundsAssumption DEF Receive, At, RotationInv, TypeOK, Packets
<1>2. t \in Thread /\ t.pc = "lock" /\ t.packet = taken + 1 /\ t.packet # None
  BY <1>1, NoneAssumption DEF Thread
<1>. HIDE DEF t
<1>3. /\ client'[c] = t
      /\ \A d \in Clients \ {c} : client'[d] = client[d]
  BY <1>1, <1>2, OneMoves DEF RotationInv
<1>4. \A p \in Packets, n \in Names, i \in Nat : Stored(p, n, i)' <=> Stored(p, n, i)
  BY <1>1 DEF Stored, Written
<1>5. \A d \in Clients \ {c} : client[d].packet # None =>
        client[d].packet \in 1..taken /\ client[d].packet # taken + 1
  BY <1>1 DEF PacketsInv
<1>6. \A d \in Clients : client'[d].pc \in {"off", "read"} => client'[d].packet = None
  BY <1>2, <1>3 DEF PacketsInv
<1>7. ASSUME NEW d \in Clients, client'[d].packet # None
      PROVE  client'[d].packet \in 1..taken'
  <2>1. CASE d = c
    BY <1>1, <1>2, <1>3, <2>1
  <2>2. CASE d # c
    BY <1>1, <1>3, <1>5, <1>7, <2>2
  <2>. QED
    BY <2>1, <2>2
<1>8. ASSUME NEW d \in Clients, NEW e \in Clients, client'[d].packet # None,
             client'[d].packet = client'[e].packet
      PROVE  d = e
  <2>1. CASE d # c /\ e # c
    BY <1>3, <1>8, <2>1 DEF PacketsInv
  <2>2. CASE d = c /\ e # c
    BY <1>2, <1>3, <1>5, <1>8, <2>2
  <2>3. CASE d # c /\ e = c
    BY <1>2, <1>3, <1>5, <1>8, <2>3
  <2>. QED
    BY <2>1, <2>2, <2>3
<1>9. ASSUME NEW p \in Packets, NEW n \in Names, NEW i \in Nat, Stored(p, n, i)'
      PROVE  p <= taken' /\ \A d \in Clients : client'[d].packet # p
  <2>1. p <= taken /\ \A d \in Clients : client[d].packet # p
    BY <1>4, <1>9 DEF PacketsInv
  <2>2. p \in Nat /\ p # taken + 1
    BY <1>1, <2>1
  <2>. QED
    BY <1>1, <1>2, <1>3, <2>1, <2>2
<1>10. \A p \in Packets, n \in Names, m \in Names, i \in Nat, j \in Nat :
         Stored(p, n, i)' /\ Stored(p, m, j)' => n = m /\ i = j
  BY <1>4 DEF PacketsInv
<1>11. ASSUME NEW p \in 1..taken'
       PROVE  \/ \E d \in Clients : client'[d].packet = p
              \/ \E n \in Names, i \in Nat : Stored(p, n, i)'
  <2>1. CASE p = taken + 1
    BY <1>2, <1>3, <2>1
  <2>2. CASE p # taken + 1
    <3>1. p \in 1..taken /\ p \in Packets
      BY <1>1, <2>2, BoundsAssumption DEF Packets
    <3>2. client[c].packet = None /\ p # None
      BY <1>1, NoneAssumption DEF PacketsInv
    <3>3. CASE \E d \in Clients : client[d].packet = p
      BY <1>3, <3>2, <3>3
    <3>4. CASE \E n \in Names, i \in Nat : Stored(p, n, i)
      BY <1>4, <3>1, <3>4
    <3>. QED
      BY <3>1, <3>3, <3>4 DEF PacketsInv
  <2>. QED
    BY <2>1, <2>2
<1>12. file' = "closed" => \E d \in Clients : client'[d].pc = "reopen"
  <2>1. ASSUME NEW d \in Clients, client[d].pc = "reopen" PROVE client'[d].pc = "reopen"
    BY <1>1, <1>3, <2>1
  <2>. QED
    BY <1>1, <2>1 DEF PacketsInv
<1>. QED
  BY <1>6, <1>7, <1>8, <1>9, <1>10, <1>11, <1>12 DEF PacketsInv

\* A packet is stored once, and then the thread has it no more.
LEMMA StoreStep ==
  ASSUME RotationInv, PacketsInv, NEW c \in Clients, WriteHeader(c) \/ WriteData(c)
  PROVE  PacketsInv'
<1>1. /\ \A n \in Names : Len(Written(n)) \in Nat /\ DOMAIN Written(n) = 1..Len(Written(n))
      /\ taken \in 0..MaxPackets /\ Packets \subseteq Nat
  BY WrittenType DEF RotationInv, TypeOK, Packets
<1>2. CASE WriteHeader(c)
  <2>1. /\ client[c].pc = "header" /\ taken' = taken /\ file' = "open"
        /\ \A d \in Clients \ {c} : client'[d] = client[d]
        /\ client'[c].pc = "data" /\ client'[c].packet = client[c].packet
    BY <1>2, PartWritten
  <2>2. PICK f \in Names :
          /\ \A n \in Names \ {f} : Written(n)' = Written(n)
          /\ DOMAIN Written(f)' = 1..(Len(Written(f)) + 1)
          /\ \A i \in 1..Len(Written(f)) : Written(f)'[i] = Written(f)[i]
          /\ Written(f)'[Len(Written(f)) + 1] = <<client[c].packet, "header">>
    BY <1>2, PartWritten
  <2>3. ASSUME NEW p \in Packets, NEW n \in Names, NEW i \in Nat
        PROVE  Stored(p, n, i)' <=> Stored(p, n, i)
    <3>1. CASE n # f
      BY <2>2, <3>1 DEF Stored
    <3>2. CASE n = f /\ i = Len(Written(f)) + 1
      <4>1. <<client[c].packet, "header">> # <<p, "data">> /\ i \notin DOMAIN Written(f)
        BY <1>1, <3>2
      <4>. QED
        BY <2>2, <3>2, <4>1 DEF Stored
    <3>3. CASE n = f /\ i # Len(Written(f)) + 1
      <4>1. /\ i \in DOMAIN Written(f)' <=> i \in DOMAIN Written(f)
            /\ i \in DOMAIN Written(f) => Written(f)'[i] = Written(f)[i]
        BY <1>1, <2>2, <3>3
      <4>. QED
        BY <3>3, <4>1 DEF Stored
    <3>. QED
      BY <3>1, <3>2, <3>3
  <2>4. \A d \in Clients :
          /\ client'[d].packet = client[d].packet
          /\ client'[d].pc \in {"off", "read"} => client[d].pc \in {"off", "read"}
    BY <2>1
  <2>. QED
    BY <1>1, <2>1, <2>3, <2>4, PacketsKept
<1>3. CASE WriteData(c)
  <2>. DEFINE q == client[c].packet
  <2>1. /\ client[c].pc = "data" /\ q \in Packets /\ taken' = taken /\ file' = "open"
        /\ \A d \in Clients \ {c} : client'[d] = client[d]
        /\ client'[c].pc \in {"read", "off"} /\ client'[c].packet = None
    BY <1>3, PartWritten
  <2>2. PICK f \in Names :
          /\ \A n \in Names \ {f} : Written(n)' = Written(n)
          /\ DOMAIN Written(f)' = 1..(Len(Written(f)) + 1)
          /\ \A i \in 1..Len(Written(f)) : Written(f)'[i] = Written(f)[i]
          /\ Written(f)'[Len(Written(f)) + 1] = <<q, "data">>
    BY <1>3, PartWritten
  <2>. DEFINE end == Len(Written(f)) + 1
  <2>3. ASSUME NEW p \in Packets, NEW n \in Names, NEW i \in Nat
        PROVE  Stored(p, n, i)' <=> Stored(p, n, i) \/ (p = q /\ n = f /\ i = end)
    <3>1. CASE n # f
      BY <2>2, <3>1 DEF Stored
    <3>2. CASE n = f /\ i = end
      <4>1. (<<q, "data">> = <<p, "data">> <=> p = q) /\ i \notin DOMAIN Written(f)
            /\ i \in 1..end
        BY <1>1, <3>2
      <4>. QED
        BY <2>2, <3>2, <4>1 DEF Stored
    <3>3. CASE n = f /\ i # end
      <4>1. /\ i \in DOMAIN Written(f)' <=> i \in DOMAIN Written(f)
            /\ i \in DOMAIN Written(f) => Written(f)'[i] = Written(f)[i]
        BY <1>1, <2>2, <3>3
      <4>. QED
        BY <3>3, <4>1 DEF Stored
    <3>. QED
      BY <3>1, <3>2, <3>3
  <2>4. q \in 1..taken /\ q # None /\ end \in Nat
    <3>1. q # None
      BY <1>1, <2>1, NoneAssumption
    <3>. QED
      BY <1>1, <3>1 DEF PacketsInv
  <2>5. /\ \A d \in Clients \ {c} : client[d].packet # q
        /\ \A n \in Names, i \in Nat : ~Stored(q, n, i)
    BY <2>1, <2>4 DEF PacketsInv
  <2>. HIDE DEF q, end
  <2>6. \A d \in Clients : client'[d].pc \in {"off", "read"} => client'[d].packet = None
    BY <2>1 DEF PacketsInv
  <2>7. \A d \in Clients : client'[d].packet # None => client'[d].packet \in 1..taken'
    BY <2>1 DEF PacketsInv
  <2>8. \A d, e \in Clients :
          client'[d].packet # None /\ client'[d].packet = client'[e].packet => d = e
    BY <2>1 DEF PacketsInv
  <2>9. ASSUME NEW p \in Packets, NEW n \in Names, NEW i \in Nat, Stored(p, n, i)'
        PROVE  p <= taken' /\ \A d \in Clients : client'[d].packet # p
    <3>1. p # None
      BY <1>1, NoneAssumption
    <3>2. CASE p = q
      BY <2>1, <2>4, <2>5, <3>1, <3>2
    <3>3. CASE p # q
      <4>1. p <= taken /\ \A d \in Clients : client[d].packet # p
        BY <2>3, <2>9, <3>3 DEF PacketsInv
      <4>. QED
        BY <2>1, <3>1, <4>1
    <3>. QED
      BY <3>2, <3>3
  <2>10. ASSUME NEW p \in Packets, NEW n \in Names, NEW m \in Names, NEW i \in Nat, NEW j \in Nat,
                Stored(p, n, i)', Stored(p, m, j)'
         PROVE  n = m /\ i = j
    <3>1. CASE p = q
      BY <2>3, <2>5, <2>10, <3>1
    <3>2. CASE p # q
      BY <2>3, <2>10, <3>2 DEF PacketsInv
    <3>. QED
      BY <3>1, <3>2
  <2>11. ASSUME NEW p \in 1..taken'
         PROVE  \/ \E d \in Clients : client'[d].packet = p
                \/ \E n \in Names, i \in Nat : Stored(p, n, i)'
    <3>1. p \in Packets /\ p \in 1..taken
      BY <1>1, <2>1, BoundsAssumption DEF Packets
    <3>2. CASE p = q
      BY <2>3, <2>4, <3>1, <3>2
    <3>3. CASE p # q /\ \E d \in Clients : client[d].packet = p
      <4>1. PICK d \in Clients : client[d].packet = p
        BY <3>3
      <4>2. d # c
        BY <3>3, <4>1 DEF q
      <4>. QED
        BY <2>1, <4>1, <4>2
    <3>4. CASE \E n \in Names, i \in Nat : Stored(p, n, i)
      BY <2>3, <3>1, <3>4
    <3>. QED
      BY <3>1, <3>2, <3>3, <3>4 DEF PacketsInv
  <2>. QED
    BY <2>1, <2>6, <2>7, <2>8, <2>9, <2>10, <2>11 DEF PacketsInv
<1>. QED
  BY <1>2, <1>3

\* No packet is lost or written twice.
LEMMA PacketsStep ==
  ASSUME RotationInv, NamesInv, PacketsInv, Next, faults' = 0,
         server \in {"run", "stopping"}, server' \in {"run", "stopping"}
  PROVE  PacketsInv'
<1>1. ASSUME NEW c \in Clients,
             Connect(c) \/ Receive(c) \/ Disconnect(c) \/ Enter(c) \/ CloseOld(c) \/ WriteClosed(c)
      PROVE  PacketsInv'
  <2>1. ~WriteClosed(c)
    <3>1. SUFFICES ASSUME WriteClosed(c) PROVE FALSE
      OBVIOUS
    <3>2. client[c].pc = "header" /\ file = "closed"
      BY <3>1 DEF WriteClosed, At
    <3>3. PICK d \in Clients : client[d].pc = "reopen"
      BY <3>2 DEF PacketsInv
    <3>. QED
      BY <3>2, <3>3 DEF RotationInv, LockInv, Holding
  <2>. QED
    BY <1>1, <2>1, CarryStep, ReceiveStep
<1>2. ASSUME NEW c \in Clients, OpenNew(c) PROVE PacketsInv'
  <2>1. faults = 0 /\ taken \in 0..MaxPackets
    BY StepKinds DEF RotationInv, TypeOK
  <2>2. /\ \A n \in Names : Written(n)' = Written(n)
        /\ client'[c].pc \in {"header", "hand"} /\ client'[c].packet = client[c].packet
        /\ \A d \in Clients \ {c} : client'[d] = client[d]
        /\ file' = "open" /\ taken' = taken
    BY <1>2, <2>1, NewFile
  <2>3. \A p \in Packets, n \in Names, i \in Nat : Stored(p, n, i)' <=> Stored(p, n, i)
    BY <2>2 DEF Stored
  <2>. QED
    BY <2>1, <2>2, <2>3, PacketsKept
<1>3. CASE Elapse \/ Tick \/ Stop \/ (CloseAll /\ disk' = disk) \/ Exit
  <2>1. UNCHANGED <<disk, taken, client, file>> /\ taken \in 0..MaxPackets
    BY <1>3, OutsideFrame DEF RotationInv, TypeOK
  <2>2. \A p \in Packets, n \in Names, i \in Nat : Stored(p, n, i)' <=> Stored(p, n, i)
    BY <2>1 DEF Stored, Written
  <2>3. file' = "closed" => \E d \in Clients : client'[d].pc = "reopen"
    BY <2>1 DEF PacketsInv
  <2>. QED
    BY <2>1, <2>2, <2>3, PacketsKept
<1>4. \/ \E c \in Clients : Connect(c) \/ Receive(c) \/ Disconnect(c) \/ Enter(c)
                             \/ CloseOld(c) \/ WriteClosed(c)
      \/ \E c \in Clients : OpenNew(c)
      \/ \E c \in Clients : Hand(c)
      \/ \E c \in Clients : WriteHeader(c) \/ WriteData(c)
      \/ Elapse \/ Tick \/ Stop
      \/ (CloseAll /\ disk' = disk) \/ Exit
  BY StepKinds
<1>. QED
  BY <1>1, <1>2, <1>3, <1>4, CarryStep, StoreStep

\* The server does not come back.
LEMMA ServerStep ==
  ASSUME Next
  PROVE  /\ server' # "exited" => server # "exited"
         /\ server' \in {"run", "stopping"} => server \in {"run", "stopping"}
<1>1. CASE \E c \in Clients : Connect(c) \/ Receive(c) \/ Disconnect(c) \/ Enter(c) \/ Holder(c)
  BY <1>1
  DEF Holder, Connect, Receive, Disconnect, Enter, CloseOld, WriteClosed, OpenNew, Hand,
      WriteHeader, WriteData, CloseFails, OpenFails, HandFails, WriteFails
<1>2. CASE Elapse \/ Tick \/ Stop \/ CloseAll \/ Exit
  BY <1>2 DEF Elapse, Tick, Stop, CloseAll, Exit
<1>. QED
  BY <1>1, <1>2 DEF Next

\* There is no file at first.
LEMMA InitFilesInv == Init => FilesInv
<1>. SUFFICES ASSUME Init PROVE FilesInv
  OBVIOUS
<1>1. /\ Off.pc = "off" /\ Off.packet = None
      /\ \A n \in Names : disk[n] = None
      /\ \A c \in Clients : client[c] = Off
      /\ taken = 0 /\ file = "none"
  BY DEF Init, Off
<1>2. NamesInv
  BY <1>1 DEF NamesInv
<1>3. \A n \in Names : Written(n) = <<>>
  BY <1>1 DEF Written
<1>4. RecordsInv
  <2>1. Alternates(<<>>) /\ ~Unfinished(<<>>)
    BY DEF Alternates, Unfinished
  <2>. QED
    BY <1>1, <1>3, <2>1 DEF RecordsInv
<1>5. PacketsInv
  <2>1. \A p \in Packets, n \in Names, i \in Nat : ~Stored(p, n, i)
    BY <1>3 DEF Stored
  <2>2. 1..taken = {}
    BY <1>1
  <2>. QED
    BY <1>1, <2>1, <2>2 DEF PacketsInv
<1>. QED
  BY <1>2, <1>4, <1>5 DEF FilesInv

\* Every step keeps the files as described.
LEMMA NextFilesInv == RotationInv /\ FilesInv /\ [Next]_vars => FilesInv'
<1>. SUFFICES ASSUME RotationInv, FilesInv, [Next]_vars, faults' = 0
              PROVE  /\ NamesInv'
                     /\ server' # "exited" => RecordsInv'
                     /\ server' \in {"run", "stopping"} => PacketsInv'
  BY DEF FilesInv
<1>1. CASE UNCHANGED vars
  <2>1. /\ UNCHANGED <<server, client, file, path, disk, handed, taken>> /\ faults = 0
    BY <1>1 DEF vars
  <2>2. NamesInv <=> NamesInv'
    BY <2>1 DEF NamesInv
  <2>3. /\ \A n \in Names : Written(n)' = Written(n)
        /\ Written(path)' = Written(path)
    BY <2>1 DEF Written
  <2>4. RecordsInv => RecordsInv'
    BY <2>1, RecordsKept
  <2>5. PacketsInv => PacketsInv'
    <3>1. \A p \in Packets, n \in Names, i \in Nat : Stored(p, n, i)' <=> Stored(p, n, i)
      BY <2>3 DEF Stored
    <3>2. taken \in 0..MaxPackets
      BY DEF RotationInv, TypeOK
    <3>3. PacketsInv => (file' = "closed" => \E d \in Clients : client'[d].pc = "reopen")
      BY <2>1 DEF PacketsInv
    <3>. QED
      BY <2>1, <3>1, <3>2, <3>3, PacketsKept
  <2>. QED
    BY <2>1, <2>2, <2>4, <2>5 DEF FilesInv
<1>2. CASE Next
  <2>1. faults = 0
    BY <1>2, StepKinds
  <2>2. NamesInv'
    BY <1>2, <2>1, NamesStep DEF FilesInv
  <2>3. server' # "exited" => RecordsInv'
    BY <1>2, <2>1, ServerStep, RecordsStep DEF FilesInv
  <2>4. server' \in {"run", "stopping"} => PacketsInv'
    BY <1>2, <2>1, ServerStep, PacketsStep DEF FilesInv
  <2>. QED
    BY <2>2, <2>3, <2>4
<1>. QED
  BY <1>1, <1>2

\* Without I/O errors, what the files and the threads hold.
THEOREM FilesInvariant == Spec => []FilesInv
BY InitFilesInv, NextFilesInv, RotationInvariant, PTL DEF Spec

\* write_packet is thread-safe: without I/O errors the parts of a record are next to
\* each other in every file, for any number of connections.
THEOREM WholeRecords == Spec => []RecordsWhole
<1>1. RotationInv /\ FilesInv => RecordsWhole
  <2>. SUFFICES ASSUME RotationInv, FilesInv, faults = 0, server # "exited",
                       NEW n \in Names, NEW i \in DOMAIN Written(n)
                PROVE  IF i % 2 = 0 THEN Written(n)[i] = <<Written(n)[i - 1][1], "data">>
                       ELSE /\ Written(n)[i][2] = "header"
                            /\ i = Len(Written(n)) =>
                                 n = path /\ \E c \in Clients : lock = c /\ At(c, "data")
    BY DEF RecordsWhole
  <2>1. RecordsInv
    BY DEF FilesInv
  <2>2. Alternates(Written(n))
    BY <2>1 DEF RecordsInv
  <2>3. i % 2 # 0 /\ i = Len(Written(n)) =>
          n = path /\ \E c \in Clients : client[c].pc = "data"
    BY <2>1 DEF RecordsInv, Unfinished
  <2>4. \A c \in Clients : client[c].pc = "data" => lock = c /\ At(c, "data")
    BY DEF RotationInv, LockInv, Holding, At
  <2>5. i % 2 = 0 => Written(n)[i] = <<Written(n)[i - 1][1], "data">>
    BY <2>2 DEF Alternates
  <2>6. i % 2 # 0 => Written(n)[i][2] = "header"
    BY <2>2 DEF Alternates
  <2>. QED
    BY <2>3, <2>4, <2>5, <2>6
<1>. QED
  BY <1>1, RotationInvariant, FilesInvariant, PTL

\* No file is forgotten: without I/O errors each one is being written, being handed
\* over, or was handed over, until the process ends.
THEOREM FilesAreHanded == Spec => []EveryFileHanded
<1>1. FilesInv => EveryFileHanded
  BY DEF FilesInv, NamesInv, EveryFileHanded
<1>. QED
  BY <1>1, FilesInvariant, PTL

\* Without I/O errors and until the server closes, a packet received is with exactly
\* one thread or in exactly one place of one file.
THEOREM PacketsAreKept == Spec => []NoPacketLost
<1>1. RotationInv /\ FilesInv => NoPacketLost
  <2>. DEFINE Having(p) == {c \in Clients : client[c].packet = p}
              Places == UNION {{n} \X DOMAIN Written(n) : n \in Names}
              Storing(p) == {at \in Places : Written(at[1])[at[2]] = <<p, "data">>}
  <2>. SUFFICES ASSUME RotationInv, FilesInv, faults = 0, server \in {"run", "stopping"},
                       NEW p \in 1..taken
                PROVE  Cardinality(Having(p)) + Cardinality(Storing(p)) = 1
    BY DEF NoPacketLost
  <2>1. PacketsInv
    BY DEF FilesInv
  <2>2. p \in Packets /\ p # None
    BY BoundsAssumption, NoneAssumption DEF RotationInv, TypeOK, Packets
  <2>3. ASSUME NEW at PROVE at \in Storing(p) <=>
          \E n \in Names, i \in Nat : Stored(p, n, i) /\ at = <<n, i>>
    <3>1. ASSUME NEW n \in Names, NEW i \in DOMAIN Written(n) PROVE i \in Nat
      BY WrittenType DEF RotationInv
    <3>. QED
      BY <3>1 DEF Stored
  <2>. HIDE DEF Storing
  <2>4. CASE \E c \in Clients : client[c].packet = p
    <3>1. PICK c \in Clients : client[c].packet = p
      BY <2>4
    <3>2. Having(p) = {c}
      BY <2>1, <2>2, <3>1 DEF PacketsInv
    <3>3. Storing(p) = {}
      BY <2>1, <2>2, <2>3, <3>1 DEF PacketsInv
    <3>. QED
      BY <3>2, <3>3, FS_Singleton, FS_EmptySet
  <2>5. CASE \E n \in Names, i \in Nat : Stored(p, n, i)
    <3>1. PICK n \in Names, i \in Nat : Stored(p, n, i)
      BY <2>5
    <3>2. Having(p) = {}
      BY <2>1, <2>2, <3>1 DEF PacketsInv
    <3>3. Storing(p) = {<<n, i>>}
      BY <2>1, <2>2, <2>3, <3>1 DEF PacketsInv
    <3>4. Cardinality(Having(p)) = 0
      BY <3>2, FS_EmptySet
    <3>5. Cardinality(Storing(p)) = 1
      BY <3>3, FS_Singleton
    <3>. QED
      BY <3>4, <3>5
  <2>. QED
    BY <2>1, <2>4, <2>5 DEF PacketsInv
<1>. QED
  BY <1>1, RotationInvariant, FilesInvariant, PTL

=============================================================================
