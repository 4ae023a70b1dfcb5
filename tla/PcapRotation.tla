---------------------------- MODULE PcapRotation ----------------------------
(***************************************************************************)
(* Capture files of GOATGuard: one thread per connected agent             *)
(* (tcp_receiver.py) writes its packets, under a lock, to a PCAP file that *)
(* is closed after the rotation interval and handed to the analysis        *)
(* (pcap_assembler.py), while the main thread may shut the server down.    *)
(*                                                                         *)
(* A file is named after the second it is opened in.  A record is written  *)
(* in two parts, the packet header and the data.                           *)
(***************************************************************************)
EXTENDS Naturals, Sequences, FiniteSets

CONSTANTS
  Clients,    \* connections of agents
  MaxPackets, \* bound on the packets sent
  MaxSecond,  \* bound on the clock
  MaxFaults,  \* bound on I/O errors
  None        \* no client, no packet, no file

ASSUME NoneAssumption == None \notin Clients \cup Nat
ASSUME BoundsAssumption == MaxPackets \in Nat /\ MaxSecond \in Nat \ {0} /\ MaxFaults \in Nat

VARIABLES
  server,  \* "run", "stopping" (TcpReceiver._running is false), "closed", "exited"
  client,  \* the thread of each connection
  lock,    \* who holds PcapAssembler._lock
  second,  \* the wall clock
  file,    \* _current_file: "none", "open" or "closed"
  path,    \* _current_path: the second in the name
  due,     \* the rotation interval has elapsed since _file_start_time
  disk,    \* records of the files, in the order written
  handed,  \* what on_rotation was called with, in order
  taken,   \* packets received so far; packets are numbered
  faults

vars == <<server, client, lock, second, file, path, due, disk, handed, taken, faults>>

Names == 1..MaxSecond
Packets == 1..MaxPackets
Parts == Packets \X {"header", "data"}
ASSUME NoFileAssumption == None \notin Seq(Parts)
Holding == {"open", "close", "reopen", "hand", "header", "data"}

\* completed: what _rotate will hand over.
Thread == [pc : {"off", "read", "lock"} \cup Holding,
           packet : Packets \cup {None}, completed : Names \cup {None}]
Off == [pc |-> "off", packet |-> None, completed |-> None]

TypeOK ==
  /\ server \in {"run", "stopping", "closed", "exited"}
  /\ client \in [Clients -> Thread]
  /\ lock \in Clients \cup {None}
  /\ second \in Names
  /\ file \in {"none", "open", "closed"}
  /\ path \in Names \cup {None}
  /\ due \in BOOLEAN
  /\ disk \in [Names -> Seq(Parts) \cup {None}]
  /\ handed \in Seq(Names)
  /\ taken \in 0..MaxPackets
  /\ faults \in 0..MaxFaults

Init ==
  /\ server = "run" /\ client = [c \in Clients |-> Off] /\ lock = None
  /\ second = 1 /\ file = "none" /\ path = None /\ due = FALSE
  /\ disk = [n \in Names |-> None] /\ handed = <<>> /\ taken = 0 /\ faults = 0

-----------------------------------------------------------------------------
At(c, pc) == client[c].pc = pc
Goto(c, pc) == client' = [client EXCEPT ![c] = [client[c] EXCEPT !.pc = pc]]

\* An exception leaves the with-block, and the thread ends: the packet is lost.
Raise(c) == lock' = None /\ client' = [client EXCEPT ![c] = Off]
Fault == faults < MaxFaults /\ faults' = faults + 1

\* _accept_loop starts a thread.
Connect(c) ==
  /\ server = "run" /\ At(c, "off") /\ Goto(c, "read")
  /\ UNCHANGED <<server, lock, second, file, path, due, disk, handed, taken, faults>>

\* A whole packet has been read; a thread that waits in recv when the server
\* stops still delivers it.
Receive(c) ==
  /\ At(c, "read") /\ taken < MaxPackets
  /\ taken' = taken + 1
  /\ client' = [client EXCEPT ![c] = [pc |-> "lock", packet |-> taken + 1, completed |-> None]]
  /\ UNCHANGED <<server, lock, second, file, path, due, disk, handed, faults>>

\* The agent closes the connection, perhaps in the middle of a packet.
Disconnect(c) ==
  /\ At(c, "read") /\ Goto(c, "off")
  /\ UNCHANGED <<server, lock, second, file, path, due, disk, handed, taken, faults>>

\* Mutation: no lock.
EnterUnlocked(c) ==
  /\ At(c, "lock")
  /\ lock' = c
  /\ IF file = "none" THEN Goto(c, "open")
     ELSE IF due THEN client' = [client EXCEPT ![c] =
       [pc |-> "close", packet |-> client[c].packet, completed |-> path]]
     ELSE Goto(c, "header")
  /\ UNCHANGED <<server, second, file, path, due, disk, handed, taken, faults>>

\* write_packet takes the lock and decides; _rotate remembers the old path.
Enter(c) ==
  /\ At(c, "lock") /\ lock = None
  /\ lock' = c
  /\ IF file = "none" THEN Goto(c, "open")
     ELSE IF due THEN client' = [client EXCEPT ![c] =
       [pc |-> "close", packet |-> client[c].packet, completed |-> path]]
     ELSE Goto(c, "header")
  /\ UNCHANGED <<server, second, file, path, due, disk, handed, taken, faults>>

CloseOld(c) ==
  /\ At(c, "close") /\ file' = "closed" /\ Goto(c, "reopen")
  /\ UNCHANGED <<server, lock, second, path, due, disk, handed, taken, faults>>

\* Closing writes out the buffer: what is in it may be lost.
LoseTail ==
  \E n \in 0..Len(disk[path]) : disk' = [disk EXCEPT ![path] = SubSeq(@, 1, n)]

CloseFails(c) ==
  /\ At(c, "close") /\ file = "open" /\ Fault
  /\ file' = "closed" /\ LoseTail /\ Raise(c)
  /\ UNCHANGED <<server, second, path, due, handed, taken>>

\* Mutation: the interval is not restarted.
OpenNewStale(c) ==
  /\ client[c].pc \in {"open", "reopen"}
  /\ path' = second /\ file' = "open"
  /\ disk' = [disk EXCEPT ![second] = <<>>]
  /\ Goto(c, IF At(c, "open") THEN "header" ELSE "hand")
  /\ UNCHANGED <<server, lock, second, due, handed, taken, faults>>

\* _open_new_file: an existing file of this name is truncated.
OpenNew(c) ==
  /\ client[c].pc \in {"open", "reopen"}
  /\ path' = second /\ file' = "open" /\ due' = FALSE
  /\ disk' = [disk EXCEPT ![second] = <<>>]
  /\ Goto(c, IF At(c, "open") THEN "header" ELSE "hand")
  /\ UNCHANGED <<server, lock, second, handed, taken, faults>>

\* _current_path is assigned before open() raises.
OpenFails(c) ==
  /\ client[c].pc \in {"open", "reopen"} /\ Fault
  /\ path' = second /\ Raise(c)
  /\ UNCHANGED <<server, second, file, due, disk, handed, taken>>

\* Mutation: the path of the new file is handed over.
HandNew(c) ==
  /\ At(c, "hand")
  /\ handed' = Append(handed, path)
  /\ Goto(c, "header")
  /\ UNCHANGED <<server, lock, second, file, path, due, disk, taken, faults>>

Hand(c) ==
  /\ At(c, "hand")
  /\ handed' = Append(handed, client[c].completed)
  /\ Goto(c, "header")
  /\ UNCHANGED <<server, lock, second, file, path, due, disk, taken, faults>>

\* No thread can be started for the analysis: the file is never handed over.
HandFails(c) ==
  /\ At(c, "hand") /\ Fault /\ Raise(c)
  /\ UNCHANGED <<server, second, file, path, due, disk, handed, taken>>

WriteHeader(c) ==
  /\ At(c, "header") /\ file = "open"
  /\ disk' = [disk EXCEPT ![path] = Append(@, <<client[c].packet, "header">>)]
  /\ Goto(c, "data")
  /\ UNCHANGED <<server, lock, second, file, path, due, handed, taken, faults>>

\* The end of write_packet, and of the loop in _handle_client.
WriteData(c) ==
  /\ At(c, "data") /\ file = "open"
  /\ disk' = [disk EXCEPT ![path] = Append(@, <<client[c].packet, "data">>)]
  /\ lock' = None
  /\ client' = [client EXCEPT ![c] = [Off EXCEPT !.pc = IF server = "run" THEN "read" ELSE "off"]]
  /\ UNCHANGED <<server, second, file, path, due, handed, taken, faults>>

\* Mutation: the lock is not released on an error.
WriteFailsLocked(c) ==
  /\ client[c].pc \in {"header", "data"} /\ file = "open" /\ Fault
  /\ client' = [client EXCEPT ![c] = Off]
  /\ UNCHANGED <<server, lock, second, file, path, due, disk, handed, taken>>

\* Either part cannot be written.
WriteFails(c) ==
  /\ client[c].pc \in {"header", "data"} /\ file = "open" /\ Fault
  /\ Raise(c)
  /\ UNCHANGED <<server, second, file, path, due, disk, handed, taken>>

\* After close() the handle is still there: ValueError.
WriteClosed(c) ==
  /\ At(c, "header") /\ file = "closed" /\ Raise(c)
  /\ UNCHANGED <<server, second, file, path, due, disk, handed, taken, faults>>

-----------------------------------------------------------------------------
\* The interval is at least five seconds (config/loader.py).
Elapse ==
  /\ server # "exited" /\ file # "none" /\ ~due /\ second > path
  /\ due' = TRUE
  /\ UNCHANGED <<server, client, lock, second, file, path, disk, handed, taken, faults>>

Tick ==
  /\ second < MaxSecond /\ second' = second + 1
  /\ UNCHANGED <<server, client, lock, file, path, due, disk, handed, taken, faults>>

\* The end of run.py: TcpReceiver.stop, then PcapAssembler.close under the lock,
\* then the process ends and takes the client threads with it.
Stop ==
  /\ server = "run" /\ server' = "stopping"
  /\ UNCHANGED <<client, lock, second, file, path, due, disk, handed, taken, faults>>

CloseAll ==
  /\ server = "stopping" /\ lock = None /\ server' = "closed"
  /\ file' = IF file = "none" THEN "none" ELSE "closed"
  /\ \/ UNCHANGED <<disk, faults>>
     \/ file = "open" /\ LoseTail /\ Fault
  /\ UNCHANGED <<client, lock, second, path, due, handed, taken>>

Exit ==
  /\ server = "closed" /\ server' = "exited"
  /\ client' = [c \in Clients |-> Off] /\ lock' = None
  /\ UNCHANGED <<second, file, path, due, disk, handed, taken, faults>>

Holder(c) ==
  \/ CloseOld(c) \/ CloseFails(c) \/ OpenNew(c) \/ OpenFails(c) \/ Hand(c) \/ HandFails(c)
  \/ WriteHeader(c) \/ WriteData(c) \/ WriteFails(c) \/ WriteClosed(c)

Next ==
  \/ \E c \in Clients :
       Connect(c) \/ Receive(c) \/ Disconnect(c) \/ Enter(c) \/ Holder(c)
  \/ Elapse \/ Tick \/ Stop \/ CloseAll \/ Exit

Spec == Init /\ [][Next]_vars
\* A thread that holds the lock runs.
FairSpec == Spec /\ \A c \in Clients : WF_vars(Holder(c))

-----------------------------------------------------------------------------
(***************************************************************************)
(* Properties.                                                             *)
(***************************************************************************)
Written(n) == IF disk[n] = None THEN <<>> ELSE disk[n]

\* The lock is held by the thread that is inside write_packet, and by no other.
LockInv == \A c \in Clients : lock = c <=> client[c].pc \in Holding

\* write_packet is thread-safe: the parts of a record are next to each other,
\* whatever the other threads write; the last record may be in the making.
RecordsWhole ==
  faults = 0 /\ server # "exited" =>
    \A n \in Names : \A i \in DOMAIN Written(n) :
      IF i % 2 = 0 THEN Written(n)[i] = <<Written(n)[i - 1][1], "data">>
      ELSE /\ Written(n)[i][2] = "header"
           /\ i = Len(Written(n)) =>
                n = path /\ \E c \in Clients : lock = c /\ At(c, "data")

\* Every packet received is in the hands of one thread or in one place of one file.
NoPacketLost ==
  faults = 0 /\ server \in {"run", "stopping"} =>
    \A p \in 1..taken :
      Cardinality({c \in Clients : client[c].packet = p})
        + Cardinality({at \in UNION {{n} \X DOMAIN Written(n) : n \in Names} :
                         Written(at[1])[at[2]] = <<p, "data">>}) = 1

\* Files are handed over in the order they were opened, each once; one that
\* could not be opened may come twice.
HandedInOrder ==
  \A i, j \in DOMAIN handed :
    i < j => handed[i] <= handed[j] /\ (faults = 0 => handed[i] < handed[j])

\* The hand-over, inductively: the thread that rotates remembers a file that comes
\* after those handed over and, unless one could not be opened, before the file
\* that is open now.
Rotating == {"close", "reopen", "hand"}

FileInv ==
  /\ file = "none" => handed = <<>>
  /\ file # "none" => path \in Names
  /\ file = "open" => disk[path] \in Seq(Parts)
  /\ path # None => path <= second
  /\ due /\ faults = 0 => file # "none" /\ path < second
  /\ \A i \in DOMAIN handed : handed[i] <= path /\ (faults = 0 => handed[i] < path)

ThreadInv(c) ==
  /\ client[c].pc \notin {"off", "read"} => client[c].packet \in Packets
  /\ At(c, "open") => file = "none"
  /\ At(c, "reopen") => file = "closed"
  /\ client[c].pc \in {"hand", "data"} => file = "open"
  /\ client[c].pc \in {"close", "header"} => file # "none"
  /\ client[c].pc \in Rotating =>
       /\ client[c].completed \in Names /\ client[c].completed <= path
       /\ \A i \in DOMAIN handed : handed[i] <= client[c].completed
       /\ faults = 0 =>
            /\ \A i \in DOMAIN handed : handed[i] < client[c].completed
            /\ IF At(c, "hand") THEN client[c].completed < path
               ELSE client[c].completed = path /\ path < second

HandOverInv == HandedInOrder /\ FileInv /\ \A c \in Clients : ThreadInv(c)

\* No file is forgotten: it is being written, being handed over, or was handed over.
EveryFileHanded ==
  faults = 0 =>
    \A n \in Names : disk[n] # None =>
      n = path \/ server = "exited" \/ (\E i \in DOMAIN handed : handed[i] = n)
        \/ \E c \in Clients : client[c].completed = n

\* "Completed files": nothing is written to a file the analysis has, unless one
\* could not be opened.
HandedIsFinal ==
  [][faults' = 0 => \A i \in DOMAIN handed : disk'[handed[i]] = disk[handed[i]]]_vars

\* Whatever raises inside write_packet, the lock is released.
LockIsReleased == \A c \in Clients : lock = c ~> lock # c

=============================================================================
