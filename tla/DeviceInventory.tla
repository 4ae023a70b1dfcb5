-------------------------- MODULE DeviceInventory --------------------------
(***************************************************************************)
(* What the device registry promises whatever its threads do: an inventory *)
(* that only grows.  A row keeps its MAC, a device that got an agent keeps *)
(* it, an agent keeps its device, and discovery never adds a second row    *)
(* without agent for a MAC.  Addresses, status and time are not part of    *)
(* it.  DeviceRegistry implements this specification.                      *)
(***************************************************************************)
EXTENDS Naturals

CONSTANTS Agents, Macs, MacOf, MaxDevices

VARIABLES
  inventory, \* id |-> [mac, managed]
  binding    \* agent uid |-> id

DeviceIds == 1..MaxDevices

\* Rows get fresh keys and are never removed.
Added(d, m, managed) ==
  /\ d \in DeviceIds \ DOMAIN inventory
  /\ inventory' = [e \in DOMAIN inventory \cup {d} |->
       IF e = d THEN [mac |-> m, managed |-> managed] ELSE inventory[e]]

Bound(a, d) ==
  /\ a \notin DOMAIN binding
  /\ binding' = [b \in DOMAIN binding \cup {a} |-> IF b = a THEN d ELSE binding[b]]

Init == inventory = [d \in {} |-> {}] /\ binding = [a \in {} |-> 0]

Discover(d, m) ==
  /\ \A e \in DOMAIN inventory : inventory[e].mac = m => inventory[e].managed
  /\ Added(d, m, FALSE)
  /\ UNCHANGED binding

EnrolNew(a, d) == Added(d, MacOf[a], TRUE) /\ Bound(a, d)

EnrolKnown(a, d) ==
  /\ d \in DOMAIN inventory /\ inventory[d].mac = MacOf[a]
  /\ inventory' = [inventory EXCEPT ![d].managed = TRUE]
  /\ Bound(a, d)

Next ==
  \E d \in DeviceIds :
    \/ \E m \in Macs : Discover(d, m)
    \/ \E a \in Agents : EnrolNew(a, d) \/ EnrolKnown(a, d)

Spec == Init /\ [][Next]_<<inventory, binding>>

=============================================================================
