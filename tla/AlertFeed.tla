----------------------------- MODULE AlertFeed -----------------------------
(***************************************************************************)
(* What the path of an alert from the database to the apps promises:       *)
(* alerts are handed over in the order they were saved, each at most once  *)
(* (handing one over is a step of its own, so a second time would be       *)
(* seen), and whoever receives alerts receives only what was handed over   *)
(* and in that order.  Alerts may be skipped on the way.                   *)
(***************************************************************************)
EXTENDS Naturals, Sequences

CONSTANT Receivers

VARIABLES
  saved, \* number of alerts saved: their ids are 1..saved
  put,   \* every hand-over so far, in order
  got    \* what each receiver got

vars == <<saved, put, got>>

Init == saved = 0 /\ put = <<>> /\ got = [r \in Receivers |-> <<>>]

Save == saved' = saved + 1 /\ UNCHANGED <<put, got>>

Put(i) ==
  /\ i \in 1..saved /\ \A k \in DOMAIN put : put[k] < i
  /\ put' = Append(put, i)
  /\ UNCHANGED <<saved, got>>

Receive(r, i) ==
  /\ \E k \in DOMAIN put : put[k] = i
  /\ \A k \in DOMAIN got[r] : got[r][k] <= i
  /\ got' = [got EXCEPT ![r] = Append(got[r], i)]
  /\ UNCHANGED <<saved, put>>

Next ==
  \/ Save
  \/ \E i \in 1..saved : Put(i)
  \/ \E r \in Receivers : \E i \in 1..saved : Receive(r, i)

Spec == Init /\ [][Next]_vars

=============================================================================
