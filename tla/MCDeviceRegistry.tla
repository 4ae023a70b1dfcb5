-------------------------- MODULE MCDeviceRegistry --------------------------
(* Instances of DeviceRegistry for TLC. *)
EXTENDS DeviceRegistry, TLC

CONSTANTS a1, a2, m1, m2, ip1

\* One machine whose host name changed: two uids with the same MAC.
SharedMacOf == (a1 :> m1) @@ (a2 :> m1)
\* One agent; the other machine, if any, has none.
SingleMacOf == a1 :> m1

=============================================================================
