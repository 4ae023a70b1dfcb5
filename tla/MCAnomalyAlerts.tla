--------------------------- MODULE MCAnomalyAlerts ---------------------------
(* Instances of AnomalyAlerts for TLC. *)
EXTENDS AnomalyAlerts, TLC

CONSTANTS d1, cpu, ram

\* Two metrics of a device, for two alerts of one visit, and one of the network.
FewMetrics == (d1 :> {cpu, ram}) @@ (Net :> {ram})

=============================================================================
