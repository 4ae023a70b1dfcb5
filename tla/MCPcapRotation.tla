--------------------------- MODULE MCPcapRotation ---------------------------
(* Instances of PcapRotation for TLC. *)
EXTENDS PcapRotation

CONSTANTS c1, c2

=============================================================================
