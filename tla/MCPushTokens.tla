---------------------------- MODULE MCPushTokens ----------------------------
(* Instances of PushTokens for TLC. *)
EXTENDS PushTokens

CONSTANTS p1, u1, u2, NoOne

=============================================================================
