----------------------------- MODULE MCAuthFlow -----------------------------
(* Instances of AuthFlow for TLC. *)
EXTENDS AuthFlow, TLC

CONSTANTS ana, ben, eva

Names == Permutations(Users)

=============================================================================
