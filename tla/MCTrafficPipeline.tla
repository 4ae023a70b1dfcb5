------------------------- MODULE MCTrafficPipeline -------------------------
(* Instances of TrafficPipeline for TLC. *)
EXTENDS TrafficPipeline

CONSTANTS h1

=============================================================================
