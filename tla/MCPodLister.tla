----------------------------- MODULE MCPodLister -----------------------------
(* Instances of PodLister for TLC. *)
EXTENDS PodLister

CONSTANTS g1, g2, g3

=============================================================================
