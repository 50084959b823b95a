-------------------------- MODULE MCSnapdiffServer --------------------------
(* Instances of SnapdiffServer for TLC. *)
EXTENDS SnapdiffServer

CONSTANTS u1, u2, reflector

=============================================================================
