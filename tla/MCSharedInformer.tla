-------------------------- MODULE MCSharedInformer --------------------------
(* Instances of SharedInformer for TLC. *)
EXTENDS SharedInformer

CONSTANTS ticker, handler

=============================================================================
