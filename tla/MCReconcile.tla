----------------------------- MODULE MCReconcile -----------------------------
(* Instances of Reconcile for TLC. *)
EXTENDS Reconcile

CONSTANTS ticker, handler, u1, u2, every2, bad

\* A schedule that activates at every even minute.
Cron2 == [s \in Schedules |-> [t \in Times |-> (t \div 2 + 1) * 2]]

=============================================================================
