---------------------------- MODULE MCUpgradeRun ----------------------------
(* Instances of UpgradeRun for TLC. *)
EXTENDS UpgradeRun, TLC

CONSTANTS ticker, handler, u1, u2, n1, n2, master

SelectAll == [u \in Upgrades |-> Nodes]
OneEach   == [u \in Upgrades |-> 1]

\* Two upgrades that both select n2; u1 has an unbuffered error channel.
SelectOverlap == [u \in Upgrades |-> IF u = u1 THEN {n1, n2} ELSE {n2, master}]
Unbuffered    == [u \in Upgrades |-> IF u = u1 THEN 0 ELSE 1]

\* Nodes are interchangeable when every upgrade selects all of them.
PairSymmetry == Permutations({n1, n2})

=============================================================================
