----------------------------- MODULE NodeRollout -----------------------------
(***************************************************************************)
(* What the controller promises about nodes while upgrades are rolled out, *)
(* whatever queues, goroutines and failures it is made of: a worker claims *)
(* a node on behalf of an upgrade that manages the node, nobody else works *)
(* on it for that upgrade, and a node's Spec.Unschedulable changes only in *)
(* the hands of a worker that has claimed it.                              *)
(***************************************************************************)
CONSTANTS
    Workers,   \* whoever can upgrade a node
    Upgrades,  \* names of the KubeletUpgrade objects
    Nodes,     \* names of the nodes
    Managed    \* Managed[u]: the nodes that upgrade u may touch

VARIABLES
    claims,    \* triples <<worker, upgrade, node>>
    unsched    \* Spec.Unschedulable of every node

Init == claims = {} /\ unsched = [n \in Nodes |-> FALSE]

Claim(w, u, n) ==
    /\ n \in Managed[u]
    /\ \A c \in claims : c[1] # w /\ <<c[2], c[3]>> # <<u, n>>
    /\ claims' = claims \cup {<<w, u, n>>}
    /\ UNCHANGED unsched

\* The claimant cordons or uncordons the node.
SetUnschedulable(n, desired) ==
    /\ \E c \in claims : c[3] = n
    /\ unsched' = [unsched EXCEPT ![n] = desired]
    /\ UNCHANGED claims

Release(c) ==
    /\ claims' = claims \ {c}
    /\ UNCHANGED unsched

\* The process ends: every claim is gone, the nodes stay as they are.
Crash == claims' = {} /\ UNCHANGED unsched

\* (The first conjuncts spare TLC the search for a claim when none changes.)
Next ==
    \/ /\ claims' = claims
       /\ \E n \in Nodes, desired \in BOOLEAN : SetUnschedulable(n, desired)
    \/ /\ claims' # claims
       /\ \/ \E w \in Workers, u \in Upgrades, n \in Nodes : Claim(w, u, n)
          \/ \E c \in claims : Release(c)
          \/ Crash

Spec == Init /\ [][Next]_<<claims, unsched>>

=============================================================================
