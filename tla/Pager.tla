-------------------------------- MODULE Pager --------------------------------
(***************************************************************************)
(* What the clients of a paged list may expect: page after page a client   *)
(* gets more of what is stored, from the start, in order and without a gap *)
(* or a repetition; each page says how much is left; and the client takes  *)
(* what it has for the whole when, and only when, nothing is left.  Lists  *)
(* of several clients do not disturb each other.                           *)
(***************************************************************************)
EXTENDS Naturals, Sequences

CONSTANTS
    Clients,
    Stored     \* what is stored, as a sequence

VARIABLES
    got,       \* what each client has received since it began
    remaining, \* what is left, as its last page said
    store,     \* what it takes for the whole
    synced     \* it has seen the whole at least once

vars == <<got, remaining, store, synced>>

Init ==
    /\ got = [c \in Clients |-> <<>>] /\ remaining = [c \in Clients |-> 0]
    /\ store = [c \in Clients |-> {}] /\ synced = [c \in Clients |-> FALSE]

\* The first n elements of what is stored.
Prefix(n) == [i \in 1 .. n |-> Stored[i]]

\* The next page, which is not the last, and brings c to the first n elements.
NextPage(c, n) ==
    /\ Len(got[c]) < n /\ n < Len(Stored)
    /\ got' = [got EXCEPT ![c] = Prefix(n)]
    /\ remaining' = [remaining EXCEPT ![c] = Len(Stored) - n]
    /\ UNCHANGED <<store, synced>>

LastPage(c) ==
    /\ Len(got[c]) < Len(Stored)
    /\ got' = [got EXCEPT ![c] = Stored]
    /\ remaining' = [remaining EXCEPT ![c] = 0]
    /\ store' = [store EXCEPT ![c] = {Stored[i] : i \in 1 .. Len(Stored)}]
    /\ synced' = [synced EXCEPT ![c] = TRUE]

\* A page is lost, or the list is repeated: c keeps what it took for the whole.
Restart(c) ==
    /\ got' = [got EXCEPT ![c] = <<>>]
    /\ UNCHANGED <<remaining, store, synced>>

Next ==
    \E c \in Clients :
        \/ \E n \in 1 .. Len(Stored) : NextPage(c, n)
        \/ LastPage(c) \/ Restart(c)

Spec == Init /\ [][Next]_vars

=============================================================================
