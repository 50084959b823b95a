---------------------------- MODULE LaggingCache ----------------------------
(***************************************************************************)
(* What a program may expect of a shared informer's cache: it shows some   *)
(* past version of the stored object, never an older one than before, and  *)
(* what it shows is what the API server sent, whatever the goroutines that *)
(* were handed the cached objects have done with them.                     *)
(***************************************************************************)
EXTENDS Naturals

VARIABLES
    version,  \* of the stored object
    seen,     \* the version the cache shows
    altered   \* something in a cached object is not what the server sent

Init == version = 0 /\ seen = 0 /\ altered = FALSE

Write ==
    /\ version' = version + 1
    /\ UNCHANGED <<seen, altered>>

CatchUp ==
    /\ seen' \in seen .. version
    /\ UNCHANGED <<version, altered>>

Next == Write \/ CatchUp

Spec == Init /\ [][Next]_<<version, seen, altered>>

=============================================================================
