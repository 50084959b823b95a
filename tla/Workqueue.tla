------------------------------ MODULE Workqueue ------------------------------
(***************************************************************************)
(* The work queue of client-go (util/workqueue/queue.go) that the kubelet  *)
(* upgrade controller keeps per KubeletUpgrade object, as operators on the *)
(* fields of the Go type.  Every method takes the queue's lock for its     *)
(* whole duration, so each is one atomic operator.  Metrics, the condition *)
(* variable and the drain flag (only ShutDown is called) are left out; a   *)
(* blocked Get is an action that is not enabled.                           *)
(***************************************************************************)
EXTENDS Naturals, Sequences, FiniteSets

EmptyQueue ==
    [queue |-> <<>>, dirty |-> {}, processing |-> {}, shuttingDown |-> FALSE]

QueueType(Items) ==
    [queue : Seq(Items), dirty : SUBSET Items, processing : SUBSET Items,
     shuttingDown : BOOLEAN]

\* Mutant of Add: an item that is being processed is queued at once.
AddWhileProcessing(q, item) ==
    IF q.shuttingDown \/ item \in q.dirty
    THEN q
    ELSE [q EXCEPT !.dirty = @ \cup {item}, !.queue = Append(@, item)]

Add(q, item) ==
    IF q.shuttingDown \/ item \in q.dirty
    THEN q
    ELSE [q EXCEPT !.dirty = @ \cup {item},
                   !.queue = IF item \in q.processing THEN @ ELSE Append(@, item)]

QLen(q) == Len(q.queue)

\* Get has an item to return.
CanGet(q) == q.queue # <<>>

\* Get returns shutdown = true.
GetShutdown(q) == q.queue = <<>> /\ q.shuttingDown

Get(q) ==
    [q EXCEPT !.queue = Tail(@),
              !.processing = @ \cup {Head(q.queue)},
              !.dirty = @ \ {Head(q.queue)}]

Done(q, item) ==
    [q EXCEPT !.processing = @ \ {item},
              !.queue = IF item \in q.dirty THEN Append(@, item) ELSE @]

ShutDown(q) == [q EXCEPT !.shuttingDown = TRUE]

(***************************************************************************)
(* The contract stated at the field queue of the Go type: every element of *)
(* queue is dirty and not being processed.  The converse (a dirty item     *)
(* nobody processes is queued, so none is forgotten) and the absence of    *)
(* duplicates are what makes the contract useful.                          *)
(***************************************************************************)
Consistent(q) ==
    /\ \A i \in 1..Len(q.queue) : q.queue[i] \in q.dirty /\ q.queue[i] \notin q.processing
    /\ \A x \in q.dirty : x \in q.processing \/ \E i \in 1..Len(q.queue) : q.queue[i] = x
    /\ \A i, j \in 1..Len(q.queue) : q.queue[i] = q.queue[j] => i = j

=============================================================================
