-------------------------- MODULE UpgradeRunProofs --------------------------
(***************************************************************************)
(* Proofs about UpgradeRun, for any number of pollers, upgrades and nodes, *)
(* any selectors and faults: the type invariant, the work queues' contract *)
(* with their workers, the exclusion of two workers from one node, and the *)
(* exclusion of the control plane.                                         *)
(***************************************************************************)
EXTENDS UpgradeRun, WorkqueueProofs, FiniteSetTheorems

Working(w) == wpc[w] \notin {"none", "exit"}

\* The state of p's run fits the place where p is: workers are at work only while
\* p starts them or waits for them, and the slots from spawned on are free.
RunShape(p) ==
    /\ pc[p] # "idle" => cur[p] \in Upgrades
    /\ pc[p] = "enqueue" => todo[p] \subseteq Matching(cur[p])
    /\ pc[p] \notin {"spawn", "wait", "complete"} => spawned[p] = 0
    /\ \A w \in Workers : w[1] = p /\ Working(w) => pc[p] \in {"spawn", "wait"}
    /\ \A w \in Workers : w[1] = p /\ w[2] >= spawned[p] => wpc[w] = "none"

\* Only nodes that the upgrade may touch get into its queue and to its workers.
QueueKeys == \A u \in Upgrades : workqueues[u] \in QueueType(Matching(u))
HeldKeys  == \A w \in Workers : Holds(w) => wkey[w] \in Matching(cur[w[1]])

\* The inductive invariant.
IInv ==
    /\ TypeOK
    /\ \A p \in Pollers : RunShape(p)
    /\ QueueKeys /\ HeldKeys
    /\ QueueContract /\ NodeExclusive
    /\ ControlPlaneUntouched

\* What depends on who holds which key.
KeysInv == QueueKeys /\ HeldKeys /\ QueueContract /\ NodeExclusive

-----------------------------------------------------------------------------
(* Lemmas about the parts of the invariant *)

LEMMA HeadAndTail ==
    ASSUME NEW S, NEW s \in Seq(S), s # <<>>
    PROVE  Head(s) \in S /\ Tail(s) \in Seq(S)
OBVIOUS

LEMMA WorkerOf ==
    ASSUME NEW w \in Workers
    PROVE  w[1] \in Pollers /\ w[2] \in Slots /\ w = <<w[1], w[2]>>
BY DEF Workers

\* A worker at work belongs to a run in progress.
LEMMA AtWork ==
    ASSUME IInv, NEW w \in Workers, Working(w)
    PROVE  /\ w[1] \in Pollers /\ pc[w[1]] \in {"spawn", "wait"} /\ cur[w[1]] \in Upgrades
           /\ cur[w[1]] # None /\ ~(w[2] >= spawned[w[1]])
<1>1. w[1] \in Pollers
  BY WorkerOf
<1>2. RunShape(w[1])
  BY <1>1 DEF IInv
<1> QED BY <1>1, <1>2, NoneAssumption DEF RunShape, Working

\* Nothing changes for the holders of keys, and the processing sets stay.
LEMMA SameHolders ==
    ASSUME IInv,
           \A w \in Workers : Holds(w)' <=> Holds(w),
           \A w \in Workers : Holds(w) => wkey'[w] = wkey[w] /\ cur'[w[1]] = cur[w[1]],
           \A u \in Upgrades : /\ workqueues'[u] \in QueueType(Matching(u))
                               /\ Consistent(workqueues'[u])
                               /\ workqueues'[u].processing = workqueues[u].processing
    PROVE  KeysInv'
<1>1. QueueKeys' /\ HeldKeys'
  BY DEF IInv, QueueKeys, HeldKeys, Matching
<1>2. NodeExclusive'
  BY DEF IInv, NodeExclusive
<1>3. ASSUME NEW u \in Upgrades
      PROVE  {wkey[w] : w \in {v \in Workers : Holds(v) /\ cur[v[1]] = u}}'
                 = {wkey[w] : w \in {v \in Workers : Holds(v) /\ cur[v[1]] = u}}
  OBVIOUS
<1>4. QueueContract'
  BY <1>3 DEF IInv, QueueContract
<1> QED BY <1>1, <1>2, <1>4 DEF KeysInv

\* The queues are left alone, and so are the holders of keys.
LEMMA QueuesAlone ==
    ASSUME IInv, workqueues' = workqueues,
           \A w \in Workers : Holds(w)' <=> Holds(w),
           \A w \in Workers : Holds(w) => wkey'[w] = wkey[w] /\ cur'[w[1]] = cur[w[1]]
    PROVE  KeysInv'
<1>1. \A u \in Upgrades : workqueues[u] \in QueueType(Matching(u)) /\ Consistent(workqueues[u])
  BY DEF IInv, QueueKeys, QueueContract
<1> QED BY <1>1, SameHolders

\* A worker at work moves on: the runs keep their shape.
LEMMA WorkerMoves ==
    ASSUME IInv, NEW w \in Workers, Working(w), NEW next,
           wpc' = [wpc EXCEPT ![w] = next], UNCHANGED runVars
    PROVE  \A p \in Pollers : RunShape(p)'
<1>1. \A v \in Workers : v # w => wpc'[v] = wpc[v]
  BY DEF IInv, TypeOK
<1>2. UNCHANGED <<pc, cur, todo, spawned>>
  BY DEF runVars
<1>3. pc[w[1]] \in {"spawn", "wait"} /\ ~(w[2] >= spawned[w[1]])
  BY AtWork
<1> SUFFICES ASSUME NEW p \in Pollers PROVE RunShape(p)'
  OBVIOUS
<1>4. RunShape(p)
  BY DEF IInv
<1>5. \A v \in Workers : v[1] = p /\ Working(v)' => pc'[p] \in {"spawn", "wait"}
  BY <1>1, <1>2, <1>3, <1>4 DEF RunShape, Working
<1>6. \A v \in Workers : v[1] = p /\ v[2] >= spawned'[p] => wpc'[v] = "none"
  BY <1>1, <1>2, <1>3, <1>4 DEF RunShape
<1> QED BY <1>2, <1>4, <1>5, <1>6 DEF RunShape, Matching

\* A poller moves on while none of its workers is at work, or from "spawn" to
\* "wait".
LEMMA PollerMoves ==
    ASSUME IInv, NEW p \in Pollers,
           \A q \in Pollers \ {p} : pc'[q] = pc[q] /\ cur'[q] = cur[q] /\ todo'[q] = todo[q]
                                    /\ spawned'[q] = spawned[q],
           \A w \in Workers : w[1] # p => wpc'[w] = wpc[w],
           RunShape(p)'
    PROVE  \A q \in Pollers : RunShape(q)'
<1> SUFFICES ASSUME NEW q \in Pollers, q # p PROVE RunShape(q)'
  OBVIOUS
<1>1. RunShape(q)
  BY DEF IInv
<1>2. pc'[q] = pc[q] /\ cur'[q] = cur[q] /\ todo'[q] = todo[q] /\ spawned'[q] = spawned[q]
  OBVIOUS
<1> QED BY <1>1, <1>2 DEF RunShape, Working, Matching

-----------------------------------------------------------------------------
(* poll and enqueueMatchingNodes *)

LEMMA StartPollInv ==
    ASSUME IInv, NEW p \in Pollers, StartPoll(p)
    PROVE  IInv'
<1>1. PICK u \in Upgrades, listed \in SUBSET Nodes, behind \in BOOLEAN :
          /\ listed \subseteq Matching(u)
          /\ cur' = [cur EXCEPT ![p] = u]
          /\ todo' = [todo EXCEPT ![p] = listed]
          /\ stale' = [stale EXCEPT ![p] = behind]
          /\ notice' = notice \/ notice' = [notice EXCEPT ![u] = "none"]
  BY DEF StartPoll
<1>2. /\ pc[p] = "idle" /\ pc' = [pc EXCEPT ![p] = "enqueue"]
      /\ UNCHANGED <<queueVars, spawned, nilClone, errVars, workerVars, drainerCtx,
                     clusterVars, procVars>>
  BY DEF StartPoll
<1>3. TypeOK'
  BY <1>1, <1>2 DEF IInv, TypeOK, PollerPCs, queueVars, errVars, workerVars, clusterVars, procVars
<1>4. RunShape(p)'
  <2>1. RunShape(p)
    BY DEF IInv
  <2>2. pc'[p] = "enqueue" /\ cur'[p] = u /\ todo'[p] = listed /\ spawned' = spawned /\ wpc' = wpc
    BY <1>1, <1>2 DEF IInv, TypeOK, workerVars
  <2> QED BY <1>1, <1>2, <2>1, <2>2 DEF RunShape, Working, Matching
<1>5. \A q \in Pollers : RunShape(q)'
  BY <1>1, <1>2, <1>4, PollerMoves DEF IInv, TypeOK, workerVars
<1>6. KeysInv'
  <2>1. \A w \in Workers : Holds(w) => w[1] # p /\ w[1] \in Pollers
    BY <1>2, AtWork DEF Holds, Working
  <2>2. \A w \in Workers : Holds(w) => cur'[w[1]] = cur[w[1]]
    BY <1>1, <2>1 DEF IInv, TypeOK
  <2> QED BY <1>2, <2>2, QueuesAlone DEF Holds, queueVars, workerVars
<1>7. ControlPlaneUntouched'
  BY <1>2 DEF IInv, ControlPlaneUntouched, clusterVars
<1> QED BY <1>3, <1>5, <1>6, <1>7 DEF IInv, KeysInv

LEMMA EnqueueNodeInv ==
    ASSUME IInv, NEW p \in Pollers, EnqueueNode(p)
    PROVE  IInv'
<1>1. PICK n \in todo[p] :
          /\ workqueues' = [workqueues EXCEPT ![cur[p]] = Add(@, n)]
          /\ todo' = [todo EXCEPT ![p] = @ \ {n}]
  BY DEF EnqueueNode
<1>2. /\ pc[p] = "enqueue"
      /\ UNCHANGED <<pc, cur, spawned, stale, nilClone, notice, errVars, workerVars, drainerCtx,
                     clusterVars, procVars>>
  BY DEF EnqueueNode
<1>3. RunShape(p) /\ cur[p] \in Upgrades /\ n \in Matching(cur[p])
  BY <1>1, <1>2 DEF IInv, RunShape
<1>4. \A u \in Upgrades : /\ workqueues'[u] \in QueueType(Matching(u))
                          /\ Consistent(workqueues'[u])
                          /\ workqueues'[u].processing = workqueues[u].processing
  <2>1. \A u \in Upgrades : workqueues[u] \in QueueType(Matching(u)) /\ Consistent(workqueues[u])
    BY DEF IInv, QueueKeys, QueueContract
  <2>2. \A u \in Upgrades : workqueues'[u] = IF u = cur[p] THEN Add(workqueues[u], n)
                                                            ELSE workqueues[u]
    BY <1>1, <1>3 DEF IInv, TypeOK
  <2> QED BY <1>3, <2>1, <2>2, AddKeeps
<1>5. TypeOK'
  <2>1. workqueues[cur[p]] \in QueueType(Nodes) /\ n \in Nodes
    BY <1>1, <1>3 DEF IInv, TypeOK
  <2>2. Add(workqueues[cur[p]], n) \in QueueType(Nodes)
    BY <1>3, <2>1, AddKeeps DEF IInv, QueueContract
  <2> QED BY <1>1, <1>2, <2>2 DEF IInv, TypeOK, errVars, workerVars, clusterVars, procVars
<1>6. RunShape(p)'
  <2>1. todo'[p] = todo[p] \ {n}
    BY <1>1 DEF IInv, TypeOK
  <2> QED BY <1>2, <1>3, <2>1 DEF RunShape, Working, Matching, workerVars
<1>7. \A q \in Pollers : RunShape(q)'
  BY <1>1, <1>2, <1>6, PollerMoves DEF IInv, TypeOK, workerVars
<1>8. KeysInv'
  BY <1>2, <1>4, SameHolders DEF Holds, workerVars
<1>9. ControlPlaneUntouched'
  BY <1>2 DEF IInv, ControlPlaneUntouched, clusterVars
<1> QED BY <1>5, <1>7, <1>8, <1>9 DEF IInv, KeysInv

\* A poller without workers at work moves on and does nothing but choose a new
\* place, and drop what it knows of its run.
LEMMA QuietPoller ==
    ASSUME IInv, NEW p \in Pollers, TypeOK',
           \A q \in Pollers \ {p} : pc'[q] = pc[q] /\ cur'[q] = cur[q] /\ todo'[q] = todo[q]
                                    /\ spawned'[q] = spawned[q],
           \A w \in Workers : w[1] # p => wpc'[w] = wpc[w],
           \A w \in Workers : w[1] = p => (Holds(w)' <=> Holds(w)),
           \/ cur'[p] = cur[p]
           \/ pc[p] \notin {"spawn", "wait"},
           UNCHANGED <<workqueues, wkey, unsched>>,
           RunShape(p)'
    PROVE  IInv'
<1>1. \A q \in Pollers : RunShape(q)'
  BY PollerMoves
<1>2. \A w \in Workers : Holds(w)' <=> Holds(w)
  BY DEF Holds
<1>3. ASSUME NEW w \in Workers, Holds(w) PROVE wkey'[w] = wkey[w] /\ cur'[w[1]] = cur[w[1]]
  <2>1. w[1] \in Pollers /\ pc[w[1]] \in {"spawn", "wait"}
    BY <1>3, AtWork DEF Holds, Working
  <2> QED BY <2>1
<1>4. KeysInv'
  BY <1>2, <1>3, QueuesAlone
<1>5. ControlPlaneUntouched'
  BY DEF IInv, ControlPlaneUntouched
<1> QED BY <1>1, <1>4, <1>5 DEF IInv, KeysInv

LEMMA CheckQueueInv ==
    ASSUME IInv, NEW p \in Pollers, CheckQueue(p)
    PROVE  IInv'
<1> USE DEF queueVars, errVars, workerVars, clusterVars, procVars
<1>1. /\ pc[p] = "enqueue" /\ pc' \in [Pollers -> PollerPCs] /\ pc'[p] \in {"idle", "record"}
      /\ cur' \in [Pollers -> Upgrades \cup {None}] /\ (pc'[p] = "record" => cur'[p] = cur[p])
      /\ stale' \in [Pollers -> BOOLEAN]
      /\ \A q \in Pollers \ {p} : pc'[q] = pc[q] /\ cur'[q] = cur[q]
      /\ UNCHANGED <<queueVars, todo, spawned, nilClone, notice, errVars, workerVars,
                     drainerCtx, clusterVars, procVars>>
  BY DEF CheckQueue, IInv, TypeOK, PollerPCs
<1>2. TypeOK'
  BY <1>1 DEF IInv, TypeOK
<1>3. RunShape(p)'
  BY <1>1 DEF IInv, RunShape, Working
<1> QED BY <1>1, <1>2, <1>3, QuietPoller DEF Holds

-----------------------------------------------------------------------------
(* startUpgrade *)

\* A write that the API server accepts keeps the types of what it changes.
LEMMA StoredTypes ==
    ASSUME IInv, NEW p \in Pollers, NEW status \in {"started", "completed", "failed"},
           Stored(p, status)
    PROVE  /\ condition' \in [Upgrades -> {"none", "started", "completed", "failed"}]
           /\ stale' \in [Pollers -> BOOLEAN]
           /\ notice' \in [Upgrades -> {"none", "fresh", "stale"}]
<1>1. condition' \in [Upgrades -> {"none", "started", "completed", "failed"}]
  BY DEF Stored, IInv, TypeOK
<1>2. stale' \in [Pollers -> BOOLEAN]
  BY DEF Stored
<1>3. PICK x \in {"none", "stale"} : notice' = [notice EXCEPT ![cur[p]] = x]
  BY DEF Stored
<1> QED BY <1>1, <1>2, <1>3 DEF IInv, TypeOK

LEMMA RecordStartedInv ==
    ASSUME IInv, NEW p \in Pollers, RecordStarted(p)
    PROVE  IInv'
<1> USE DEF queueVars, errVars, workerVars, procVars
<1>1. /\ pc[p] = "record" /\ pc' = [pc EXCEPT ![p] = "spawn"]
      /\ UNCHANGED <<queueVars, cur, todo, spawned, errVars, workerVars, drainerCtx,
                     unsched, marked, procVars>>
  BY DEF RecordStarted
<1>2. /\ condition' \in [Upgrades -> {"none", "started", "completed", "failed"}]
      /\ stale' \in [Pollers -> BOOLEAN] /\ nilClone' \in [Pollers -> BOOLEAN]
      /\ notice' \in [Upgrades -> {"none", "fresh", "stale"}]
  <2>1. CASE Stored(p, "started")
    BY <2>1, StoredTypes DEF RecordStarted, IInv, TypeOK
  <2>2. CASE NotStored
    BY <2>2 DEF RecordStarted, NotStored, IInv, TypeOK
  <2> QED BY <2>1, <2>2 DEF RecordStarted
<1>3. TypeOK' /\ pc'[p] = "spawn"
  BY <1>1, <1>2 DEF IInv, TypeOK, PollerPCs
<1>4. RunShape(p)'
  BY <1>1, <1>3 DEF IInv, RunShape, Working
<1>5. \A q \in Pollers \ {p} : pc'[q] = pc[q]
  BY <1>1 DEF IInv, TypeOK
<1> QED BY <1>1, <1>3, <1>4, <1>5, QuietPoller DEF Holds

\* The slot of a new worker is free.
LEMMA SpawnWorkerInv ==
    ASSUME IInv, NEW p \in Pollers, SpawnWorker(p)
    PROVE  IInv'
<1> USE DEF queueVars, errVars, clusterVars, procVars
<1> DEFINE n == <<p, spawned[p]>>
<1>1. /\ pc[p] = "spawn" /\ wpc' = [wpc EXCEPT ![n] = "get"]
      /\ spawned' = [spawned EXCEPT ![p] = spawned[p] + 1]
      /\ UNCHANGED <<queueVars, pc, cur, todo, stale, nilClone, notice, errVars, wkey,
                     wres, node, drainerCtx, clusterVars, procVars>>
  BY DEF SpawnWorker
<1>2. /\ spawned[p] \in Nat /\ spawned'[p] = spawned[p] + 1
      /\ \A w \in Workers : w = n => wpc'[w] = "get"
      /\ \A w \in Workers : w # n => wpc'[w] = wpc[w]
      /\ \A q \in Pollers \ {p} : spawned'[q] = spawned[q]
  BY <1>1 DEF IInv, TypeOK
<1>3. TypeOK'
  <2>1. wpc' \in [Workers -> WorkerPCs]
    BY <1>1 DEF IInv, TypeOK, WorkerPCs
  <2>2. spawned' \in [Pollers -> Nat]
    BY <1>1, <1>2 DEF IInv, TypeOK
  <2> QED BY <1>1, <2>1, <2>2 DEF IInv, TypeOK
<1>4. \A w \in Workers : w = n => w[1] = p /\ w[2] = spawned[p] /\ wpc[w] = "none"
  BY <1>2 DEF IInv, RunShape
<1>5. RunShape(p)'
  <2>1. RunShape(p)
    BY DEF IInv
  <2>2. \A w \in Workers : w[1] = p /\ w[2] >= spawned'[p] => wpc'[w] = "none"
    <3> SUFFICES ASSUME NEW w \in Workers, w[1] = p, w[2] >= spawned'[p]
                 PROVE  wpc'[w] = "none"
      OBVIOUS
    <3>1. w[2] \in Nat
      BY WorkerOf, FS_CardinalityType, NodesAssumption DEF Slots
    <3>2. w # n /\ w[2] >= spawned[p]
      BY <1>2, <1>4, <3>1
    <3> QED BY <1>2, <2>1, <3>2 DEF RunShape
  <2> QED BY <1>1, <2>1, <2>2 DEF RunShape, Working
<1>6. \A w \in Workers : Holds(w)' <=> Holds(w)
  BY <1>2, <1>4 DEF Holds
<1>7. \A w \in Workers : w[1] # p => wpc'[w] = wpc[w]
  BY <1>2, <1>4
<1> QED BY <1>1, <1>2, <1>3, <1>5, <1>6, <1>7, QuietPoller

LEMMA SpawnedAllInv ==
    ASSUME IInv, NEW p \in Pollers, SpawnedAll(p)
    PROVE  IInv'
<1> USE DEF SpawnedAll, queueVars, errVars, workerVars, clusterVars, procVars
<1>1. TypeOK' /\ pc'[p] = "wait"
  BY DEF IInv, TypeOK, PollerPCs
<1>2. RunShape(p)'
  BY <1>1 DEF IInv, RunShape, Working
<1>3. \A q \in Pollers \ {p} : pc'[q] = pc[q]
  BY DEF IInv, TypeOK
<1> QED BY <1>1, <1>2, <1>3, QuietPoller DEF Holds

LEMMA WaitReturnsInv ==
    ASSUME IInv, NEW p \in Pollers, WaitReturns(p)
    PROVE  IInv'
<1> USE DEF WaitReturns, queueVars, errVars, workerVars, clusterVars, procVars
<1>1. TypeOK' /\ pc'[p] = "complete"
  BY DEF IInv, TypeOK, PollerPCs
<1>2. RunShape(p)'
  BY <1>1 DEF IInv, RunShape, Working
<1>3. \A q \in Pollers \ {p} : pc'[q] = pc[q]
  BY DEF IInv, TypeOK
<1> QED BY <1>1, <1>2, <1>3, QuietPoller DEF Holds

LEMMA RecordCompletedInv ==
    ASSUME IInv, NEW p \in Pollers, RecordCompleted(p)
    PROVE  IInv'
<1> USE DEF queueVars, procVars
<1>1. /\ pc[p] = "complete" /\ pc' = [pc EXCEPT ![p] = "idle"]
      /\ cur' = [cur EXCEPT ![p] = None] /\ spawned' = [spawned EXCEPT ![p] = 0]
      /\ errChan' = [errChan EXCEPT ![p] = <<>>] /\ hand' = [hand EXCEPT ![p] = FALSE]
      /\ errs' = [errs EXCEPT ![p] = 0]
      /\ wpc' = [w \in Workers |-> IF w[1] = p THEN "none" ELSE wpc[w]]
      /\ wres' = [w \in Workers |-> IF w[1] = p THEN "none" ELSE wres[w]]
      /\ UNCHANGED <<queueVars, todo, nilClone, wkey, node, drainerCtx, unsched, marked,
                     procVars>>
  BY DEF RecordCompleted
<1>2. /\ condition' \in [Upgrades -> {"none", "started", "completed", "failed"}]
      /\ stale' \in [Pollers -> BOOLEAN]
      /\ notice' \in [Upgrades -> {"none", "fresh", "stale"}]
  BY StoredTypes DEF RecordCompleted, Outcome
<1>3. TypeOK'
  <2>1. wpc' \in [Workers -> WorkerPCs] /\ wres' \in [Workers -> {"none", "ok", "error", "notFound"}]
    BY <1>1 DEF IInv, TypeOK, WorkerPCs
  <2>2. errChan' \in [Pollers -> Seq(BOOLEAN)]
    BY <1>1 DEF IInv, TypeOK
  <2> QED BY <1>1, <1>2, <2>1, <2>2 DEF IInv, TypeOK, PollerPCs
<1>4. /\ pc'[p] = "idle" /\ spawned'[p] = 0
      /\ \A q \in Pollers \ {p} : pc'[q] = pc[q] /\ cur'[q] = cur[q] /\ spawned'[q] = spawned[q]
  BY <1>1 DEF IInv, TypeOK
<1>5. RunShape(p)'
  BY <1>1, <1>4 DEF RunShape, Working
<1>6. \A w \in Workers : w[1] = p => ~Holds(w) /\ ~Holds(w)'
  BY <1>1, AtWork DEF Holds, Working
<1> QED BY <1>1, <1>3, <1>4, <1>5, <1>6, QuietPoller

\* A process that ends leaves no run, no worker and empty queues behind.
LEMMA LoseMemoryInv ==
    ASSUME IInv, LoseMemory, UNCHANGED <<unsched, marked>>,
           proc' \in {"up", "stopping", "down", "panicked"},
           condition' \in [Upgrades -> {"none", "started", "completed", "failed"}]
    PROVE  IInv'
<1>1. \A Items : EmptyQueue \in QueueType(Items) /\ Consistent(EmptyQueue) /\ EmptyQueue.processing = {}
  BY EmptyQueueContract
<1>2. TypeOK'
  <2>1. /\ workqueues' \in [Upgrades -> QueueType(Nodes)]
        /\ pc' \in [Pollers -> PollerPCs]
        /\ wpc' \in [Workers -> WorkerPCs]
    BY <1>1 DEF LoseMemory, PollerPCs, WorkerPCs
  <2>2. errChan' \in [Pollers -> Seq(BOOLEAN)]
    BY DEF LoseMemory
  <2>3. /\ notice' \in [Upgrades -> {"none", "fresh", "stale"}]
        /\ node' \in [Workers -> NodeCopies]
    BY DEF LoseMemory, FirstNotices, NodeCopies
  <2> QED BY <2>1, <2>2, <2>3 DEF LoseMemory, IInv, TypeOK
<1>3. \A p \in Pollers : RunShape(p)'
  BY DEF LoseMemory, RunShape, Working
<1>4. \A w \in Workers : ~Holds(w)'
  BY DEF LoseMemory, Holds
<1>5. \A u \in Upgrades : workqueues'[u] = EmptyQueue
  BY DEF LoseMemory
<1>6. QueueKeys' /\ QueueContract'
  BY <1>1, <1>4, <1>5 DEF QueueKeys, QueueContract
<1>7. HeldKeys' /\ NodeExclusive' /\ ControlPlaneUntouched'
  BY <1>4 DEF HeldKeys, NodeExclusive, IInv, ControlPlaneUntouched
<1> QED BY <1>2, <1>3, <1>6, <1>7 DEF IInv

LEMMA HaltInv ==
    ASSUME IInv, NEW how \in {"down", "panicked"}, Halt(how)
    PROVE  IInv'
BY LoseMemoryInv DEF Halt, clusterVars, IInv, TypeOK

LEMMA CompletePanicsInv ==
    ASSUME IInv, NEW p \in Pollers, CompletePanics(p)
    PROVE  IInv'
<1>1. condition' \in [Upgrades -> {"none", "started", "completed", "failed"}]
  BY DEF CompletePanics, Outcome, IInv, TypeOK
<1> QED BY <1>1, LoseMemoryInv DEF CompletePanics

LEMMA CollectorInv ==
    ASSUME IInv, NEW p \in Pollers, CollectorStep(p)
    PROVE  IInv'
<1> USE DEF queueVars, runVars, workerVars, clusterVars, procVars
<1>1. UNCHANGED <<queueVars, runVars, workerVars, drainerCtx, clusterVars, procVars>>
  BY DEF CollectorStep, CollectorReceives, CollectorAppends
<1>2. TypeOK'
  <2>1. CASE CollectorReceives(p)
    <3>1. errChan[p] \in Seq(BOOLEAN) /\ errChan[p] # <<>>
      BY <2>1 DEF CollectorReceives, IInv, TypeOK
    <3>2. Head(errChan[p]) \in BOOLEAN /\ Tail(errChan[p]) \in Seq(BOOLEAN)
      BY <3>1, HeadAndTail
    <3>3. hand' \in [Pollers -> BOOLEAN]
      <4>1. PICK b \in BOOLEAN : hand' = [hand EXCEPT ![p] = b]
        BY <2>1, <3>2 DEF CollectorReceives
      <4> QED BY <4>1 DEF IInv, TypeOK
    <3>4. errChan' \in [Pollers -> Seq(BOOLEAN)] /\ errs' = errs
      BY <2>1, <3>2 DEF CollectorReceives, IInv, TypeOK
    <3> QED BY <1>1, <3>3, <3>4 DEF IInv, TypeOK
  <2>2. CASE CollectorAppends(p)
    <3>1. hand' \in [Pollers -> BOOLEAN] /\ errs' \in [Pollers -> Nat] /\ errChan' = errChan
      BY <2>2 DEF CollectorAppends, errVars, IInv, TypeOK
    <3> QED BY <1>1, <3>1 DEF IInv, TypeOK
  <2> QED BY <2>1, <2>2 DEF CollectorStep
<1>3. RunShape(p)'
  BY <1>1 DEF IInv, RunShape, Working, Matching
<1> QED BY <1>1, <1>2, <1>3, QuietPoller DEF Holds

-----------------------------------------------------------------------------
(* runWorker and upgradeKubelet *)

\* A worker moves on without touching the queue or the key that it holds.
LEMMA QuietWorker ==
    ASSUME IInv, NEW w \in Workers, Working(w), TypeOK', NEW next,
           wpc' = [wpc EXCEPT ![w] = next],
           next \in {"cordon", "cordoning", "drain", "uncordoning", "done"} <=> Holds(w),
           UNCHANGED <<workqueues, runVars, wkey>>,
           ControlPlaneUntouched'
    PROVE  IInv'
<1>1. \A p \in Pollers : RunShape(p)'
  BY WorkerMoves
<1>2. \A v \in Workers : Holds(v)' <=> Holds(v)
  BY DEF Holds, IInv, TypeOK
<1>3. KeysInv'
  BY <1>2, QueuesAlone DEF runVars
<1> QED BY <1>1, <1>3 DEF IInv, KeysInv

LEMMA WorkerShutDownInv ==
    ASSUME IInv, NEW w \in Workers, WorkerShutDown(w)
    PROVE  IInv'
<1> USE DEF WorkerShutDown, queueVars, errVars, clusterVars, procVars
<1>1. TypeOK'
  BY DEF IInv, TypeOK, WorkerPCs, runVars
<1> QED BY <1>1, QuietWorker DEF Working, Holds, IInv, ControlPlaneUntouched

LEMMA CordonInv ==
    ASSUME IInv, NEW w \in Workers, Cordon(w)
    PROVE  IInv'
<1>1. /\ wpc[w] = "cordon"
      /\ UNCHANGED <<queueVars, runVars, errVars, wkey, clusterVars, procVars>>
  BY DEF Cordon
<1>2. PICK next \in {"done", "cordoning"} : wpc' = [wpc EXCEPT ![w] = next]
  BY DEF Cordon, Finish
<1>3. wres' \in [Workers -> {"none", "ok", "error", "notFound"}] /\ drainerCtx' \in Workers \cup {None}
  <2>1. PICK r \in {wres[w], "notFound"} : wres' = [wres EXCEPT ![w] = r]
    BY DEF Cordon, Finish, IInv, TypeOK
  <2>2. drainerCtx' \in Workers \cup {None}
    BY DEF Cordon, IInv, TypeOK
  <2> QED BY <2>1, <2>2 DEF IInv, TypeOK
<1>4. node' \in [Workers -> NodeCopies]
  <2>1. \/ UNCHANGED node
        \/ \E copy \in NodeCopies : node' = [node EXCEPT ![w] = copy]
    BY DEF Cordon, Listed, NodeCopies
  <2> QED BY <2>1 DEF IInv, TypeOK
<1>5. TypeOK'
  BY <1>1, <1>2, <1>3, <1>4 DEF IInv, TypeOK, WorkerPCs, queueVars, runVars, errVars, clusterVars, procVars
<1> QED BY <1>1, <1>2, <1>5, QuietWorker
        DEF Working, Holds, queueVars, clusterVars, IInv, ControlPlaneUntouched

\* Only the worker's own node is cordoned or uncordoned, and it is not a node of
\* the control plane.
LEMMA CallDrainerInv ==
    ASSUME IInv, NEW w \in Workers, Holds(w), NEW desired \in BOOLEAN,
           \/ CallDrainer(w, desired, wpc' = [wpc EXCEPT ![w] = "drain"] /\ UNCHANGED wres)
           \/ CallDrainer(w, desired, Finish(w, "ok"))
    PROVE  IInv'
<1>1. UNCHANGED <<queueVars, runVars, errVars, wkey, condition, procVars>>
  BY DEF CallDrainer
<1>2. PICK next \in {"done", "drain"} : wpc' = [wpc EXCEPT ![w] = next]
  BY DEF CallDrainer, Finish
<1>3. /\ wres' \in [Workers -> {"none", "ok", "error", "notFound"}]
      /\ drainerCtx' \in Workers \cup {None}
  BY DEF CallDrainer, CancelContext, Finish, IInv, TypeOK
<1>4. unsched' = unsched \/ unsched' = [unsched EXCEPT ![wkey[w]] = desired]
  BY DEF CallDrainer
<1>5. unsched' \in [Nodes -> BOOLEAN]
  BY <1>4 DEF IInv, TypeOK
<1>6. node' \in [Workers -> NodeCopies] /\ marked' \subseteq Nodes
  <2>1. wkey[w] \in Nodes
    BY AtWork, UpgradesAssumption DEF IInv, HeldKeys, Matching, Holds, Working
  <2> QED BY <2>1 DEF CallDrainer, WriteNode, NodeCopies, IInv, TypeOK
<1>7. TypeOK'
  BY <1>1, <1>2, <1>3, <1>5, <1>6 DEF IInv, TypeOK, WorkerPCs, queueVars, runVars, errVars, procVars
<1>8. wkey[w] \notin ControlPlane
  BY DEF IInv, HeldKeys, Matching
<1>9. ControlPlaneUntouched'
  <2>1. ControlPlane \subseteq Nodes
    BY NodesAssumption
  <2> QED BY <1>4, <1>8, <2>1 DEF IInv, TypeOK, ControlPlaneUntouched
<1> QED BY <1>1, <1>2, <1>7, <1>9, QuietWorker DEF Working, Holds, queueVars

LEMMA DrainReturnsInv ==
    ASSUME IInv, NEW w \in Workers, DrainReturns(w)
    PROVE  IInv'
<1>1. /\ wpc[w] = "drain"
      /\ UNCHANGED <<queueVars, runVars, errVars, wkey, node, clusterVars, procVars>>
  BY DEF DrainReturns
<1>2. PICK next \in {"done", "uncordoning"} : wpc' = [wpc EXCEPT ![w] = next]
  BY DEF DrainReturns, Finish
<1>3. wres' \in [Workers -> {"none", "ok", "error", "notFound"}] /\ drainerCtx' \in Workers \cup {None}
  <2>1. \A r \in CallFaults : r \in {"error", "notFound"}
    BY FaultsAssumption DEF CallFaults
  <2>2. PICK r \in {wres[w], "error", "notFound"} : wres' = [wres EXCEPT ![w] = r]
    BY <2>1 DEF DrainReturns, Finish, IInv, TypeOK
  <2>3. drainerCtx' \in Workers \cup {None}
    BY DEF DrainReturns, IInv, TypeOK
  <2> QED BY <2>2, <2>3 DEF IInv, TypeOK
<1>4. TypeOK'
  BY <1>1, <1>2, <1>3 DEF IInv, TypeOK, WorkerPCs, queueVars, runVars, errVars, clusterVars, procVars
<1> QED BY <1>1, <1>2, <1>4, QuietWorker
        DEF Working, Holds, queueVars, clusterVars, IInv, ControlPlaneUntouched

LEMMA WorkerSendsInv ==
    ASSUME IInv, NEW w \in Workers, WorkerSends(w)
    PROVE  IInv'
<1>1. /\ wpc[w] = "send" /\ wpc' = [wpc EXCEPT ![w] = "exit"]
      /\ UNCHANGED <<queueVars, runVars, errs, wkey, wres, node, drainerCtx, clusterVars,
                     procVars>>
  BY DEF WorkerSends
<1>2. Failed(w) \in BOOLEAN
  BY DEF Failed
<1>3. errChan' \in [Pollers -> Seq(BOOLEAN)]
  <2>1. errChan[w[1]] \in Seq(BOOLEAN)
    BY WorkerOf DEF IInv, TypeOK
  <2>2. Append(errChan[w[1]], Failed(w)) \in Seq(BOOLEAN)
    BY <1>2, <2>1
  <2> QED BY <2>2 DEF WorkerSends, IInv, TypeOK
<1>4. hand' \in [Pollers -> BOOLEAN]
  BY <1>2 DEF WorkerSends, IInv, TypeOK
<1>5. TypeOK'
  BY <1>1, <1>3, <1>4 DEF IInv, TypeOK, WorkerPCs, queueVars, runVars, clusterVars, procVars
<1> QED BY <1>1, <1>5, QuietWorker
        DEF Working, Holds, queueVars, clusterVars, IInv, ControlPlaneUntouched

\* The key that Get returns is in nobody's hands, and now in w's.
LEMMA WorkerGetsInv ==
    ASSUME IInv, NEW w \in Workers, WorkerGets(w)
    PROVE  IInv'
<1> DEFINE u == cur[w[1]]
           q == workqueues[u]
           k == Head(q.queue)
<1>1. /\ wpc[w] = "get" /\ CanGet(q)
      /\ wkey' = [wkey EXCEPT ![w] = k]
      /\ workqueues' = [workqueues EXCEPT ![u] = Get(q)]
      /\ wpc' = [wpc EXCEPT ![w] = "cordon"]
      /\ UNCHANGED <<runVars, errVars, wres, node, drainerCtx, clusterVars, procVars>>
  BY DEF WorkerGets
<1>2. u \in Upgrades /\ w[1] \in Pollers /\ ~Holds(w)
  BY <1>1, AtWork DEF Working, Holds
<1>3. /\ k \in Matching(u) /\ k \notin q.processing
      /\ Get(q) \in QueueType(Matching(u)) /\ Consistent(Get(q))
      /\ Get(q).processing = q.processing \cup {k}
  BY <1>1, <1>2, GetKeeps DEF IInv, QueueKeys, QueueContract
<1>4. k \in Nodes /\ Get(q) \in QueueType(Nodes)
  <2>1. q \in QueueType(Nodes) /\ Consistent(q)
    BY <1>2 DEF IInv, TypeOK, QueueContract
  <2> QED BY <1>1, <2>1, GetKeeps
<1>5. TypeOK'
  <2>1. wpc' \in [Workers -> WorkerPCs] /\ wkey' \in [Workers -> Nodes \cup {None}]
    BY <1>1, <1>4 DEF IInv, TypeOK, WorkerPCs
  <2>2. workqueues' \in [Upgrades -> QueueType(Nodes)]
    BY <1>1, <1>4 DEF IInv, TypeOK
  <2> QED BY <1>1, <2>1, <2>2 DEF IInv, TypeOK, runVars, errVars, clusterVars, procVars
<1>6. \A p \in Pollers : RunShape(p)'
  BY <1>1, WorkerMoves DEF Working
<1>7. /\ Holds(w)' /\ wkey'[w] = k /\ cur' = cur
      /\ \A v \in Workers \ {w} : (Holds(v)' <=> Holds(v)) /\ wkey'[v] = wkey[v]
      /\ workqueues'[u] = Get(q)
      /\ \A x \in Upgrades \ {u} : workqueues'[x] = workqueues[x]
  BY <1>1, <1>2 DEF Holds, IInv, TypeOK, runVars
<1>8. QueueKeys'
  BY <1>2, <1>3, <1>7 DEF IInv, QueueKeys, Matching
<1>9. HeldKeys'
  BY <1>3, <1>7 DEF IInv, HeldKeys, Matching
<1>10. \A v \in Workers : Holds(v) /\ cur[v[1]] = u => wkey[v] # k
  BY <1>2, <1>3 DEF IInv, QueueContract
<1>11. NodeExclusive'
  BY <1>7, <1>10 DEF IInv, NodeExclusive
<1>12. QueueContract'
  <2> SUFFICES ASSUME NEW x \in Upgrades
               PROVE  /\ Consistent(workqueues'[x])
                      /\ workqueues'[x].processing =
                             {wkey'[v] : v \in {y \in Workers : Holds(y)' /\ cur'[y[1]] = x}}
    BY DEF QueueContract
  <2>1. /\ Consistent(workqueues[x])
        /\ workqueues[x].processing =
               {wkey[v] : v \in {y \in Workers : Holds(y) /\ cur[y[1]] = x}}
    BY DEF IInv, QueueContract
  <2>2. CASE x = u
    BY <1>2, <1>3, <1>7, <2>1, <2>2
  <2>3. CASE x # u
    BY <1>2, <1>7, <2>1, <2>3
  <2> QED BY <2>2, <2>3
<1>13. ControlPlaneUntouched'
  BY <1>1 DEF IInv, ControlPlaneUntouched, clusterVars
<1> QED BY <1>5, <1>6, <1>8, <1>9, <1>11, <1>12, <1>13 DEF IInv

\* The key that is done was w's alone.
LEMMA WorkerDoneInv ==
    ASSUME IInv, NEW w \in Workers, WorkerDone(w)
    PROVE  IInv'
<1> DEFINE u == cur[w[1]]
           q == workqueues[u]
           k == wkey[w]
<1>1. /\ wpc[w] = "done"
      /\ wkey' = [wkey EXCEPT ![w] = None]
      /\ workqueues' = [workqueues EXCEPT ![u] = Done(q, k)]
      /\ wpc' = [wpc EXCEPT ![w] = "send"]
      /\ node' = [node EXCEPT ![w] = "none"]
      /\ UNCHANGED <<runVars, errVars, wres, drainerCtx, clusterVars, procVars>>
  BY DEF WorkerDone
<1>2. u \in Upgrades /\ w[1] \in Pollers /\ Holds(w)
  BY <1>1, AtWork DEF Working, Holds
<1>3. k \in q.processing
  BY <1>2 DEF IInv, QueueContract
<1>4. /\ Done(q, k) \in QueueType(Matching(u)) /\ Consistent(Done(q, k))
      /\ Done(q, k).processing = q.processing \ {k}
  BY <1>2, <1>3, DoneKeeps DEF IInv, QueueKeys, QueueContract
<1>5. Done(q, k) \in QueueType(Nodes)
  <2>1. q \in QueueType(Nodes) /\ Consistent(q)
    BY <1>2 DEF IInv, TypeOK, QueueContract
  <2> QED BY <1>3, <2>1, DoneKeeps
<1>6. TypeOK'
  <2>1. wpc' \in [Workers -> WorkerPCs] /\ wkey' \in [Workers -> Nodes \cup {None}]
    BY <1>1 DEF IInv, TypeOK, WorkerPCs
  <2>2. workqueues' \in [Upgrades -> QueueType(Nodes)]
    BY <1>1, <1>5 DEF IInv, TypeOK
  <2>3. node' \in [Workers -> NodeCopies]
    BY <1>1 DEF IInv, TypeOK, NodeCopies
  <2> QED BY <1>1, <2>1, <2>2, <2>3 DEF IInv, TypeOK, runVars, errVars, clusterVars, procVars
<1>7. \A p \in Pollers : RunShape(p)'
  BY <1>1, WorkerMoves DEF Working
<1>8. /\ ~Holds(w)' /\ cur' = cur
      /\ \A v \in Workers \ {w} : (Holds(v)' <=> Holds(v)) /\ wkey'[v] = wkey[v]
      /\ workqueues'[u] = Done(q, k)
      /\ \A x \in Upgrades \ {u} : workqueues'[x] = workqueues[x]
  BY <1>1, <1>2 DEF Holds, IInv, TypeOK, runVars
<1>9. QueueKeys'
  BY <1>2, <1>4, <1>8 DEF IInv, QueueKeys, Matching
<1>10. HeldKeys'
  BY <1>8 DEF IInv, HeldKeys, Matching
<1>11. NodeExclusive'
  BY <1>8 DEF IInv, NodeExclusive
<1>12. \A v \in Workers \ {w} : Holds(v) /\ cur[v[1]] = u => wkey[v] # k
  BY <1>2 DEF IInv, NodeExclusive
<1>13. QueueContract'
  <2> SUFFICES ASSUME NEW x \in Upgrades
               PROVE  /\ Consistent(workqueues'[x])
                      /\ workqueues'[x].processing =
                             {wkey'[v] : v \in {y \in Workers : Holds(y)' /\ cur'[y[1]] = x}}
    BY DEF QueueContract
  <2>1. /\ Consistent(workqueues[x])
        /\ workqueues[x].processing =
               {wkey[v] : v \in {y \in Workers : Holds(y) /\ cur[y[1]] = x}}
    BY DEF IInv, QueueContract
  <2>2. CASE x = u
    BY <1>2, <1>4, <1>8, <1>12, <2>1, <2>2
  <2>3. CASE x # u
    BY <1>2, <1>8, <2>1, <2>3
  <2> QED BY <2>2, <2>3
<1>14. ControlPlaneUntouched'
  BY <1>1 DEF IInv, ControlPlaneUntouched, clusterVars
<1> QED BY <1>6, <1>7, <1>9, <1>10, <1>11, <1>13, <1>14 DEF IInv

LEMMA WorkerStepInv ==
    ASSUME IInv, NEW w \in Workers, WorkerStep(w)
    PROVE  IInv'
<1>1. CASE WorkerPanics(w)
  BY <1>1, HaltInv DEF WorkerPanics
<1>2. CASE CordonReturns(w)
  BY <1>2, CallDrainerInv DEF CordonReturns, Holds
<1>3. CASE UncordonReturns(w)
  BY <1>3, CallDrainerInv DEF UncordonReturns, Holds
<1> QED BY <1>1, <1>2, <1>3, WorkerGetsInv, WorkerShutDownInv, CordonInv, DrainReturnsInv,
           WorkerDoneInv, WorkerSendsInv DEF WorkerStep

-----------------------------------------------------------------------------
(* Reconcile, main *)

LEMMA ReconcileReturnsInv ==
    ASSUME IInv, ReconcileReturns
    PROVE  IInv'
<1>1. /\ proc' = "stopping"
      /\ workqueues' = [u \in Upgrades |-> ShutDown(workqueues[u])]
      /\ UNCHANGED <<runVars, errVars, workerVars, drainerCtx, clusterVars, stop>>
  BY DEF ReconcileReturns
<1>2. \A u \in Upgrades : /\ workqueues'[u] \in QueueType(Matching(u))
                          /\ workqueues'[u] \in QueueType(Nodes)
                          /\ Consistent(workqueues'[u])
                          /\ workqueues'[u].processing = workqueues[u].processing
  <2> SUFFICES ASSUME NEW u \in Upgrades
               PROVE  /\ ShutDown(workqueues[u]) \in QueueType(Matching(u))
                      /\ ShutDown(workqueues[u]) \in QueueType(Nodes)
                      /\ Consistent(ShutDown(workqueues[u]))
                      /\ ShutDown(workqueues[u]).processing = workqueues[u].processing
    BY <1>1
  <2>1. /\ workqueues[u] \in QueueType(Matching(u)) /\ workqueues[u] \in QueueType(Nodes)
        /\ Consistent(workqueues[u])
    BY DEF IInv, TypeOK, QueueKeys, QueueContract
  <2> QED BY <2>1, ShutDownKeeps
<1>3. TypeOK'
  BY <1>1, <1>2 DEF IInv, TypeOK, runVars, errVars, workerVars, clusterVars
<1>4. \A p \in Pollers : RunShape(p)'
  BY <1>1 DEF IInv, RunShape, Working, Matching, runVars, workerVars
<1>5. KeysInv'
  BY <1>1, <1>2, SameHolders DEF Holds, runVars, workerVars
<1>6. ControlPlaneUntouched'
  BY <1>1 DEF IInv, ControlPlaneUntouched, clusterVars
<1> QED BY <1>3, <1>4, <1>5, <1>6 DEF IInv, KeysInv

LEMMA ProcessStepInv ==
    ASSUME IInv, ProcessStep
    PROVE  IInv'
<1>1. CASE Interrupt \/ Restart
  <2>1. /\ UNCHANGED <<queueVars, runVars, errVars, workerVars, drainerCtx, clusterVars>>
        /\ stop' \in BOOLEAN /\ proc' \in {"up", "stopping", "down", "panicked"}
    BY <1>1 DEF Interrupt, Restart, IInv, TypeOK
  <2>2. TypeOK' /\ ControlPlaneUntouched'
    BY <2>1 DEF IInv, TypeOK, ControlPlaneUntouched, queueVars, runVars, errVars, workerVars, clusterVars
  <2>3. \A p \in Pollers : RunShape(p)'
    BY <2>1 DEF IInv, RunShape, Working, Matching, runVars, workerVars
  <2>4. KeysInv'
    BY <2>1, QueuesAlone DEF Holds, queueVars, runVars, workerVars
  <2> QED BY <2>2, <2>3, <2>4 DEF IInv, KeysInv
<1>2. CASE Exit \/ Kill
  BY <1>2, HaltInv DEF Exit, Kill
<1> QED BY <1>1, <1>2, ReconcileReturnsInv DEF ProcessStep

-----------------------------------------------------------------------------
(* The theorems *)

LEMMA InitInv == Init => IInv
<1> SUFFICES ASSUME Init PROVE IInv
  OBVIOUS
<1>1. \A Items : EmptyQueue \in QueueType(Items) /\ Consistent(EmptyQueue) /\ EmptyQueue.processing = {}
  BY EmptyQueueContract
<1>2. TypeOK
  <2>1. /\ workqueues \in [Upgrades -> QueueType(Nodes)]
        /\ pc \in [Pollers -> PollerPCs]
        /\ wpc \in [Workers -> WorkerPCs]
    BY <1>1 DEF Init, FreshProcess, PollerPCs, WorkerPCs
  <2>2. errChan \in [Pollers -> Seq(BOOLEAN)]
    BY DEF Init, FreshProcess
  <2>3. /\ notice \in [Upgrades -> {"none", "fresh", "stale"}]
        /\ node \in [Workers -> NodeCopies]
    BY DEF Init, FreshProcess, FirstNotices, NodeCopies
  <2> QED BY <2>1, <2>2, <2>3 DEF Init, FreshProcess, TypeOK
<1>3. \A p \in Pollers : RunShape(p)
  BY DEF Init, FreshProcess, RunShape, Working
<1>4. \A w \in Workers : ~Holds(w)
  BY DEF Init, FreshProcess, Holds
<1>5. \A u \in Upgrades : workqueues[u] = EmptyQueue
  BY DEF Init, FreshProcess
<1>6. QueueKeys /\ QueueContract
  BY <1>1, <1>4, <1>5 DEF QueueKeys, QueueContract
<1>7. HeldKeys /\ NodeExclusive /\ ControlPlaneUntouched
  BY <1>4, NodesAssumption DEF HeldKeys, NodeExclusive, Init, ControlPlaneUntouched
<1> QED BY <1>2, <1>3, <1>6, <1>7 DEF IInv

LEMMA NextInv == IInv /\ [Next]_vars => IInv'
<1> SUFFICES ASSUME IInv, [Next]_vars PROVE IInv'
  OBVIOUS
<1>1. ASSUME NEW p \in Pollers, StartPoll(p) \/ RunStep(p) \/ CollectorStep(p) PROVE IInv'
  BY <1>1, StartPollInv, EnqueueNodeInv, CheckQueueInv, RecordStartedInv,
     SpawnWorkerInv, SpawnedAllInv, WaitReturnsInv, RecordCompletedInv, CompletePanicsInv,
     CollectorInv DEF RunStep
<1>2. ASSUME UNCHANGED vars PROVE IInv'
  <2>1. UNCHANGED <<queueVars, runVars, errVars, workerVars, drainerCtx, clusterVars, procVars>>
    BY <1>2 DEF vars
  <2>2. TypeOK' /\ ControlPlaneUntouched'
    BY <2>1 DEF IInv, TypeOK, ControlPlaneUntouched, queueVars, runVars, errVars, workerVars,
       clusterVars, procVars
  <2>3. \A p \in Pollers : RunShape(p)'
    BY <2>1 DEF IInv, RunShape, Working, Matching, runVars, workerVars
  <2>4. KeysInv'
    BY <2>1, QueuesAlone DEF Holds, queueVars, runVars, workerVars
  <2> QED BY <2>2, <2>3, <2>4 DEF IInv, KeysInv
<1> QED BY <1>1, <1>2, WorkerStepInv, ProcessStepInv DEF Next

LEMMA SpecInv == Spec => []IInv
<1>1. Init => IInv
  BY InitInv
<1>2. IInv /\ [Next]_vars => IInv'
  BY NextInv
<1> QED BY <1>1, <1>2, PTL DEF Spec

\* The variables of UpgradeRun have their types, whatever the pollers, workers,
\* collectors, failures and restarts do.
THEOREM TypeCorrect == Spec => []TypeOK
<1>1. IInv => TypeOK
  BY DEF IInv
<1> QED BY <1>1, SpecInv, PTL

\* Every work queue keeps its contract and knows exactly which keys its workers
\* hold between Get and Done.
THEOREM QueuesKeepContract == Spec => []QueueContract
<1>1. IInv => QueueContract
  BY DEF IInv
<1> QED BY <1>1, SpecInv, PTL

\* Any number of pollers may run the same KubeletUpgrade at once: no two of their
\* workers are ever at work on the same node.
THEOREM OneWorkerPerNode == Spec => []NodeExclusive
<1>1. IInv => NodeExclusive
  BY DEF IInv
<1> QED BY <1>1, SpecInv, PTL

\* Whatever the selectors match, no node of the control plane is ever cordoned.
THEOREM ControlPlaneSafe == Spec => []ControlPlaneUntouched
<1>1. IInv => ControlPlaneUntouched
  BY DEF IInv
<1> QED BY <1>1, SpecInv, PTL

-----------------------------------------------------------------------------
(* Draining the nodes that a single upgrade matches *)

\* What the copy of its node tells a worker, and what that is worth.
CopyFits(w) ==
    /\ wpc[w] = "cordoning" => node[w] \in {"schedulable", "outdated"} \/ unsched[wkey[w]]
    /\ wpc[w] = "drain" => node[w] # "schedulable" /\ (node[w] = "outdated" \/ unsched[wkey[w]])
    /\ wpc[w] = "uncordoning" => node[w] # "schedulable"
    /\ wpc[w] = "done" /\ wres[w] = "ok" => ~unsched[wkey[w]]

DrainInv == \A w \in Workers : Private(cur[w[1]], wkey[w]) => CopyFits(w)

\* A private node in a worker's hands is in no other worker's.
LEMMA OwnNode ==
    ASSUME IInv, NEW v \in Workers, NEW w \in Workers, Holds(v), Holds(w), v # w,
           Private(cur[v[1]], wkey[v])
    PROVE  wkey[v] # wkey[w]
<1>1. /\ cur[v[1]] \in Upgrades /\ wkey[v] \in Matching(cur[v[1]])
      /\ cur[w[1]] \in Upgrades /\ wkey[w] \in Matching(cur[w[1]])
  BY AtWork DEF IInv, HeldKeys, Holds, Working
<1>2. CASE cur[v[1]] = cur[w[1]]
  BY <1>2 DEF IInv, NodeExclusive
<1>3. CASE cur[v[1]] # cur[w[1]]
  BY <1>1, <1>3 DEF Private
<1> QED BY <1>2, <1>3

\* Only w moves, and at most w's node changes, and copies of that node.
LEMMA OneWorkerMoves ==
    ASSUME IInv, DrainInv, NEW w \in Workers, Working(w), NEW next, NEW r,
           NEW k, NEW b \in BOOLEAN,
           wpc' = [wpc EXCEPT ![w] = next], wres' = [wres EXCEPT ![w] = r],
           wkey' = [wkey EXCEPT ![w] = k],
           UNCHANGED cur,
           unsched' = unsched \/ (Holds(w) /\ unsched' = [unsched EXCEPT ![wkey[w]] = b]),
           \A v \in Workers \ {w} :
               node'[v] = node[v] \/ (Holds(v) /\ Holds(w) /\ wkey[v] = wkey[w]),
           Private(cur[w[1]], k) => CopyFits(w)'
    PROVE  DrainInv'
<1>1. /\ wkey'[w] = k
      /\ \A v \in Workers \ {w} : wpc'[v] = wpc[v] /\ wres'[v] = wres[v] /\ wkey'[v] = wkey[v]
  BY DEF IInv, TypeOK
<1>2. ASSUME NEW v \in Workers \ {w}, Holds(v), Private(cur[v[1]], wkey[v])
      PROVE  unsched'[wkey[v]] = unsched[wkey[v]] /\ node'[v] = node[v]
  <2>1. Holds(w) => wkey[v] # wkey[w]
    BY <1>2, OwnNode
  <2>2. wkey[v] \in Nodes
    BY <1>2, AtWork, UpgradesAssumption DEF IInv, HeldKeys, Matching, Holds, Working
  <2> QED BY <2>1, <2>2 DEF IInv, TypeOK
<1>3. \A u, n : Private(u, n)' <=> Private(u, n)
  BY DEF Private, Matching
<1>4. ASSUME NEW v \in Workers \ {w}, Private(cur[v[1]], wkey[v])
      PROVE  CopyFits(v)'
  <2>1. CopyFits(v)
    BY <1>4 DEF DrainInv
  <2>2. CASE Holds(v)
    BY <1>1, <1>2, <1>4, <2>1, <2>2 DEF CopyFits
  <2>3. CASE ~Holds(v)
    BY <1>1, <2>3 DEF CopyFits, Holds
  <2> QED BY <2>2, <2>3
<1> QED BY <1>1, <1>3, <1>4 DEF DrainInv

\* A worker that is not in a call to the drainer has nothing to show for its copy.
LEMMA NothingToShow ==
    ASSUME IInv, DrainInv, NEW w \in Workers, Working(w), NEW next, NEW r, NEW k,
           next \notin {"cordoning", "drain", "uncordoning"}, next = "done" => r # "ok",
           wpc' = [wpc EXCEPT ![w] = next], wres' = [wres EXCEPT ![w] = r],
           wkey' = [wkey EXCEPT ![w] = k],
           UNCHANGED <<cur, unsched>>,
           \A v \in Workers \ {w} : node'[v] = node[v]
    PROVE  DrainInv'
<1>1. CopyFits(w)'
  BY DEF CopyFits, IInv, TypeOK
<1> QED BY <1>1, OneWorkerMoves

\* What a call to the drainer does to copies of nodes.
LEMMA DrainerWrites ==
    ASSUME IInv, NEW w \in Workers, Holds(w), NEW desired \in BOOLEAN, WriteNode(w, desired)
    PROVE  /\ node'[w] = IF desired THEN "unschedulable" ELSE "schedulable"
           /\ \A v \in Workers \ {w} :
                  node'[v] = node[v] \/ (Holds(v) /\ Holds(w) /\ wkey[v] = wkey[w])
BY DEF WriteNode, Holds

LEMMA CordonReturnsKeepsDrain ==
    ASSUME IInv, DrainInv, NEW w \in Workers, CordonReturns(w)
    PROVE  DrainInv'
<1>1. /\ wpc[w] = "cordoning" /\ Working(w) /\ Holds(w)
      /\ wkey' = [wkey EXCEPT ![w] = wkey[w]] /\ UNCHANGED cur
  BY DEF CordonReturns, CallDrainer, Working, Holds, runVars, IInv, TypeOK
<1>2. wkey[w] \in Nodes /\ wkey'[w] = wkey[w]
  BY <1>1, AtWork, UpgradesAssumption DEF IInv, TypeOK, HeldKeys, Matching, Holds, Working
<1>3. unsched' = unsched \/ unsched' = [unsched EXCEPT ![wkey[w]] = TRUE]
  BY DEF CordonReturns, CallDrainer
<1>4. \A v \in Workers \ {w} :
          node'[v] = node[v] \/ (Holds(v) /\ Holds(w) /\ wkey[v] = wkey[w])
  BY <1>1, DrainerWrites DEF CordonReturns, CallDrainer
<1>5. PICK next \in {"drain", "done"}, r \in {wres[w], "error", "notFound"} :
          /\ wpc' = [wpc EXCEPT ![w] = next] /\ wres' = [wres EXCEPT ![w] = r]
          /\ next = "done" => r # "ok"
          /\ next = "drain" =>
                 \/ node[w] # "schedulable" /\ UNCHANGED <<node, unsched>>
                 \/ WriteNode(w, TRUE) /\ unsched' = [unsched EXCEPT ![wkey[w]] = TRUE]
  <2>1. wres = [wres EXCEPT ![w] = wres[w]]
    BY DEF IInv, TypeOK
  <2> QED BY <2>1 DEF CordonReturns, CallDrainer, Finish
<1>6. ASSUME Private(cur[w[1]], wkey[w]) PROVE CopyFits(w)'
  <2>1. wpc'[w] = next /\ wres'[w] = r
    BY <1>5 DEF IInv, TypeOK
  <2>2. CopyFits(w)
    BY <1>6 DEF DrainInv
  <2>3. CASE next = "done"
    BY <1>5, <2>1, <2>3 DEF CopyFits
  <2>4. CASE next = "drain" /\ node[w] # "schedulable" /\ UNCHANGED <<node, unsched>>
    BY <1>1, <1>2, <2>1, <2>2, <2>4 DEF CopyFits
  <2>5. CASE next = "drain" /\ WriteNode(w, TRUE) /\ unsched' = [unsched EXCEPT ![wkey[w]] = TRUE]
    <3>1. node'[w] = "unschedulable" /\ unsched'[wkey[w]]
      BY <1>1, <1>2, <2>5, DrainerWrites DEF IInv, TypeOK
    <3> QED BY <1>2, <2>1, <2>5, <3>1 DEF CopyFits
  <2> QED BY <1>5, <2>3, <2>4, <2>5
<1> QED BY <1>1, <1>3, <1>4, <1>5, <1>6, OneWorkerMoves

\* A private node that is still cordoned has a copy that says so.
LEMMA UncordonReturnsKeepsDrain ==
    ASSUME IInv, DrainInv, NEW w \in Workers, UncordonReturns(w)
    PROVE  DrainInv'
<1>1. /\ wpc[w] = "uncordoning" /\ Working(w) /\ Holds(w)
      /\ wkey' = [wkey EXCEPT ![w] = wkey[w]] /\ UNCHANGED cur
  BY DEF UncordonReturns, CallDrainer, Working, Holds, runVars, IInv, TypeOK
<1>2. wkey[w] \in Nodes /\ wkey'[w] = wkey[w]
  BY <1>1, AtWork, UpgradesAssumption DEF IInv, TypeOK, HeldKeys, Matching, Holds, Working
<1>3. unsched' = unsched \/ unsched' = [unsched EXCEPT ![wkey[w]] = FALSE]
  BY DEF UncordonReturns, CallDrainer
<1>4. \A v \in Workers \ {w} :
          node'[v] = node[v] \/ (Holds(v) /\ Holds(w) /\ wkey[v] = wkey[w])
  BY <1>1, DrainerWrites DEF UncordonReturns, CallDrainer
<1>5. PICK r \in {"ok", "error", "notFound"} :
          /\ wpc' = [wpc EXCEPT ![w] = "done"] /\ wres' = [wres EXCEPT ![w] = r]
          /\ r = "ok" => node[w] = "schedulable" \/ unsched' = [unsched EXCEPT ![wkey[w]] = FALSE]
  BY DEF UncordonReturns, CallDrainer, Finish
<1>6. ASSUME Private(cur[w[1]], wkey[w]) PROVE CopyFits(w)'
  <2>1. wpc'[w] = "done" /\ wres'[w] = r
    BY <1>5 DEF IInv, TypeOK
  <2>2. node[w] # "schedulable"
    BY <1>1, <1>6 DEF DrainInv, CopyFits
  <2>3. r = "ok" => ~unsched'[wkey[w]]
    BY <1>2, <1>5, <2>2 DEF IInv, TypeOK
  <2> QED BY <1>2, <2>1, <2>3 DEF CopyFits
<1> QED BY <1>1, <1>3, <1>4, <1>5, <1>6, OneWorkerMoves

LEMMA WorkerKeepsDrain ==
    ASSUME IInv, DrainInv, NEW w \in Workers, WorkerStep(w)
    PROVE  DrainInv'
<1>1. wres = [wres EXCEPT ![w] = wres[w]] /\ wkey = [wkey EXCEPT ![w] = wkey[w]]
  BY DEF IInv, TypeOK
<1>2. CASE WorkerPanics(w)
  BY <1>2 DEF WorkerPanics, Halt, LoseMemory, DrainInv, CopyFits
<1>3. CASE WorkerGets(w)
  <2> DEFINE k == Head(workqueues[cur[w[1]]].queue)
  <2>1. /\ Working(w) /\ wpc' = [wpc EXCEPT ![w] = "cordon"] /\ wres' = [wres EXCEPT ![w] = wres[w]]
        /\ wkey' = [wkey EXCEPT ![w] = k] /\ UNCHANGED <<unsched, node, cur>>
    BY <1>1, <1>3 DEF WorkerGets, Working, clusterVars, runVars
  <2> QED BY <2>1, NothingToShow
<1>4. CASE WorkerShutDown(w)
  <2>1. /\ Working(w) /\ wpc' = [wpc EXCEPT ![w] = "send"] /\ wres' = [wres EXCEPT ![w] = "ok"]
        /\ wkey' = [wkey EXCEPT ![w] = wkey[w]] /\ UNCHANGED <<unsched, node, cur>>
    BY <1>1, <1>4 DEF WorkerShutDown, Working, clusterVars, runVars
  <2> QED BY <2>1, NothingToShow
<1>5. CASE Cordon(w)
  <2>1. /\ wpc[w] = "cordon" /\ Working(w) /\ Holds(w)
        /\ wkey' = [wkey EXCEPT ![w] = wkey[w]] /\ UNCHANGED <<unsched, cur>>
    BY <1>1, <1>5 DEF Cordon, Working, Holds, clusterVars, runVars
  <2>2. CASE Finish(w, "notFound") /\ UNCHANGED node
    BY <2>1, <2>2, NothingToShow DEF Finish
  <2>3. ASSUME NEW copy \in Listed(wkey[w]), node' = [node EXCEPT ![w] = copy],
               wpc' = [wpc EXCEPT ![w] = "cordoning"], UNCHANGED wres
        PROVE  DrainInv'
    <3>1. /\ wpc'[w] = "cordoning" /\ node'[w] = copy /\ wkey'[w] = wkey[w]
          /\ \A v \in Workers \ {w} : node'[v] = node[v]
      BY <2>1, <2>3 DEF IInv, TypeOK
    <3>2. copy \in {"schedulable", "outdated"} \/ unsched[wkey[w]]
      BY <2>3 DEF Listed
    <3>3. CopyFits(w)'
      BY <2>1, <3>1, <3>2 DEF CopyFits
    <3>4. wres' = [wres EXCEPT ![w] = wres[w]]
      BY <1>1, <2>3
    <3> QED BY <2>1, <2>3, <3>1, <3>3, <3>4, OneWorkerMoves
  <2> QED BY <1>5, <2>2, <2>3 DEF Cordon
<1>6. CASE DrainReturns(w)
  <2>1. /\ wpc[w] = "drain" /\ Working(w) /\ Holds(w)
        /\ wkey' = [wkey EXCEPT ![w] = wkey[w]] /\ UNCHANGED <<unsched, cur, node>>
    BY <1>1, <1>6 DEF DrainReturns, Working, Holds, clusterVars, runVars
  <2>2. CASE \E r \in {"error", "notFound"} : Finish(w, r)
    BY <2>1, <2>2, NothingToShow DEF Finish
  <2>3. CASE wpc' = [wpc EXCEPT ![w] = "uncordoning"] /\ UNCHANGED wres
    <3>1. wpc'[w] = "uncordoning" /\ wkey'[w] = wkey[w]
      BY <2>1, <2>3 DEF IInv, TypeOK
    <3>2. Private(cur[w[1]], wkey[w]) => CopyFits(w)'
      BY <2>1, <3>1 DEF DrainInv, CopyFits
    <3> QED BY <1>1, <2>1, <2>3, <3>2, OneWorkerMoves
  <2> QED BY <1>6, <2>2, <2>3, FaultsAssumption DEF DrainReturns, CallFaults
<1>7. CASE WorkerDone(w)
  <2>1. /\ Working(w) /\ wpc' = [wpc EXCEPT ![w] = "send"] /\ wres' = [wres EXCEPT ![w] = wres[w]]
        /\ wkey' = [wkey EXCEPT ![w] = None] /\ node' = [node EXCEPT ![w] = "none"]
        /\ UNCHANGED <<unsched, cur>>
    BY <1>1, <1>7 DEF WorkerDone, Working, clusterVars, runVars
  <2>2. \A v \in Workers \ {w} : node'[v] = node[v]
    BY <2>1 DEF IInv, TypeOK
  <2> QED BY <2>1, <2>2, NothingToShow
<1>8. CASE WorkerSends(w)
  <2>1. /\ Working(w) /\ wpc' = [wpc EXCEPT ![w] = "exit"] /\ wres' = [wres EXCEPT ![w] = wres[w]]
        /\ wkey' = [wkey EXCEPT ![w] = wkey[w]] /\ UNCHANGED <<unsched, node, cur>>
    BY <1>1, <1>8 DEF WorkerSends, Working, clusterVars, runVars
  <2> QED BY <2>1, NothingToShow
<1> QED BY <1>2, <1>3, <1>4, <1>5, <1>6, <1>7, <1>8, CordonReturnsKeepsDrain,
           UncordonReturnsKeepsDrain DEF WorkerStep

LEMMA NextKeepsDrain ==
    ASSUME IInv, DrainInv, [Next]_vars
    PROVE  DrainInv'
<1> USE DEF DrainInv, CopyFits, Private, Matching
<1>1. CASE \E w \in Workers : WorkerStep(w)
  BY <1>1, WorkerKeepsDrain
<1>2. CASE \E p \in Pollers : SpawnWorker(p)
  <2>1. \A w \in Workers : wpc'[w] \in {wpc[w], "get"}
    BY <1>2 DEF SpawnWorker, IInv, TypeOK
  <2> QED BY <1>2, <2>1 DEF SpawnWorker, clusterVars
<1>3. CASE \E p \in Pollers : RecordCompleted(p)
  <2>1. \A w \in Workers : wpc'[w] = "none" \/ (wpc'[w] = wpc[w] /\ wres'[w] = wres[w])
    BY <1>3 DEF RecordCompleted
  <2> QED BY <1>3, <2>1 DEF RecordCompleted
<1>4. CASE \/ \E p \in Pollers : CompletePanics(p)
           \/ Exit \/ Kill
  BY <1>4 DEF CompletePanics, Exit, Kill, Halt, LoseMemory
<1>5. CASE \/ \E p \in Pollers : EnqueueNode(p) \/ RecordStarted(p) \/ SpawnedAll(p)
                                 \/ WaitReturns(p) \/ CollectorStep(p)
           \/ Interrupt \/ ReconcileReturns \/ Restart \/ UNCHANGED vars
  <2>1. UNCHANGED <<workerVars, unsched, cur>>
    BY <1>5 DEF EnqueueNode, RecordStarted, SpawnedAll, WaitReturns, CollectorStep,
       CollectorReceives, CollectorAppends, Interrupt, ReconcileReturns, Restart, vars,
       clusterVars, runVars
  <2> QED BY <2>1 DEF workerVars
<1>6. CASE \E p \in Pollers : StartPoll(p) \/ CheckQueue(p)
  <2>1. PICK p \in Pollers : StartPoll(p) \/ CheckQueue(p)
    BY <1>6
  <2>2. /\ pc[p] \notin {"spawn", "wait"} /\ UNCHANGED <<workerVars, unsched>>
        /\ \A q \in Pollers \ {p} : cur'[q] = cur[q]
    BY <2>1 DEF StartPoll, CheckQueue, clusterVars, IInv, TypeOK
  <2>3. \A w \in Workers : wpc[w] \in {"cordoning", "drain", "uncordoning", "done"} => cur'[w[1]] = cur[w[1]]
    BY <2>2, AtWork DEF Working
  <2> QED BY <2>2, <2>3 DEF workerVars
<1> QED BY <1>1, <1>2, <1>3, <1>4, <1>5, <1>6 DEF Next, RunStep, ProcessStep

LEMMA SpecDrain == Spec => []DrainInv
<1>1. Init => DrainInv
  BY DEF Init, FreshProcess, DrainInv, CopyFits
<1>2. IInv /\ DrainInv /\ [Next]_vars => DrainInv'
  BY NextKeepsDrain
<1> QED BY <1>1, <1>2, SpecInv, PTL DEF Spec

\* Whatever selectors overlap, a node that a single KubeletUpgrade matches is
\* drained only while it is cordoned, unless the copy of it that the lister gave
\* the worker was cordoned and outdated.
THEOREM DrainsCordonedNodes == Spec => []DrainOnlyCordoned
<1>1. DrainInv => DrainOnlyCordoned
  BY DEF DrainInv, CopyFits, DrainOnlyCordoned
<1> QED BY <1>1, SpecDrain, PTL

\* Whatever selectors overlap and whatever copies of nodes the lister gives, a
\* worker whose upgradeKubelet has succeeded leaves a node that a single
\* KubeletUpgrade matches schedulable.
THEOREM SuccessLeavesSchedulable == Spec => []SuccessUncordons
<1>1. DrainInv => SuccessUncordons
  BY DEF DrainInv, CopyFits, SuccessUncordons
<1> QED BY <1>1, SpecDrain, PTL

-----------------------------------------------------------------------------
(* UpgradeRun implements NodeRollout *)

RolloutVars == <<Claims, unsched>>

\* The claims depend on nothing but the workers that hold a key.
LEMMA SameClaims ==
    ASSUME \A w \in Workers : Holds(w)' <=> Holds(w),
           \A w \in Workers : Holds(w) => wkey'[w] = wkey[w] /\ cur'[w[1]] = cur[w[1]]
    PROVE  Claims' = Claims
BY DEF Claims

\* With the process every claim goes, and no node is touched.
LEMMA LostClaims ==
    ASSUME LoseMemory, UNCHANGED unsched
    PROVE  Rollout!Crash
<1>1. Claims' = {}
  BY DEF LoseMemory, Claims, Holds
<1> QED BY <1>1 DEF Rollout!Crash

LEMMA PollerRollsOut ==
    ASSUME IInv, NEW p \in Pollers, StartPoll(p) \/ RunStep(p) \/ CollectorStep(p),
           ~CompletePanics(p)
    PROVE  UNCHANGED RolloutVars
<1>1. UNCHANGED unsched /\ UNCHANGED wkey
  BY DEF StartPoll, RunStep, EnqueueNode, CheckQueue, RecordStarted, SpawnWorker, SpawnedAll,
     WaitReturns, RecordCompleted, CollectorStep, CollectorReceives, CollectorAppends,
     workerVars, clusterVars
<1>2. CASE EnqueueNode(p) \/ RecordStarted(p) \/ SpawnedAll(p) \/ WaitReturns(p) \/ CollectorStep(p)
  <2>1. UNCHANGED <<wpc, cur>>
    BY <1>2 DEF EnqueueNode, RecordStarted, SpawnedAll, WaitReturns, CollectorStep,
       CollectorReceives, CollectorAppends, workerVars, runVars
  <2> QED BY <1>1, <2>1, SameClaims DEF Holds, RolloutVars
<1>3. CASE StartPoll(p) \/ CheckQueue(p)
  <2>1. /\ pc[p] \notin {"spawn", "wait"} /\ UNCHANGED wpc
        /\ \A q \in Pollers \ {p} : cur'[q] = cur[q]
    BY <1>3 DEF StartPoll, CheckQueue, workerVars, IInv, TypeOK
  <2>2. \A w \in Workers : Holds(w) => cur'[w[1]] = cur[w[1]]
    BY <2>1, AtWork DEF Holds, Working
  <2> QED BY <1>1, <2>1, <2>2, SameClaims DEF Holds, RolloutVars
<1>4. CASE SpawnWorker(p)
  <2>1. UNCHANGED cur /\ \A w \in Workers : wpc'[w] = wpc[w] \/ (wpc[w] = "none" /\ wpc'[w] = "get")
    <3>1. RunShape(p) /\ spawned[p] \in Nat
      BY DEF IInv, TypeOK
    <3>2. <<p, spawned[p]>> \in Workers => wpc[<<p, spawned[p]>>] = "none"
      BY <3>1 DEF RunShape
    <3> QED BY <1>4, <3>2 DEF SpawnWorker, IInv, TypeOK
  <2> QED BY <1>1, <2>1, SameClaims DEF Holds, RolloutVars
<1>5. CASE RecordCompleted(p)
  <2>1. /\ pc[p] = "complete"
        /\ \A q \in Pollers \ {p} : cur'[q] = cur[q]
        /\ \A w \in Workers : wpc'[w] = IF w[1] = p THEN "none" ELSE wpc[w]
    BY <1>5 DEF RecordCompleted, IInv, TypeOK
  <2>2. \A w \in Workers : Holds(w) => w[1] # p /\ w[1] \in Pollers
    BY <2>1, AtWork DEF Holds, Working
  <2>3. \A w \in Workers : Holds(w)' <=> Holds(w)
    BY <2>1, <2>2 DEF Holds
  <2> QED BY <1>1, <2>1, <2>2, <2>3, SameClaims DEF RolloutVars
<1> QED BY <1>2, <1>3, <1>4, <1>5 DEF RunStep

\* Get claims the node: no other worker has it for the upgrade, and w has none.
LEMMA GetClaims ==
    ASSUME IInv, NEW w \in Workers, WorkerGets(w)
    PROVE  Rollout!Next
<1> DEFINE u == cur[w[1]]
           q == workqueues[u]
           k == Head(q.queue)
<1>1. /\ wpc[w] = "get" /\ CanGet(q)
      /\ wkey' = [wkey EXCEPT ![w] = k] /\ wpc' = [wpc EXCEPT ![w] = "cordon"]
      /\ UNCHANGED <<cur, unsched>>
  BY DEF WorkerGets, runVars, clusterVars
<1>2. u \in Upgrades /\ w[1] \in Pollers /\ ~Holds(w)
  BY <1>1, AtWork DEF Working, Holds
<1>3. k \in Matching(u) /\ k \notin q.processing
  <2>1. q \in QueueType(Matching(u)) /\ Consistent(q)
    BY <1>2 DEF IInv, QueueKeys, QueueContract
  <2> QED BY <1>1, <2>1, GetKeeps
<1>4. /\ Holds(w)' /\ wkey'[w] = k
      /\ \A v \in Workers \ {w} : (Holds(v)' <=> Holds(v)) /\ wkey'[v] = wkey[v]
  BY <1>1 DEF Holds, IInv, TypeOK
<1>5. Claims' = Claims \cup {<<w, u, k>>}
  BY <1>1, <1>2, <1>4 DEF Claims
<1>6. \A v \in Workers : Holds(v) /\ cur[v[1]] = u => wkey[v] # k
  BY <1>2, <1>3 DEF IInv, QueueContract
<1>7. \A c \in Claims : c[1] # w /\ <<c[2], c[3]>> # <<u, k>>
  BY <1>2, <1>6 DEF Claims
<1>8. k \in Nodes /\ k \in [x \in Upgrades |-> Selected[x] \ ControlPlane][u]
  BY <1>2, <1>3, UpgradesAssumption DEF Matching
<1>9. Rollout!Claim(w, u, k)
  BY <1>1, <1>5, <1>7, <1>8 DEF Rollout!Claim
<1>10. Claims' # Claims
  <2>1. <<w, u, k>> \notin Claims
    BY <1>2 DEF Claims
  <2> QED BY <1>5, <2>1
<1> QED BY <1>2, <1>8, <1>9, <1>10 DEF Rollout!Next

LEMMA DoneReleases ==
    ASSUME IInv, NEW w \in Workers, WorkerDone(w)
    PROVE  Rollout!Next
<1> DEFINE c == <<w, cur[w[1]], wkey[w]>>
<1>1. /\ wpc[w] = "done" /\ wkey' = [wkey EXCEPT ![w] = None] /\ wpc' = [wpc EXCEPT ![w] = "send"]
      /\ UNCHANGED <<cur, unsched>>
  BY DEF WorkerDone, runVars, clusterVars
<1>2. /\ Holds(w) /\ ~Holds(w)'
      /\ \A v \in Workers \ {w} : (Holds(v)' <=> Holds(v)) /\ wkey'[v] = wkey[v]
  BY <1>1 DEF Holds, IInv, TypeOK
<1>3. c \in Claims /\ Claims' = Claims \ {c}
  BY <1>1, <1>2 DEF Claims
<1> QED BY <1>1, <1>3 DEF Rollout!Next, Rollout!Release

\* Cordon and uncordon touch the claimed node only, and keep the claim.
LEMMA DrainerSetsClaimed ==
    ASSUME IInv, NEW w \in Workers, CordonReturns(w) \/ UncordonReturns(w)
    PROVE  Rollout!Next \/ UNCHANGED RolloutVars
<1>1. /\ Holds(w) /\ UNCHANGED <<cur, wkey>>
      /\ \E next \in {"drain", "done"} : wpc' = [wpc EXCEPT ![w] = next]
      /\ \/ UNCHANGED unsched
         \/ \E b \in BOOLEAN : unsched' = [unsched EXCEPT ![wkey[w]] = b]
  BY DEF CordonReturns, UncordonReturns, CallDrainer, Finish, Holds, runVars
<1>2. \A v \in Workers : Holds(v)' <=> Holds(v)
  BY <1>1 DEF Holds, IInv, TypeOK
<1>3. Claims' = Claims
  BY <1>1, <1>2, SameClaims
<1>4. wkey[w] \in Nodes
  BY <1>1, AtWork, UpgradesAssumption DEF IInv, HeldKeys, Matching, Holds, Working
<1>5. <<w, cur[w[1]], wkey[w]>> \in Claims
  BY <1>1 DEF Claims
<1>6. CASE \E b \in BOOLEAN : unsched' = [unsched EXCEPT ![wkey[w]] = b]
  <2>1. \E c \in Claims : c[3] = wkey[w]
    BY <1>5
  <2> QED BY <1>3, <1>4, <1>6, <2>1 DEF Rollout!Next, Rollout!SetUnschedulable
<1> QED BY <1>1, <1>3, <1>6 DEF RolloutVars

LEMMA WorkerRollsOut ==
    ASSUME IInv, NEW w \in Workers, WorkerStep(w), ~WorkerPanics(w)
    PROVE  Rollout!Next \/ UNCHANGED RolloutVars
<1>1. CASE WorkerShutDown(w) \/ Cordon(w) \/ DrainReturns(w) \/ WorkerSends(w)
  <2>1. UNCHANGED <<cur, wkey, unsched>>
    BY <1>1 DEF WorkerShutDown, Cordon, DrainReturns, WorkerSends, runVars, clusterVars
  <2>2. \A v \in Workers : Holds(v)' <=> Holds(v)
    BY <1>1 DEF WorkerShutDown, Cordon, DrainReturns, WorkerSends, Finish, Holds, IInv, TypeOK
  <2> QED BY <2>1, <2>2, SameClaims DEF RolloutVars
<1> QED BY <1>1, GetClaims, DoneReleases, DrainerSetsClaimed DEF WorkerStep

LEMMA NextRollsOut ==
    ASSUME IInv, [Next]_vars
    PROVE  [Rollout!Next]_RolloutVars
<1>1. ASSUME LoseMemory, UNCHANGED unsched
      PROVE  [Rollout!Next]_RolloutVars
  <2>1. Rollout!Crash
    BY <1>1, LostClaims
  <2> QED BY <2>1 DEF Rollout!Crash, Rollout!Next, RolloutVars
<1>2. CASE \E p \in Pollers : CompletePanics(p)
  BY <1>1, <1>2 DEF CompletePanics
<1>3. CASE Exit \/ Kill \/ \E w \in Workers : WorkerPanics(w)
  BY <1>1, <1>3 DEF Exit, Kill, WorkerPanics, Halt, clusterVars
<1>4. CASE Interrupt \/ ReconcileReturns \/ Restart \/ UNCHANGED vars
  <2>1. UNCHANGED <<wpc, wkey, cur, unsched>>
    BY <1>4 DEF Interrupt, ReconcileReturns, Restart, vars, runVars, workerVars, clusterVars
  <2> QED BY <2>1, SameClaims DEF Holds, RolloutVars
<1> QED BY <1>2, <1>3, <1>4, PollerRollsOut, WorkerRollsOut DEF Next, ProcessStep

\* UpgradeRun implements NodeRollout: whatever the goroutines, cancelled contexts
\* and restarts do, a node is worked on by one claimant per upgrade, and only a
\* claimed node is cordoned or uncordoned.
THEOREM ImplementsRollout == Spec => RolloutSpec
<1>1. Init => Rollout!Init
  BY DEF Init, FreshProcess, Rollout!Init, Claims, Holds
<1>2. IInv /\ [Next]_vars => [Rollout!Next]_<<Claims, unsched>>
  BY NextRollsOut DEF RolloutVars
<1> QED BY <1>1, <1>2, SpecInv, PTL DEF Spec, RolloutSpec, Rollout!Spec

=============================================================================
