----------------------------- MODULE UpgradeRun -----------------------------
(***************************************************************************)
(* One run of a kubelet upgrade inside the controller process, from the    *)
(* moment poll has decided that a KubeletUpgrade is due (upgrade/kubelet/  *)
(* pkg/controller/controller.go): enqueueing the matching nodes, starting  *)
(* the workers, cordon / drain / uncordon of every node, gathering the     *)
(* workers' errors and recording the outcome.                              *)
(*                                                                         *)
(* Pollers are the goroutines that call poll: the ticker loop of Reconcile *)
(* and the informer's AddFunc handler.  They share the work queues, the    *)
(* nodes and the drainer.  Worker <<p, i>> is the goroutine with workerID  *)
(* i of p's current run.  Whether a KubeletUpgrade is due is the subject   *)
(* of Reconcile.tla; here a poll may find it due at any time.              *)
(***************************************************************************)
EXTENDS Workqueue

CONSTANTS
    Pollers,        \* goroutines that call poll
    Ticker,         \* the one of them that runs Reconcile's ticker loop
    Upgrades,       \* names of the KubeletUpgrade objects
    Nodes,          \* names of the cluster's nodes
    Selected,       \* Selected[u]: nodes matched by u.Spec.Selector
    ControlPlane,   \* nodes with a control-plane or master role label
    MaxUnavailable, \* MaxUnavailable[u]: u.Spec.MaxUnavailable
    Faults,         \* ways in which a call to the API server or drainer may fail
                    \* ("error" includes conflicts with writes from outside a run),
                    \* and "kill" if the process may be killed
    None            \* no upgrade, no node, no worker

ASSUME PollersAssumption == Ticker \in Pollers
ASSUME NodesAssumption == IsFiniteSet(Nodes) /\ ControlPlane \subseteq Nodes
ASSUME UpgradesAssumption ==
    /\ Selected \in [Upgrades -> SUBSET Nodes]
    /\ MaxUnavailable \in [Upgrades -> Nat]
ASSUME FaultsAssumption == Faults \subseteq {"error", "notFound", "kill"}
CallFaults == Faults \ {"kill"}
ASSUME NoneAssumption ==
    None \notin Upgrades /\ None \notin Nodes /\ None \notin Pollers \X Nat

\* A run starts at most one worker per queued node: i < Len(queue) <= |Nodes|.
Slots   == 0 .. Cardinality(Nodes) - 1
Workers == Pollers \X Slots

VARIABLES
    workqueues,  \* Controller.workqueues: one queue per upgrade
    pc,          \* where each poller is in poll / startUpgrade
    cur,         \* the upgrade it works on
    todo,        \* nodes enqueueMatchingNodes has listed and not yet added
    spawned,     \* the loop variable i of startUpgrade
    stale,       \* its copy of the upgrade has an old resource version
    nilClone,    \* recording "started" failed: updatedClone is nil
    errChan,     \* startUpgrade's channel, TRUE for a non-nil error
    hand,        \* the collector goroutine holds a received error
    errs,        \* number of errors accumulated in startUpgrade's errs
    notice,      \* for AddFunc: the object of the first list, not yet handled
    wpc, wkey, wres, \* each worker's control state, node and result
    node,        \* Spec.Unschedulable of the *Node that the lister gave it
    drainerCtx,  \* the worker whose context is in c.drainer.Ctx; None if cancelled
    unsched,     \* Spec.Unschedulable of every node, in the API server
    marked,      \* nodes of which an unschedulable version has existed
    condition,   \* status of the last condition recorded for each upgrade
    stop,        \* the stop channel is closed
    proc         \* the controller process

queueVars  == <<workqueues>>
runVars    == <<pc, cur, todo, spawned, stale, nilClone, notice>>
errVars    == <<errChan, hand, errs>>
workerVars == <<wpc, wkey, wres, node>>
clusterVars == <<unsched, marked, condition>>
procVars   == <<stop, proc>>
vars == <<queueVars, runVars, errVars, workerVars, drainerCtx, clusterVars, procVars>>

PollerPCs == {"idle", "enqueue", "record", "spawn", "wait", "complete"}
WorkerPCs == {"none", "get", "cordon", "cordoning", "drain", "uncordoning",
              "done", "send", "exit"}
Alive == proc \in {"up", "stopping"}

\* What a *Node says: "outdated" is unschedulable, of a node that was schedulable
\* in the API server when the worker was given it (a ghost: the code sees no
\* difference).
NodeCopies == {"none", "schedulable", "unschedulable", "outdated"}

TypeOK ==
    /\ workqueues \in [Upgrades -> QueueType(Nodes)]
    /\ pc \in [Pollers -> PollerPCs]
    /\ cur \in [Pollers -> Upgrades \cup {None}]
    /\ todo \in [Pollers -> SUBSET Nodes]
    /\ spawned \in [Pollers -> Nat]
    /\ stale \in [Pollers -> BOOLEAN]
    /\ nilClone \in [Pollers -> BOOLEAN]
    /\ errChan \in [Pollers -> Seq(BOOLEAN)]
    /\ hand \in [Pollers -> BOOLEAN]
    /\ errs \in [Pollers -> Nat]
    /\ notice \in [Upgrades -> {"none", "fresh", "stale"}]
    /\ wpc \in [Workers -> WorkerPCs]
    /\ wkey \in [Workers -> Nodes \cup {None}]
    /\ wres \in [Workers -> {"none", "ok", "error", "notFound"}]
    /\ node \in [Workers -> NodeCopies]
    /\ drainerCtx \in Workers \cup {None}
    /\ unsched \in [Nodes -> BOOLEAN]
    /\ marked \subseteq Nodes
    /\ condition \in [Upgrades -> {"none", "started", "completed", "failed"}]
    /\ stop \in BOOLEAN
    /\ proc \in {"up", "stopping", "down", "panicked"}

\* AddFunc is registered where there is a poller besides the ticker, and is called
\* once for each object of the informer's first list.
FirstNotices == [u \in Upgrades |-> IF Pollers = {Ticker} THEN "none" ELSE "fresh"]

\* The memory of a process that has just started (New).
FreshProcess ==
    /\ workqueues = [u \in Upgrades |-> EmptyQueue]
    /\ pc = [p \in Pollers |-> "idle"]
    /\ cur = [p \in Pollers |-> None]
    /\ todo = [p \in Pollers |-> {}]
    /\ spawned = [p \in Pollers |-> 0]
    /\ stale = [p \in Pollers |-> FALSE]
    /\ nilClone = [p \in Pollers |-> FALSE]
    /\ notice = FirstNotices
    /\ errChan = [p \in Pollers |-> <<>>]
    /\ hand = [p \in Pollers |-> FALSE]
    /\ errs = [p \in Pollers |-> 0]
    /\ wpc = [w \in Workers |-> "none"]
    /\ wkey = [w \in Workers |-> None]
    /\ wres = [w \in Workers |-> "none"]
    /\ node = [w \in Workers |-> "none"]
    /\ drainerCtx = None
    /\ stop = FALSE

Init ==
    /\ FreshProcess
    /\ unsched = [n \in Nodes |-> FALSE]
    /\ marked = {}
    /\ condition = [u \in Upgrades |-> "none"]
    /\ proc = "up"

\* The process ends and its memory with it; only the cluster's state survives.
LoseMemory ==
    /\ workqueues' = [u \in Upgrades |-> EmptyQueue]
    /\ pc' = [p \in Pollers |-> "idle"]
    /\ cur' = [p \in Pollers |-> None]
    /\ todo' = [p \in Pollers |-> {}]
    /\ spawned' = [p \in Pollers |-> 0]
    /\ stale' = [p \in Pollers |-> FALSE]
    /\ nilClone' = [p \in Pollers |-> FALSE]
    /\ notice' = FirstNotices
    /\ errChan' = [p \in Pollers |-> <<>>]
    /\ hand' = [p \in Pollers |-> FALSE]
    /\ errs' = [p \in Pollers |-> 0]
    /\ wpc' = [w \in Workers |-> "none"]
    /\ wkey' = [w \in Workers |-> None]
    /\ wres' = [w \in Workers |-> "none"]
    /\ node' = [w \in Workers |-> "none"]
    /\ drainerCtx' = None
    /\ stop' = FALSE

Halt(how) ==
    /\ proc' = how
    /\ LoseMemory
    /\ UNCHANGED clusterVars

-----------------------------------------------------------------------------
(* poll, enqueueMatchingNodes *)

\* Mutant of Matching: the control-plane nodes are not excluded.
SelectorOnly(u) == Selected[u]

\* Nodes an upgrade may touch: its selector minus labels.ExcludedNodes().
Matching(u) == Selected[u] \ ControlPlane

\* poll has found u due; enqueueMatchingNodes lists the nodes that exist now.
\* The object comes from the informer's cache and may be behind the API server.
\* The one that AddFunc is given is that of the first list: whatever a run has
\* stored since then has left it behind.  After Reconcile has returned only the
\* informer's handler still polls.
StartPoll(p) ==
    /\ Alive /\ pc[p] = "idle"
    /\ p = Ticker => proc = "up"
    /\ \E u \in Upgrades, listed \in SUBSET Nodes, behind \in BOOLEAN :
        /\ listed \subseteq Matching(u)
        /\ \/ p = Ticker /\ UNCHANGED notice
           \/ /\ p # Ticker /\ notice[u] # "none"
              /\ notice[u] = "stale" => behind
              /\ notice' = [notice EXCEPT ![u] = "none"]
        /\ cur' = [cur EXCEPT ![p] = u]
        /\ todo' = [todo EXCEPT ![p] = listed]
        /\ stale' = [stale EXCEPT ![p] = behind]
    /\ pc' = [pc EXCEPT ![p] = "enqueue"]
    /\ UNCHANGED <<queueVars, spawned, nilClone, errVars, workerVars, drainerCtx,
                   clusterVars, procVars>>

\* enqueueNode for one of the listed nodes.
EnqueueNode(p) ==
    /\ pc[p] = "enqueue"
    /\ \E n \in todo[p] :
        /\ workqueues' = [workqueues EXCEPT ![cur[p]] = Add(@, n)]
        /\ todo' = [todo EXCEPT ![p] = @ \ {n}]
    /\ UNCHANGED <<pc, cur, spawned, stale, nilClone, notice, errVars, workerVars, drainerCtx,
                   clusterVars, procVars>>

\* After the last node, "queue is empty; nothing to do": poll returns.  Otherwise
\* it starts the upgrade.
CheckQueue(p) ==
    /\ pc[p] = "enqueue" /\ todo[p] = {}
    /\ IF QLen(workqueues[cur[p]]) = 0
       THEN /\ pc' = [pc EXCEPT ![p] = "idle"]
            /\ cur' = [cur EXCEPT ![p] = None]
            /\ stale' = [stale EXCEPT ![p] = FALSE]
       ELSE /\ pc' = [pc EXCEPT ![p] = "record"]
            /\ UNCHANGED <<cur, stale>>
    /\ UNCHANGED <<queueVars, todo, spawned, nilClone, notice, errVars, workerVars,
                   drainerCtx, clusterVars, procVars>>

-----------------------------------------------------------------------------
(* startUpgrade *)

\* A write that the API server accepts from p: it has the current resource
\* version, and leaves every other copy of the object behind, the one that waits
\* for AddFunc included.
Stored(p, status) ==
    /\ ~stale[p]
    /\ condition' = [condition EXCEPT ![cur[p]] = status]
    /\ stale' = [q \in Pollers |-> stale[q] \/ (q # p /\ cur[q] = cur[p])]
    /\ notice' = [notice EXCEPT ![cur[p]] = IF @ = "none" THEN @ ELSE "stale"]

NotStored == UNCHANGED <<condition, stale, notice>>

\* recordUpgradeStatus(cloned, "started", nil, now): UpdateStatus, then Update.
\* When either fails (a conflict, a timeout) updatedClone is nil; the condition
\* may have been stored all the same.
RecordStarted(p) ==
    /\ pc[p] = "record"
    /\ \/ Stored(p, "started") /\ UNCHANGED nilClone
       \/ /\ stale[p] \/ "error" \in Faults
          /\ Stored(p, "started") \/ NotStored
          /\ nilClone' = [nilClone EXCEPT ![p] = TRUE]
    /\ pc' = [pc EXCEPT ![p] = "spawn"]
    /\ UNCHANGED <<queueVars, cur, todo, spawned, errVars, workerVars, drainerCtx,
                   unsched, marked, procVars>>

\* Mutant of SpawnWorker: i <= queue.Len().
SpawnOneTooMany(p) ==
    /\ pc[p] = "spawn"
    /\ spawned[p] <= QLen(workqueues[cur[p]])
    /\ wpc' = [wpc EXCEPT ![<<p, spawned[p]>>] = "get"]
    /\ spawned' = [spawned EXCEPT ![p] = @ + 1]
    /\ UNCHANGED <<queueVars, pc, cur, todo, stale, nilClone, notice, errVars, wkey,
                   wres, node, drainerCtx, clusterVars, procVars>>

\* One iteration of "for i := 0; i < queue.Len(); i++".
SpawnWorker(p) ==
    /\ pc[p] = "spawn"
    /\ spawned[p] < QLen(workqueues[cur[p]])
    /\ wpc' = [wpc EXCEPT ![<<p, spawned[p]>>] = "get"]
    /\ spawned' = [spawned EXCEPT ![p] = @ + 1]
    /\ UNCHANGED <<queueVars, pc, cur, todo, stale, nilClone, notice, errVars, wkey,
                   wres, node, drainerCtx, clusterVars, procVars>>

SpawnedAll(p) ==
    /\ pc[p] = "spawn"
    /\ spawned[p] >= QLen(workqueues[cur[p]])
    /\ pc' = [pc EXCEPT ![p] = "wait"]
    /\ UNCHANGED <<queueVars, cur, todo, spawned, stale, nilClone, notice, errVars,
                   workerVars, drainerCtx, clusterVars, procVars>>

\* wg.Wait() returns and errChan is closed; the collector still drains it.
WaitReturns(p) ==
    /\ pc[p] = "wait"
    /\ \A w \in Workers : w[1] = p => wpc[w] \in {"none", "exit"}
    /\ pc' = [pc EXCEPT ![p] = "complete"]
    /\ UNCHANGED <<queueVars, cur, todo, spawned, stale, nilClone, notice, errVars,
                   workerVars, drainerCtx, clusterVars, procVars>>

\* Mutant of Outcome: the error's text where the status belongs.
OutcomeText(p) == IF errs[p] > 0 THEN "error" ELSE "completed"

\* RecordUpgradeCompleted's condition for the value of errs that was read.
Outcome(p) == IF errs[p] > 0 THEN "failed" ELSE "completed"

\* The deferred recordUpgradeStatus(updatedClone, "completed", errs, endTime),
\* after which poll returns and the run's goroutine state is garbage.
RecordCompleted(p) ==
    /\ pc[p] = "complete" /\ ~nilClone[p]
    /\ Stored(p, Outcome(p))
    /\ pc' = [pc EXCEPT ![p] = "idle"]
    /\ cur' = [cur EXCEPT ![p] = None]
    /\ spawned' = [spawned EXCEPT ![p] = 0]
    /\ errChan' = [errChan EXCEPT ![p] = <<>>]
    /\ hand' = [hand EXCEPT ![p] = FALSE]
    /\ errs' = [errs EXCEPT ![p] = 0]
    /\ wpc' = [w \in Workers |-> IF w[1] = p THEN "none" ELSE wpc[w]]
    /\ wres' = [w \in Workers |-> IF w[1] = p THEN "none" ELSE wres[w]]
    /\ UNCHANGED <<queueVars, todo, nilClone, wkey, node, drainerCtx, unsched, marked,
                   procVars>>

\* updatedClone is nil: recordUpgradeStatus returned an error (its log line
\* calls updatedClone.GetName()), or "started" had failed before.
CompletePanics(p) ==
    /\ pc[p] = "complete"
    /\ nilClone[p] \/ stale[p] \/ "error" \in Faults
    /\ proc' = "panicked"
    /\ LoseMemory
    /\ \/ UNCHANGED condition
       \/ ~nilClone[p] /\ ~stale[p] /\ condition' = [condition EXCEPT ![cur[p]] = Outcome(p)]
    /\ UNCHANGED <<unsched, marked>>

\* The goroutine that ranges over errChan: a receive, then the append to errs.
CollectorReceives(p) ==
    /\ errChan[p] # <<>> /\ ~hand[p]
    /\ hand' = [hand EXCEPT ![p] = Head(errChan[p])]
    /\ errChan' = [errChan EXCEPT ![p] = Tail(@)]
    /\ UNCHANGED <<queueVars, runVars, errs, workerVars, drainerCtx, clusterVars,
                   procVars>>

\* Mutant of CollectorAppends: only the last error is kept.
CollectorOverwrites(p) ==
    /\ hand[p]
    /\ errs' = [errs EXCEPT ![p] = 1]
    /\ hand' = [hand EXCEPT ![p] = FALSE]
    /\ UNCHANGED <<queueVars, runVars, errChan, workerVars, drainerCtx, clusterVars,
                   procVars>>

CollectorAppends(p) ==
    /\ hand[p]
    /\ errs' = [errs EXCEPT ![p] = @ + 1]
    /\ hand' = [hand EXCEPT ![p] = FALSE]
    /\ UNCHANGED <<queueVars, runVars, errChan, workerVars, drainerCtx, clusterVars,
                   procVars>>

-----------------------------------------------------------------------------
(* runWorker, upgradeKubelet *)

\* c.queue(nil) dereferences the nil updatedClone.
WorkerPanics(w) ==
    /\ wpc[w] = "get" /\ nilClone[w[1]]
    /\ Halt("panicked")

WorkerGets(w) ==
    LET u == cur[w[1]] IN
    /\ wpc[w] = "get" /\ ~nilClone[w[1]]
    /\ CanGet(workqueues[u])
    /\ wkey' = [wkey EXCEPT ![w] = Head(workqueues[u].queue)]
    /\ workqueues' = [workqueues EXCEPT ![u] = Get(@)]
    /\ wpc' = [wpc EXCEPT ![w] = "cordon"]
    /\ UNCHANGED <<runVars, errVars, wres, node, drainerCtx, clusterVars, procVars>>

WorkerShutDown(w) ==
    /\ wpc[w] = "get" /\ ~nilClone[w[1]]
    /\ GetShutdown(workqueues[cur[w[1]]])
    /\ wpc' = [wpc EXCEPT ![w] = "send"]
    /\ wres' = [wres EXCEPT ![w] = "ok"]
    /\ UNCHANGED <<queueVars, runVars, errVars, wkey, node, drainerCtx, clusterVars,
                   procVars>>

\* upgradeKubelet returns with result r.
Finish(w, r) ==
    /\ wpc' = [wpc EXCEPT ![w] = "done"]
    /\ wres' = [wres EXCEPT ![w] = r]

\* What the lister's copy of node n may say.  The cache lags behind the API server,
\* and its objects are shared: a drainer has written into them.  So a node of which
\* an unschedulable version has existed, in either, may show it again or still.
Listed(n) ==
    {"schedulable"} \cup
    (IF n \in marked THEN {IF unsched[n] THEN "unschedulable" ELSE "outdated"} ELSE {})

\* Nodes().Lister().Get(name), then cordonNode stores its context in the drainer.
Cordon(w) ==
    /\ wpc[w] = "cordon"
    /\ \/ /\ "notFound" \in Faults
          /\ Finish(w, "notFound")
          /\ UNCHANGED <<node, drainerCtx>>
       \/ /\ drainerCtx' = w
          /\ \E copy \in Listed(wkey[w]) : node' = [node EXCEPT ![w] = copy]
          /\ wpc' = [wpc EXCEPT ![w] = "cordoning"]
          /\ UNCHANGED wres
    /\ UNCHANGED <<queueVars, runVars, errVars, wkey, clusterVars, procVars>>

\* The deferred cancel of cordonNode and uncordonNode.
CancelContext(w) == drainerCtx' = IF drainerCtx = w THEN None ELSE drainerCtx

\* w's *Node, and that of whoever has got the same object of the node from the
\* cache, says desired.
WriteNode(w, desired) ==
    LET others == {v \in Workers \ {w} :
                      /\ wpc[v] \in {"cordoning", "drain", "uncordoning"}
                      /\ wkey[v] = wkey[w]} IN
    /\ \E same \in SUBSET others :
          node' = [v \in Workers |->
                      IF v \notin same \cup {w} THEN node[v]
                      ELSE IF desired THEN "unschedulable" ELSE "schedulable"]
    /\ marked' = IF desired THEN marked \cup {wkey[w]} ELSE marked

\* drain.RunCordonOrUncordon(c.drainer, node, desired) makes no request if the
\* object it is given says desired.  Otherwise it writes desired into the object and
\* sends the difference; with a cancelled context that fails, and a call that fails
\* may still have been carried out by the server.
CallDrainer(w, desired, next) ==
    /\ \/ /\ desired = (node[w] # "schedulable")
          /\ next
          /\ UNCHANGED <<node, unsched, marked>>
       \/ /\ desired = (node[w] = "schedulable")
          /\ WriteNode(w, desired)
          /\ \/ /\ drainerCtx # None
                /\ unsched' = [unsched EXCEPT ![wkey[w]] = desired]
                /\ next
             \/ /\ "error" \in Faults \/ drainerCtx = None
                /\ \/ UNCHANGED unsched
                   \/ /\ drainerCtx # None
                      /\ unsched' = [unsched EXCEPT ![wkey[w]] = desired]
                /\ Finish(w, "error")
             \/ /\ "notFound" \in Faults /\ drainerCtx # None
                /\ UNCHANGED unsched
                /\ Finish(w, "notFound")
    /\ CancelContext(w)
    /\ UNCHANGED <<queueVars, runVars, errVars, wkey, condition, procVars>>

\* Mutant of CordonReturns: the error is ignored.
CordonIgnoresError(w) ==
    /\ wpc[w] = "cordoning"
    /\ \/ /\ node[w] # "schedulable"
          /\ UNCHANGED <<node, unsched, marked>>
       \/ /\ node[w] = "schedulable"
          /\ WriteNode(w, TRUE)
          /\ \/ drainerCtx # None /\ unsched' = [unsched EXCEPT ![wkey[w]] = TRUE]
             \/ /\ "error" \in Faults \/ drainerCtx = None
                /\ UNCHANGED unsched
    /\ wpc' = [wpc EXCEPT ![w] = "drain"]
    /\ CancelContext(w)
    /\ UNCHANGED <<queueVars, runVars, errVars, wkey, wres, condition, procVars>>

CordonReturns(w) ==
    /\ wpc[w] = "cordoning"
    /\ CallDrainer(w, TRUE, wpc' = [wpc EXCEPT ![w] = "drain"] /\ UNCHANGED wres)

\* Mutant of DrainReturns: uncordonNode reuses the context of cordonNode.
UncordonWithOldContext(w) ==
    /\ wpc[w] = "drain"
    /\ \/ /\ wpc' = [wpc EXCEPT ![w] = "uncordoning"]
          /\ UNCHANGED wres
       \/ \E r \in CallFaults : Finish(w, r)
    /\ UNCHANGED <<queueVars, runVars, errVars, wkey, node, drainerCtx, clusterVars,
                   procVars>>

\* drain.RunNodeDrain, then uncordonNode stores its context in the drainer.  The
\* context of cordonNode is cancelled by now, and unless another worker's has
\* taken its place the drain may fail for that alone.
DrainReturns(w) ==
    /\ wpc[w] = "drain"
    /\ \/ /\ drainerCtx' = w
          /\ wpc' = [wpc EXCEPT ![w] = "uncordoning"]
          /\ UNCHANGED wres
       \/ /\ \E r \in CallFaults \cup (IF drainerCtx = None THEN {"error"} ELSE {}) : Finish(w, r)
          /\ UNCHANGED drainerCtx
    /\ UNCHANGED <<queueVars, runVars, errVars, wkey, node, clusterVars, procVars>>

\* Mutant of UncordonReturns: the wrong value of desired.
CordonsAgain(w) ==
    /\ wpc[w] = "uncordoning"
    /\ CallDrainer(w, TRUE, Finish(w, "ok"))

UncordonReturns(w) ==
    /\ wpc[w] = "uncordoning"
    /\ CallDrainer(w, FALSE, Finish(w, "ok"))

\* Mutant of WorkerDone: Done is never called.
WorkerForgetsDone(w) ==
    /\ wpc[w] = "done"
    /\ wkey' = [wkey EXCEPT ![w] = None]
    /\ node' = [node EXCEPT ![w] = "none"]
    /\ wpc' = [wpc EXCEPT ![w] = "send"]
    /\ UNCHANGED <<queueVars, runVars, errVars, wres, drainerCtx, clusterVars, procVars>>

\* The deferred queue.Done(obj) of runWorker.
WorkerDone(w) ==
    /\ wpc[w] = "done"
    /\ workqueues' = [workqueues EXCEPT ![cur[w[1]]] = Done(@, wkey[w])]
    /\ wkey' = [wkey EXCEPT ![w] = None]
    /\ node' = [node EXCEPT ![w] = "none"]
    /\ wpc' = [wpc EXCEPT ![w] = "send"]
    /\ UNCHANGED <<runVars, errVars, wres, drainerCtx, clusterVars, procVars>>

\* runWorker returns nil for a node that no longer exists.
Failed(w) == wres[w] = "error"

\* Mutant of WorkerSends: nobody receives while the workers run.
WorkerSendsBuffered(w) ==
    LET p == w[1] IN
    /\ wpc[w] = "send"
    /\ Len(errChan[p]) < MaxUnavailable[cur[p]]
    /\ errChan' = [errChan EXCEPT ![p] = Append(@, Failed(w))]
    /\ wpc' = [wpc EXCEPT ![w] = "exit"]
    /\ UNCHANGED <<queueVars, runVars, hand, errs, wkey, wres, node, drainerCtx,
                   clusterVars, procVars>>

\* "errChan <- c.runWorker(...)" and wg.Done(): into the buffer of capacity
\* MaxUnavailable, or straight to the collector when the channel has none.
WorkerSends(w) ==
    LET p == w[1] IN
    /\ wpc[w] = "send"
    /\ \/ /\ Len(errChan[p]) < MaxUnavailable[cur[p]]
          /\ errChan' = [errChan EXCEPT ![p] = Append(@, Failed(w))]
          /\ UNCHANGED hand
       \/ /\ MaxUnavailable[cur[p]] = 0 /\ ~hand[p]
          /\ hand' = [hand EXCEPT ![p] = Failed(w)]
          /\ UNCHANGED errChan
    /\ wpc' = [wpc EXCEPT ![w] = "exit"]
    /\ UNCHANGED <<queueVars, runVars, errs, wkey, wres, node, drainerCtx,
                   clusterVars, procVars>>

-----------------------------------------------------------------------------
(* Reconcile, main *)

\* handleSignal closes the stop channel.
Interrupt ==
    /\ proc = "up" /\ ~stop
    /\ stop' = TRUE
    /\ UNCHANGED <<queueVars, runVars, errVars, workerVars, drainerCtx, clusterVars, proc>>

\* Mutant of ReconcileReturns: the break leaves the select and not the loop.
BreakWithoutLabel ==
    /\ proc = "up" /\ stop /\ pc[Ticker] = "idle"
    /\ UNCHANGED vars

\* The select of Reconcile takes the stop case; the deferred function shuts
\* every queue down.
ReconcileReturns ==
    /\ proc = "up" /\ stop /\ pc[Ticker] = "idle"
    /\ proc' = "stopping"
    /\ workqueues' = [u \in Upgrades |-> ShutDown(workqueues[u])]
    /\ UNCHANGED <<runVars, errVars, workerVars, drainerCtx, clusterVars, stop>>

\* main returns, whatever the handler's goroutines are doing.
Exit == proc = "stopping" /\ Halt("down")

\* Only os.Interrupt is handled: any other signal ends the process at once.
Kill == "kill" \in Faults /\ proc = "up" /\ Halt("down")

Restart ==
    /\ ~Alive
    /\ proc' = "up"
    /\ UNCHANGED <<queueVars, runVars, errVars, workerVars, drainerCtx, clusterVars, stop>>

-----------------------------------------------------------------------------
RunStep(p) ==
    \/ EnqueueNode(p) \/ CheckQueue(p) \/ RecordStarted(p)
    \/ SpawnWorker(p) \/ SpawnedAll(p) \/ WaitReturns(p) \/ RecordCompleted(p)
    \/ CompletePanics(p)

CollectorStep(p) == CollectorReceives(p) \/ CollectorAppends(p)

WorkerStep(w) ==
    \/ WorkerPanics(w) \/ WorkerGets(w) \/ WorkerShutDown(w) \/ Cordon(w)
    \/ CordonReturns(w) \/ DrainReturns(w) \/ UncordonReturns(w) \/ WorkerDone(w)
    \/ WorkerSends(w)

ProcessStep == Interrupt \/ ReconcileReturns \/ Exit \/ Kill \/ Restart

Next ==
    \/ \E p \in Pollers : StartPoll(p) \/ RunStep(p) \/ CollectorStep(p)
    \/ \E w \in Workers : WorkerStep(w)
    \/ ProcessStep

Spec == Init /\ [][Next]_vars

\* Every goroutine that can run is eventually run, every call returns (each has
\* a timeout), and a select that keeps finding the stop channel closed takes
\* that case in the end (Go chooses at random among the ready cases).
Fairness ==
    /\ \A p \in Pollers : WF_vars(RunStep(p)) /\ WF_vars(CollectorStep(p))
    /\ \A w \in Workers : WF_vars(WorkerStep(w))
    /\ SF_vars(ReconcileReturns)

FairSpec == Spec /\ Fairness

-----------------------------------------------------------------------------
(* Properties *)

\* Worker w holds a key of its upgrade's queue (between Get and Done).
Holds(w) == wpc[w] \in {"cordon", "cordoning", "drain", "uncordoning", "done"}

\* The queues keep their contract under any interleaving of pollers and workers,
\* and the processing set is exactly the keys that workers hold: no key is lost,
\* queued twice, or marked as processing with nobody working on it.
QueueContract ==
    \A u \in Upgrades :
        /\ Consistent(workqueues[u])
        /\ workqueues[u].processing =
               {wkey[w] : w \in {v \in Workers : Holds(v) /\ cur[v[1]] = u}}

\* Two workers never upgrade the same node for the same KubeletUpgrade, even when
\* the ticker and the informer's handler run that upgrade at the same time.
NodeExclusive ==
    \A v, w \in Workers :
        /\ Holds(v) /\ Holds(w)
        /\ cur[v[1]] = cur[w[1]] /\ wkey[v] = wkey[w]
        => v = w

\* No other upgrade's selector matches n: nobody but u's workers touches it.
Private(u, n) == \A v \in Upgrades \ {u} : n \notin Matching(v)

\* upgradeKubelet drains a node only while the node is cordoned, so evicted pods
\* cannot come back to it: for every node that a single upgrade matches, also while
\* another upgrade with an overlapping selector runs, and whatever has failed or
\* crashed before.  The one exception is a copy from the lister that says it is
\* cordoned already when it is not: cordonNode believes it and sends no request.
DrainOnlyCordoned ==
    \A w \in Workers :
        wpc[w] = "drain" /\ node[w] # "outdated" /\ Private(cur[w[1]], wkey[w])
        => unsched[wkey[w]]

\* A worker whose upgradeKubelet succeeded leaves its node schedulable, if no
\* other upgrade matches the node, although uncordonNode decides on the same copy
\* of the node that cordonNode was given.
SuccessUncordons ==
    \A w \in Workers :
        wpc[w] = "done" /\ wres[w] = "ok" /\ Private(cur[w[1]], wkey[w])
        => ~unsched[wkey[w]]

\* The exclusion of control-plane nodes (labels.ExcludedNodes) reaches as far as
\* the cluster: none is ever cordoned, whatever the selector matches.
ControlPlaneUntouched == \A n \in ControlPlane : ~unsched[n]

\* Workers blocked in, or about to call, queue.Get.
Waiting(u) == {w \in Workers : wpc[w] = "get" /\ cur[w[1]] = u}

KeyForEach == \A u \in Upgrades : Cardinality(Waiting(u)) <= QLen(workqueues[u])

AtMostHalfLeft ==
    \A p \in Pollers : pc[p] \in {"wait", "complete"} => QLen(workqueues[cur[p]]) <= spawned[p]

\* The loop of startUpgrade compares i with the length of a queue that its workers
\* are emptying.  With a single poller there is a queued key for every worker that
\* is about to call Get, and the nodes that the run leaves behind in the queue are
\* not more than those for which it has started a worker.
WorkersHaveKeys == KeyForEach /\ AtMostHalfLeft

FailuresSent(p) == {w \in Workers : w[1] = p /\ wpc[w] = "exit" /\ Failed(w)}
Buffered(p) == {i \in DOMAIN errChan[p] : errChan[p][i]}

\* No error of a worker vanishes between runWorker and errs: each one sent is
\* accumulated, in the collector's hand, or still in the channel's buffer.
ErrorsAccounted ==
    \A p \in Pollers :
        Cardinality(FailuresSent(p)) =
            errs[p] + (IF hand[p] THEN 1 ELSE 0) + Cardinality(Buffered(p))

\* Of the workers' calls only another worker can cancel the context: in a run
\* that starts a single worker, cordonNode and uncordonNode each run with a live
\* context of their own.
OwnContext ==
    \A w \in Workers :
        /\ wpc[w] \in {"cordoning", "uncordoning"}
        /\ \A v \in Workers \ {w} : wpc[v] = "none"
        => drainerCtx = w

\* With a single poller startUpgrade returns to poll, unless the process ends.
RunReturns ==
    \A p \in Pollers : pc[p] # "idle" ~> (pc[p] = "idle" \/ ~Alive)

\* "It will block until stop is closed": once stop is closed Reconcile returns.
StopHonoured == stop ~> proc # "up"

\* Which worker works on which node for which upgrade.
Claims == {<<w, cur[w[1]], wkey[w]>> : w \in {v \in Workers : Holds(v)}}

\* Queues, pollers, workers, cancelled contexts, crashes and restarts together
\* are a rollout in which nobody works on a claimed node for the same upgrade,
\* and only a claimed node is cordoned or uncordoned.
Rollout == INSTANCE NodeRollout WITH
    Managed <- [u \in Upgrades |-> Selected[u] \ ControlPlane],
    claims  <- Claims,
    unsched <- unsched
RolloutSpec == Rollout!Spec

(* What comments of the code say of it. *)

\* "It will block until stop is closed": with stop closed Reconcile returns, or
\* there is a goroutine with a step to take, for whose run Reconcile's loop may
\* have to wait.
StopIsNoticed ==
    stop /\ proc = "up" =>
        ENABLED (\/ ReconcileReturns
                 \/ \E p \in Pollers : StartPoll(p) \/ RunStep(p) \/ CollectorStep(p)
                 \/ \E w \in Workers : WorkerStep(w))

\* "gather errors from all the workers": a run with a failed worker is recorded
\* as failed.
GathersErrors ==
    [][\A p \in Pollers :
          pc[p] = "complete" /\ pc'[p] = "idle" /\ FailuresSent(p) # {} /\ proc' = proc
          => condition'[cur[p]] = "failed"]_vars

=============================================================================
