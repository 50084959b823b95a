------------------------------ MODULE Reconcile ------------------------------
(***************************************************************************)
(* The scheduling half of the kubelet upgrade controller (upgrade/kubelet/ *)
(* pkg/controller/controller.go): KubeletUpgrade objects in the API        *)
(* server, the informer's cache of them, and the two goroutines that poll  *)
(* them, Reconcile's ticker loop and the informer's AddFunc handler.  Each *)
(* call to the API server is one step.  The upgrade of the nodes, modelled *)
(* by UpgradeRun.tla, is one step with an arbitrary result.                *)
(*                                                                         *)
(* A resource version is only ever compared for equality with the stored   *)
(* one, so a copy of an object carries a flag instead: fresh, until the    *)
(* stored object is written again.                                         *)
(***************************************************************************)
EXTENDS KubeletUpgrade

CONSTANTS
    Upgrades,  \* names of KubeletUpgrade objects
    Pollers,   \* goroutines that call poll
    Ticker,    \* the one that runs Reconcile's loop; the others are handlers
    Faults,    \* "error": calls time out, "kill": the process may be killed,
               \* "edit": users change objects after creating them
    None

ASSUME PollersAssumption == Ticker \in Pollers
ASSUME FaultsAssumption == Faults \subseteq {"error", "kill", "edit"}
ASSUME NoneAssumption ==
    None \notin Upgrades /\ None \notin Objects /\ None \notin [o : Objects, fresh : BOOLEAN]

VARIABLES
    api,      \* the stored objects
    cache,    \* the informer's copies
    announce, \* objects whose Add event the informer has not yet seen
    pending,  \* Add notifications waiting for the handler
    synced,   \* HasSynced of both informers
    clock,
    pc, cur, obj, now, \* each poller: where it is, its upgrade, copy and time
    batch,    \* the copies pollSchedules has listed and not yet polled
    failed,   \* the result of the poller's last run of the workers
    proc      \* the controller process

cacheVars == <<cache, announce, pending, synced>>
pollVars  == <<pc, cur, obj, now, failed>>
vars == <<api, cacheVars, clock, pollVars, batch, proc>>

Copies == [o : Objects, fresh : BOOLEAN]
PollPCs == {"idle", "poll", "decide", "start", "startSpec", "nil", "run",
            "complete", "completeSpec", "force"}

TypeOK ==
    /\ api \in [Upgrades -> Objects \cup {None}]
    /\ cache \in [Upgrades -> Copies \cup {None}]
    /\ announce \in [Upgrades -> BOOLEAN]
    /\ pending \in [Upgrades -> Copies \cup {None}]
    /\ synced \in BOOLEAN
    /\ clock \in Times
    /\ pc \in [Pollers -> PollPCs]
    /\ cur \in [Pollers -> Upgrades \cup {None}]
    /\ obj \in [Pollers -> Copies \cup {None}]
    /\ now \in [Pollers -> Times]
    /\ batch \in [Upgrades -> Copies \cup {None}]
    /\ failed \in [Pollers -> BOOLEAN]
    /\ proc \in {"up", "down", "panicked"}

Init ==
    /\ api = [u \in Upgrades |-> None]
    /\ cache = [u \in Upgrades |-> None]
    /\ announce = [u \in Upgrades |-> FALSE]
    /\ pending = [u \in Upgrades |-> None]
    /\ synced = FALSE
    /\ clock = 1
    /\ pc = [p \in Pollers |-> "idle"]
    /\ cur = [p \in Pollers |-> None]
    /\ obj = [p \in Pollers |-> None]
    /\ now = [p \in Pollers |-> 1]
    /\ batch = [u \in Upgrades |-> None]
    /\ failed = [p \in Pollers |-> FALSE]
    /\ proc = "up"

-----------------------------------------------------------------------------
(* The API server *)

Stale(c) == IF c = None THEN None ELSE [c EXCEPT !.fresh = FALSE]

\* The stored object u becomes k: every copy of the old version is outdated.
Store(u, k) ==
    /\ api' = [api EXCEPT ![u] = k]
    /\ cache' = [cache EXCEPT ![u] = Stale(@)]
    /\ pending' = [pending EXCEPT ![u] = Stale(@)]
    /\ batch' = [batch EXCEPT ![u] = Stale(@)]

Outdate(u) == [q \in Pollers |-> IF cur[q] = u THEN Stale(obj[q]) ELSE obj[q]]

\* The server accepts p's write: the object exists in the version p has.
Accepted(p) == api[cur[p]] # None /\ obj[p].fresh

\* The status subresource: labels and spec of the request are ignored.
StatusOf(p, k) == [api[cur[p]] EXCEPT !.next = k.next, !.cond = k.cond]

\* The main resource: the status of the request is ignored.
SpecOf(p, k) == [api[cur[p]] EXCEPT !.sched = k.sched, !.skip = k.skip]

\* p's write of k is stored, or not; c is the copy p continues with.
StoreFrom(p, k, c) ==
    /\ Store(cur[p], k)
    /\ obj' = [Outdate(cur[p]) EXCEPT ![p] = c]

NoStore(p, c) ==
    /\ UNCHANGED <<api, cache, pending, batch>>
    /\ obj' = [obj EXCEPT ![p] = c]

\* A request that changes nothing is not stored.
UpdateStatus(p, k, c) ==
    /\ Accepted(p)
    /\ IF k = obj[p].o THEN NoStore(p, c) ELSE StoreFrom(p, StatusOf(p, k), c)

Update(p, k, c) ==
    /\ Accepted(p)
    /\ IF SpecOf(p, k) = api[cur[p]] THEN NoStore(p, c) ELSE StoreFrom(p, SpecOf(p, k), c)

\* The object a successful call returns.
Returned(k) == [o |-> k, fresh |-> TRUE]

\* A call that returns an error: a conflict or a missing object, which store
\* nothing, or a timeout, after which the write may have taken place.
Fails(p, write) ==
    \/ ~Accepted(p) /\ NoStore(p, None)
    \/ "error" \in Faults /\ (NoStore(p, None) \/ write)

-----------------------------------------------------------------------------
(* Users of the cluster, the clock, the informer *)

CreateUpgrade(u) ==
    /\ api[u] = None /\ pending[u] = None
    /\ \E s \in Schedules \cup {BadSchedule}, b \in BOOLEAN :
        Store(u, [sched |-> s, skip |-> b, next |-> 0, cond |-> "none"])
    /\ obj' = Outdate(u)
    /\ announce' = [announce EXCEPT ![u] = TRUE]
    /\ UNCHANGED <<synced, clock, pc, cur, now, failed, proc>>

DeleteUpgrade(u) ==
    /\ "edit" \in Faults /\ api[u] # None
    /\ Store(u, None)
    /\ obj' = Outdate(u)
    /\ announce' = [announce EXCEPT ![u] = FALSE]
    /\ UNCHANGED <<synced, clock, pc, cur, now, failed, proc>>

\* kubectl label, or a new Spec.Schedule.
EditUpgrade(u) ==
    /\ "edit" \in Faults /\ api[u] # None
    /\ \E s \in Schedules \cup {BadSchedule}, b \in BOOLEAN :
        /\ <<s, b>> # <<api[u].sched, api[u].skip>>
        /\ Store(u, [api[u] EXCEPT !.sched = s, !.skip = b])
    /\ obj' = Outdate(u)
    /\ UNCHANGED <<announce, synced, clock, pc, cur, now, failed, proc>>

ClockAdvances ==
    /\ clock < MaxTime
    /\ clock' = clock + 1
    /\ UNCHANGED <<api, cacheVars, pollVars, batch, proc>>

Cached(u) == IF api[u] = None THEN None ELSE [o |-> api[u], fresh |-> TRUE]

\* The informer catches up with the stored object.  The first time it sees an
\* object it notifies the handler.
CacheCatchesUp(u) ==
    /\ proc = "up" /\ (cache[u] # Cached(u) \/ announce[u])
    /\ cache' = [cache EXCEPT ![u] = Cached(u)]
    /\ pending' = [pending EXCEPT ![u] = IF announce[u] THEN Cached(u) ELSE @]
    /\ announce' = [announce EXCEPT ![u] = FALSE]
    /\ UNCHANGED <<api, synced, clock, pollVars, batch, proc>>

\* Every object of the initial list is in the cache.
CacheSynced ==
    /\ proc = "up" /\ ~synced
    /\ \A u \in Upgrades : ~announce[u]
    /\ synced' = TRUE
    /\ UNCHANGED <<api, cache, announce, pending, clock, pollVars, batch, proc>>

-----------------------------------------------------------------------------
(* pollSchedules, AddFunc, poll *)

\* Mutant of pollSchedules: the requirement on the skip label is inverted.
pollLabelled ==
    /\ proc = "up" /\ synced /\ pc[Ticker] = "idle"
    /\ \A u \in Upgrades : batch[u] = None
    /\ batch' = [u \in Upgrades |->
                    IF cache[u] # None /\ cache[u].o.skip THEN cache[u] ELSE None]
    /\ now' = [now EXCEPT ![Ticker] = clock]
    /\ UNCHANGED <<api, cacheVars, clock, pc, cur, obj, failed, proc>>

\* A tick: list the cached objects that do not have the skip label.  One value
\* of now serves the whole list.
pollSchedules ==
    /\ proc = "up" /\ synced /\ pc[Ticker] = "idle"
    /\ \A u \in Upgrades : batch[u] = None
    /\ batch' = [u \in Upgrades |->
                    IF cache[u] # None /\ ~cache[u].o.skip THEN cache[u] ELSE None]
    /\ now' = [now EXCEPT ![Ticker] = clock]
    /\ UNCHANGED <<api, cacheVars, clock, pc, cur, obj, failed, proc>>

BeginPoll(p, u, c) ==
    /\ pc' = [pc EXCEPT ![p] = "poll"]
    /\ cur' = [cur EXCEPT ![p] = u]
    /\ obj' = [obj EXCEPT ![p] = c]

\* The next iteration of pollSchedules' loop.
PollListed(u) ==
    /\ pc[Ticker] = "idle" /\ batch[u] # None
    /\ BeginPoll(Ticker, u, batch[u])
    /\ batch' = [batch EXCEPT ![u] = None]
    /\ UNCHANGED <<api, cacheVars, clock, now, failed, proc>>

\* AddFunc; before the caches are synced poll returns at once.
AddFunc(p, u) ==
    /\ p # Ticker /\ pc[p] = "idle" /\ pending[u] # None
    /\ pending' = [pending EXCEPT ![u] = None]
    /\ IF synced
       THEN BeginPoll(p, u, pending[u]) /\ now' = [now EXCEPT ![p] = clock]
       ELSE UNCHANGED <<pc, cur, obj, now>>
    /\ UNCHANGED <<api, cache, announce, synced, clock, batch, failed, proc>>

Goto(p, next) == pc' = [pc EXCEPT ![p] = next] /\ UNCHANGED <<cur, now, failed>>

PollReturns(p) ==
    /\ pc' = [pc EXCEPT ![p] = "idle"]
    /\ cur' = [cur EXCEPT ![p] = None]
    /\ failed' = [failed EXCEPT ![p] = FALSE]
    /\ UNCHANGED now

environment == <<announce, synced, clock, proc>>

\* updateNextScheduledTime(upgrade, now, false).
KeepNextTime(p) ==
    /\ pc[p] = "poll" /\ ~NeedsNextTime(obj[p].o, now[p], FALSE)
    /\ Goto(p, "decide")
    /\ NoStore(p, obj[p]) /\ UNCHANGED environment

SetNextTime(p) ==
    LET k == UpdateNextScheduledTime(obj[p].o, now[p]) IN
    /\ pc[p] = "poll" /\ NeedsNextTime(obj[p].o, now[p], FALSE)
    /\ \/ UpdateStatus(p, k, Returned(StatusOf(p, k))) /\ Goto(p, "decide")
       \/ Fails(p, UpdateStatus(p, k, None)) /\ PollReturns(p)
    /\ UNCHANGED environment

\* canUpgrade says no, or there are no nodes to upgrade.
DoNotUpgrade(p) ==
    /\ pc[p] = "decide"
    /\ PollReturns(p)
    /\ NoStore(p, None) /\ UNCHANGED environment

\* Mutant of DoUpgrade: canUpgrade is not asked.
UpgradeAnyway(p) ==
    /\ pc[p] = "decide"
    /\ Goto(p, "start")
    /\ NoStore(p, obj[p]) /\ UNCHANGED environment

DoUpgrade(p) ==
    /\ pc[p] = "decide" /\ canUpgrade(obj[p].o, now[p])
    /\ Goto(p, "start")
    /\ NoStore(p, obj[p]) /\ UNCHANGED environment

-----------------------------------------------------------------------------
(* startUpgrade, recordUpgradeStatus *)

\* Mutant of WriteCondition: the object that UpdateStatus returns is dropped.
KeepRequest(p, k, next) ==
    /\ \/ UpdateStatus(p, k, Returned(k)) /\ Goto(p, next)
       \/ Fails(p, UpdateStatus(p, k, None)) /\ Goto(p, "nil")
    /\ UNCHANGED environment

\* The first call of recordUpgradeStatus: UpdateStatus with the new condition.
\* On an error updatedClone is nil and the upgrade goes on to dereference it.
WriteCondition(p, k, next) ==
    /\ \/ UpdateStatus(p, k, Returned(StatusOf(p, k))) /\ Goto(p, next)
       \/ Fails(p, UpdateStatus(p, k, None)) /\ Goto(p, "nil")
    /\ UNCHANGED environment

\* The second call: Update with the object that the first one returned.
WriteSpec(p, next) ==
    LET k == obj[p].o IN
    /\ \/ Update(p, k, Returned(SpecOf(p, k))) /\ Goto(p, next)
       \/ Fails(p, Update(p, k, None)) /\ Goto(p, "nil")
    /\ UNCHANGED environment

RecordStarted(p) ==
    /\ pc[p] = "start"
    /\ WriteCondition(p, RecordUpgradeStarted(obj[p].o), "startSpec")

StartedSpec(p) == pc[p] = "startSpec" /\ WriteSpec(p, "run")

\* The workers upgrade the nodes, or fail to.
RunWorkers(p) ==
    /\ pc[p] = "run"
    /\ \E f \in BOOLEAN : failed' = [failed EXCEPT ![p] = f]
    /\ pc' = [pc EXCEPT ![p] = "complete"]
    /\ NoStore(p, obj[p]) /\ UNCHANGED <<environment, cur, now>>

RecordCompleted(p) ==
    /\ pc[p] = "complete"
    /\ WriteCondition(p, RecordUpgradeCompleted(obj[p].o, failed[p]), "completeSpec")

CompletedSpec(p) == pc[p] = "completeSpec" /\ WriteSpec(p, "force")

\* updateNextScheduledTime(updatedClone, now, true) with the time of the poll;
\* an error is only logged.
ForceNextTime(p) ==
    LET k == UpdateNextScheduledTime(obj[p].o, now[p]) IN
    /\ pc[p] = "force" /\ NeedsNextTime(obj[p].o, now[p], TRUE)
    /\ UpdateStatus(p, k, None) \/ Fails(p, UpdateStatus(p, k, None))
    /\ PollReturns(p)
    /\ UNCHANGED environment

-----------------------------------------------------------------------------
(* The process *)

Halt(how) ==
    /\ proc' = how
    /\ cache' = [u \in Upgrades |-> None]
    /\ announce' = [u \in Upgrades |-> FALSE]
    /\ pending' = [u \in Upgrades |-> None]
    /\ synced' = FALSE
    /\ pc' = [p \in Pollers |-> "idle"]
    /\ cur' = [p \in Pollers |-> None]
    /\ obj' = [p \in Pollers |-> None]
    /\ now' = [p \in Pollers |-> 1]
    /\ batch' = [u \in Upgrades |-> None]
    /\ failed' = [p \in Pollers |-> FALSE]
    /\ UNCHANGED <<api, clock>>

\* The nil updatedClone is dereferenced.
Panic(p) == pc[p] = "nil" /\ Halt("panicked")

Kill == "kill" \in Faults /\ proc = "up" /\ Halt("down")

\* The new process lists the objects that exist.
Restart ==
    /\ proc # "up"
    /\ proc' = "up"
    /\ announce' = [u \in Upgrades |-> api[u] # None]
    /\ UNCHANGED <<api, cache, pending, synced, clock, pollVars, batch>>

-----------------------------------------------------------------------------
PollStep(p) ==
    \/ KeepNextTime(p) \/ SetNextTime(p) \/ DoNotUpgrade(p) \/ DoUpgrade(p)
    \/ RecordStarted(p) \/ StartedSpec(p) \/ RunWorkers(p) \/ RecordCompleted(p)
    \/ CompletedSpec(p) \/ ForceNextTime(p) \/ Panic(p)

UserStep(u) == CreateUpgrade(u) \/ DeleteUpgrade(u) \/ EditUpgrade(u)

Next ==
    \/ \E u \in Upgrades : UserStep(u) \/ CacheCatchesUp(u) \/ PollListed(u)
    \/ \E p \in Pollers, u \in Upgrades : AddFunc(p, u)
    \/ \E p \in Pollers : PollStep(p)
    \/ ClockAdvances \/ CacheSynced \/ pollSchedules \/ Kill \/ Restart

Spec == Init /\ [][Next]_vars

\* Goroutines run, calls return, the watch delivers, the ticker ticks, and a
\* process that has ended is restarted.
Fairness ==
    /\ WF_vars(pollSchedules) /\ WF_vars(CacheSynced) /\ WF_vars(Restart)
    /\ \A u \in Upgrades : WF_vars(CacheCatchesUp(u)) /\ WF_vars(PollListed(u))
    /\ \A p \in Pollers : WF_vars(PollStep(p)) /\ WF_vars(\E u \in Upgrades : AddFunc(p, u))

FairSpec == Spec /\ Fairness

-----------------------------------------------------------------------------
(* Properties *)

\* A copy whose resource version is still current is the stored object.
CopiesAgree ==
    /\ \A u \in Upgrades : \A c \in {cache[u], pending[u], batch[u]} \ {None} :
           c.fresh => c.o = api[u]
    /\ \A p \in Pollers : obj[p] # None /\ obj[p].fresh => obj[p].o = api[cur[p]]

\* p has started its upgrade, and nobody has written the object since p did.
Owns(p) ==
    /\ pc[p] \in {"startSpec", "run", "complete", "completeSpec", "force"}
    /\ obj[p].fresh

OneOwner == \A p, q \in Pollers : Owns(p) /\ Owns(q) /\ cur[p] = cur[q] => p = q

\* Optimistic concurrency is all that keeps the two pollers, the lagging cache
\* and the users apart: a copy whose resource version is still current, wherever
\* it is held, is the stored object; and of the pollers that run an upgrade at the
\* same time only the last to start can have its outcome stored.
FreshCopiesAgree == CopiesAgree /\ OneOwner

\* When "started" is stored, the stored object is enabled and inside the look-back
\* window of the poll that decided to start it, although the decision was taken
\* on a copy, several steps earlier.  canUpgrade and updateNextScheduledTime both
\* claim the last instant of the window: an upgrade starts there only if it has no
\* other time to wait for, because its schedule does not parse.
StartsDue ==
    [][\A p \in Pollers :
          pc[p] = "start" /\ pc'[p] = "startSpec" =>
              LET k == api[cur[p]] IN
              /\ ~k.skip
              /\ 0 < k.next /\ k.next <= now[p]
              /\ \/ now[p] < k.next + LookBack
                 \/ now[p] = k.next + LookBack /\ k.sched = BadSchedule]_vars

\* With the ticker loop alone and no failure, an upgrade is started again only
\* after the outcome of its previous run has been recorded.
NoOverlap ==
    [][\A p \in Pollers :
          pc[p] = "start" /\ pc'[p] = "startSpec" => api[cur[p]].cond # "started"]_vars

\* The stored object needs a new time, by the rule of updateNextScheduledTime.
Overdue(u) ==
    /\ api[u] # None
    /\ ~api[u].skip /\ api[u].sched # BadSchedule
    /\ NeedsNextTime(api[u], clock, FALSE)

\* An enabled upgrade with a valid schedule never stays without a next time or
\* with an expired one: stale caches, panics after conflicts and restarts only
\* delay the write.
EventuallyRescheduled == \A u \in Upgrades : Overdue(u) ~> ~Overdue(u)

\* Reconcile implements UpgradeLifecycle: behind caches, copies, conflicts and
\* crashes, the stored objects and the clock take its steps and no others.
Lifecycle == INSTANCE UpgradeLifecycle WITH api <- api, clock <- clock
LifecycleSpec == Lifecycle!Spec

(* What a comment of the code says of it. *)

\* "add new label to show upgrade has started".
LabelShowsStarted ==
    \A p \in Pollers : pc[p] = "run" => api[cur[p]].skip

=============================================================================
