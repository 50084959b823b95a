--------------------------- MODULE ReconcileProofs ---------------------------
(***************************************************************************)
(* Proofs about Reconcile, for any number of pollers and upgrades, any     *)
(* schedules and any combination of faults: the type invariant, that fresh *)
(* copies agree with the stored objects, that upgrades start when they are *)
(* due and, with one poller and no failure, do not overlap, and that       *)
(* Reconcile implements UpgradeLifecycle.                                  *)
(***************************************************************************)
EXTENDS Reconcile, TLAPS

Begun     == {"start", "startSpec", "run", "complete", "completeSpec", "force"}
Recording == {"startSpec", "run", "complete"}

\* updateNextScheduledTime leaves nothing to do for k at time t.
Renewed(k, t) == k.sched = BadSchedule \/ ~NeedsNextTime(k, t, FALSE)

\* What a poller knows at each point of poll and startUpgrade.
PollerKnows(p) ==
    /\ pc[p] # "idle" => cur[p] \in Upgrades
    /\ pc[p] = "idle" => obj[p] = None
    /\ pc[p] \notin {"idle", "nil"} => obj[p] \in Copies
    /\ now[p] <= clock
    /\ pc[p] \in {"decide", "start"} => Renewed(obj[p].o, now[p])
    /\ pc[p] = "start" => canUpgrade(obj[p].o, now[p])
    /\ pc[p] \in Begun => obj[p].o.next <= now[p]
    /\ pc[p] \in Recording => obj[p].o.cond = "started"

\* The inductive invariant.
IInv ==
    /\ TypeOK
    /\ CopiesAgree
    /\ \A p \in Pollers : PollerKnows(p)

\* Marking a copy as outdated keeps everything but its freshness.
LEMMA StaleCopy ==
    ASSUME NEW c \in Copies \cup {None}
    PROVE  /\ Stale(c) \in Copies \cup {None}
           /\ c = None <=> Stale(c) = None
           /\ c # None => Stale(c) \in Copies /\ Stale(c).o = c.o /\ ~Stale(c).fresh
BY NoneAssumption DEF Stale, Copies

\* A new value of the stored object leaves no fresh copy of the old one.
LEMMA StoreAgrees ==
    ASSUME IInv, NEW u \in Upgrades, NEW k \in Objects \cup {None}, Store(u, k)
    PROVE  /\ api' \in [Upgrades -> Objects \cup {None}]
           /\ cache' \in [Upgrades -> Copies \cup {None}]
           /\ pending' \in [Upgrades -> Copies \cup {None}]
           /\ batch' \in [Upgrades -> Copies \cup {None}]
           /\ api'[u] = k
           /\ \A v \in Upgrades : \A c \in {cache'[v], pending'[v], batch'[v]} \ {None} :
                  c.fresh => c.o = api'[v]
<1> USE DEF IInv, TypeOK, CopiesAgree, Store
<1>1. /\ api' \in [Upgrades -> Objects \cup {None}]
      /\ api'[u] = k
  OBVIOUS
<1>2. /\ cache' \in [Upgrades -> Copies \cup {None}]
      /\ pending' \in [Upgrades -> Copies \cup {None}]
      /\ batch' \in [Upgrades -> Copies \cup {None}]
  BY StaleCopy
<1>3. ASSUME NEW v \in Upgrades, NEW c \in {cache'[v], pending'[v], batch'[v]} \ {None}, c.fresh
      PROVE  c.o = api'[v]
  <2>1. CASE v = u
    <3>1. c \in {Stale(cache[u]), Stale(pending[u]), Stale(batch[u])}
      BY <2>1, <1>3
    <3> QED BY <3>1, <1>3, StaleCopy
  <2>2. CASE v # u
    <3>1. c \in {cache[v], pending[v], batch[v]} \ {None} /\ api'[v] = api[v]
      BY <2>2, <1>3
    <3> QED BY <3>1, <1>3
  <2> QED BY <2>1, <2>2
<1> QED BY <1>1, <1>2, <1>3

\* What a write does to the pollers' copies.
LEMMA OutdateAgrees ==
    ASSUME IInv, NEW u \in Upgrades
    PROVE  /\ Outdate(u) \in [Pollers -> Copies \cup {None}]
           /\ \A q \in Pollers :
                /\ obj[q] = None <=> Outdate(u)[q] = None
                /\ obj[q] # None => Outdate(u)[q].o = obj[q].o
                /\ Outdate(u)[q] # None /\ Outdate(u)[q].fresh =>
                       Outdate(u)[q] = obj[q] /\ cur[q] # u
<1> USE DEF IInv, TypeOK
<1>1. \A q \in Pollers : obj[q] \in Copies \cup {None}
  OBVIOUS
<1> QED BY <1>1, StaleCopy DEF Outdate

-----------------------------------------------------------------------------
(* The objects that are computed, and the calls *)

\* The methods of KubeletUpgrade return well-formed objects; a next time that is
\* computed lies after now.
LEMMA Computed ==
    ASSUME NEW k \in Objects, NEW t \in Times, NEW b \in BOOLEAN
    PROVE  /\ UpdateNextScheduledTime(k, t) \in Objects
           /\ UpdateNextScheduledTime(k, t) = [k EXCEPT !.next = UpdateNextScheduledTime(k, t).next]
           /\ UpdateNextScheduledTime(k, t) = k \/ UpdateNextScheduledTime(k, t).next > t
           /\ Renewed(UpdateNextScheduledTime(k, t), t)
           /\ RecordUpgradeStarted(k) \in Objects
           /\ RecordUpgradeStarted(k).next = k.next
           /\ RecordUpgradeStarted(k).cond = "started"
           /\ RecordUpgradeCompleted(k, b) \in Objects
           /\ RecordUpgradeCompleted(k, b).next = k.next
           /\ RecordUpgradeCompleted(k, b).cond \in {"completed", "failed"}
<1>1. k.sched # BadSchedule => CronNext[k.sched][t] \in Nat /\ CronNext[k.sched][t] > t
  BY CronAssumption DEF Objects
<1>2. /\ UpdateNextScheduledTime(k, t) \in Objects
      /\ UpdateNextScheduledTime(k, t) = [k EXCEPT !.next = UpdateNextScheduledTime(k, t).next]
      /\ UpdateNextScheduledTime(k, t) = k \/ UpdateNextScheduledTime(k, t).next > t
  BY <1>1 DEF Objects, UpdateNextScheduledTime
<1>3. /\ RecordUpgradeStarted(k) \in Objects
      /\ RecordUpgradeStarted(k).next = k.next
      /\ RecordUpgradeStarted(k).cond = "started"
  BY DEF Objects, Conditions, RecordUpgradeStarted
<1>4. /\ RecordUpgradeCompleted(k, b) \in Objects
      /\ RecordUpgradeCompleted(k, b).next = k.next
      /\ RecordUpgradeCompleted(k, b).cond \in {"completed", "failed"}
  BY DEF Objects, Conditions, RecordUpgradeCompleted
<1>5. Renewed(UpdateNextScheduledTime(k, t), t)
  BY <1>1, TimeAssumption DEF Objects, Times, UpdateNextScheduledTime, Renewed, NeedsNextTime
<1> QED BY <1>2, <1>3, <1>4, <1>5

\* A poller whose write is accepted holds the stored object; the server stores
\* the status of the request, and leaves the object alone on the second call.
LEMMA AcceptedWrite ==
    ASSUME IInv, NEW p \in Pollers, pc[p] \notin {"idle", "nil"}, Accepted(p), NEW k \in Objects
    PROVE  /\ obj[p].o = api[cur[p]] /\ api[cur[p]] \in Objects
           /\ StatusOf(p, k) \in Objects
           /\ StatusOf(p, k).next = k.next /\ StatusOf(p, k).cond = k.cond
           /\ StatusOf(p, k) = [obj[p].o EXCEPT !.next = k.next, !.cond = k.cond]
           /\ SpecOf(p, obj[p].o) = api[cur[p]]
<1>1. obj[p] \in Copies /\ cur[p] \in Upgrades /\ obj[p].fresh /\ api[cur[p]] # None
  BY DEF IInv, PollerKnows, Accepted
<1>2. obj[p] # None
  BY <1>1, NoneAssumption DEF Copies
<1>3. obj[p].o = api[cur[p]] /\ api[cur[p]] \in Objects
  BY <1>1, <1>2 DEF IInv, TypeOK, CopiesAgree
<1> QED BY <1>3 DEF StatusOf, SpecOf, Objects

\* p stores k and goes on with a copy of it, or stores nothing and goes on with
\* what it has; c is None when p goes on without a copy.
Write(p, k, c) ==
    \/ StoreFrom(p, k, c) /\ (c # None => c.o = k)
    \/ NoStore(p, c) /\ (c # None /\ c.fresh => c.o = api[cur[p]])

\* One step of p that writes, or does not: all copies stay well-formed and the
\* fresh ones agree with the stored objects.
LEMMA WriteAgrees ==
    ASSUME IInv, NEW p \in Pollers, cur[p] \in Upgrades, NEW k \in Objects,
           NEW c \in Copies \cup {None},
           Write(p, k, c),
           cur' \in [Pollers -> Upgrades \cup {None}],
           \A q \in Pollers : q # p \/ c # None => cur'[q] = cur[q]
    PROVE  /\ api' \in [Upgrades -> Objects \cup {None}]
           /\ cache' \in [Upgrades -> Copies \cup {None}]
           /\ pending' \in [Upgrades -> Copies \cup {None}]
           /\ batch' \in [Upgrades -> Copies \cup {None}]
           /\ obj' \in [Pollers -> Copies \cup {None}]
           /\ CopiesAgree'
           /\ obj'[p] = c
           /\ \A q \in Pollers \ {p} : /\ obj'[q] = None <=> obj[q] = None
                                       /\ obj[q] # None => obj'[q].o = obj[q].o
<1>1. CASE StoreFrom(p, k, c) /\ (c # None => c.o = k)
  <2> DEFINE u == cur[p]
  <2>1. Store(u, k) /\ obj' = [Outdate(u) EXCEPT ![p] = c]
    BY <1>1 DEF StoreFrom
  <2>2. /\ api' \in [Upgrades -> Objects \cup {None}]
        /\ cache' \in [Upgrades -> Copies \cup {None}]
        /\ pending' \in [Upgrades -> Copies \cup {None}]
        /\ batch' \in [Upgrades -> Copies \cup {None}]
        /\ api'[u] = k
        /\ \A v \in Upgrades : \A d \in {cache'[v], pending'[v], batch'[v]} \ {None} :
               d.fresh => d.o = api'[v]
    BY <2>1, StoreAgrees
  <2>3. /\ Outdate(u) \in [Pollers -> Copies \cup {None}]
        /\ \A q \in Pollers :
             /\ obj[q] = None <=> Outdate(u)[q] = None
             /\ obj[q] # None => Outdate(u)[q].o = obj[q].o
             /\ Outdate(u)[q] # None /\ Outdate(u)[q].fresh =>
                    Outdate(u)[q] = obj[q] /\ cur[q] # u
    BY OutdateAgrees
  <2>4. /\ obj' \in [Pollers -> Copies \cup {None}]
        /\ obj'[p] = c
        /\ \A q \in Pollers \ {p} : obj'[q] = Outdate(u)[q]
    BY <2>1, <2>3
  <2>5. ASSUME NEW q \in Pollers, obj'[q] # None, obj'[q].fresh
        PROVE  obj'[q].o = api'[cur'[q]]
    <3>1. CASE q = p
      BY <3>1, <2>2, <2>4, <2>5, <1>1
    <3>2. CASE q # p
      <4>1. obj'[q] = obj[q] /\ cur[q] # u /\ cur'[q] = cur[q] /\ obj[q] # None
        BY <3>2, <2>3, <2>4, <2>5
      <4>2. obj[q].o = api[cur[q]] /\ cur[q] \in Upgrades
        BY <4>1, <2>5 DEF IInv, CopiesAgree, PollerKnows
      <4>3. api'[cur[q]] = api[cur[q]]
        BY <4>1, <4>2, <2>1 DEF Store, IInv, TypeOK
      <4> QED BY <4>1, <4>2, <4>3
    <3> QED BY <3>1, <3>2
  <2>6. CopiesAgree'
    BY <2>2, <2>5 DEF CopiesAgree
  <2> QED BY <2>2, <2>3, <2>4, <2>6
<1>2. CASE NoStore(p, c) /\ (c # None /\ c.fresh => c.o = api[cur[p]])
  BY <1>2 DEF NoStore, IInv, TypeOK, CopiesAgree
<1> QED BY <1>1, <1>2 DEF Write

\* A step of p's poll preserves the invariant if p knows what it has to know.
LEMMA StepKeeps ==
    ASSUME IInv, NEW p \in Pollers, cur[p] \in Upgrades, NEW k \in Objects,
           NEW c \in Copies \cup {None}, Write(p, k, c),
           pc' \in [Pollers -> PollPCs],
           cur' \in [Pollers -> Upgrades \cup {None}],
           \A q \in Pollers \ {p} : pc'[q] = pc[q],
           \A q \in Pollers : q # p \/ c # None => cur'[q] = cur[q],
           now' = now, failed' \in [Pollers -> BOOLEAN], UNCHANGED environment,
           PollerKnows(p)'
    PROVE  IInv'
<1>1. /\ api' \in [Upgrades -> Objects \cup {None}]
      /\ cache' \in [Upgrades -> Copies \cup {None}]
      /\ pending' \in [Upgrades -> Copies \cup {None}]
      /\ batch' \in [Upgrades -> Copies \cup {None}]
      /\ obj' \in [Pollers -> Copies \cup {None}]
      /\ CopiesAgree'
      /\ \A q \in Pollers \ {p} : /\ obj'[q] = None <=> obj[q] = None
                                  /\ obj[q] # None => obj'[q].o = obj[q].o
  BY WriteAgrees
<1>2. TypeOK'
  BY <1>1 DEF IInv, TypeOK, environment
<1>3. ASSUME NEW q \in Pollers \ {p} PROVE PollerKnows(q)'
  <2>1. /\ pc'[q] = pc[q] /\ cur'[q] = cur[q] /\ now'[q] = now[q] /\ clock' = clock
        /\ obj[q] \in Copies => obj'[q] \in Copies /\ obj'[q].o = obj[q].o
        /\ obj[q] = None => obj'[q] = None
    BY <1>1, NoneAssumption DEF Copies, environment
  <2>2. PollerKnows(q)
    BY DEF IInv
  <2> QED BY <2>1, <2>2 DEF PollerKnows, Begun, Recording
<1> QED BY <1>1, <1>2, <1>3 DEF IInv

\* The copy a successful call returns.
LEMMA ReturnedCopy ==
    ASSUME NEW k \in Objects
    PROVE  Returned(k) \in Copies /\ Returned(k).o = k /\ Returned(k).fresh
BY DEF Returned, Copies

\* UpdateStatus is such a write.
LEMMA UpdateStatusWrites ==
    ASSUME IInv, NEW p \in Pollers, pc[p] \notin {"idle", "nil"}, NEW k \in Objects, NEW c,
           c = None \/ c = Returned(StatusOf(p, k)), UpdateStatus(p, k, c)
    PROVE  /\ Accepted(p) /\ cur[p] \in Upgrades
           /\ StatusOf(p, k) \in Objects
           /\ c \in Copies \cup {None}
           /\ Write(p, StatusOf(p, k), c)
           /\ api' \in {api, [api EXCEPT ![cur[p]] = StatusOf(p, k)]}
<1>1. /\ Accepted(p) /\ cur[p] \in Upgrades
      /\ obj[p].o = api[cur[p]] /\ api[cur[p]] \in Objects /\ StatusOf(p, k) \in Objects
      /\ StatusOf(p, k) = [obj[p].o EXCEPT !.next = k.next, !.cond = k.cond]
  BY AcceptedWrite DEF UpdateStatus, IInv, PollerKnows
<1>2. c # None => c \in Copies /\ c.o = StatusOf(p, k)
  BY <1>1, ReturnedCopy
<1>3. CASE k = obj[p].o /\ NoStore(p, c)
  <2>1. StatusOf(p, k) = api[cur[p]]
    BY <1>1, <1>3 DEF Objects
  <2> QED BY <1>1, <1>2, <1>3, <2>1 DEF Write, NoStore
<1>4. CASE StoreFrom(p, StatusOf(p, k), c)
  BY <1>1, <1>2, <1>4 DEF Write, StoreFrom, Store
<1> QED BY <1>3, <1>4 DEF UpdateStatus

\* A failed UpdateStatus is such a write, too, and leaves p without a copy.
LEMMA FailedStatusWrites ==
    ASSUME IInv, NEW p \in Pollers, pc[p] \notin {"idle", "nil"}, NEW k \in Objects,
           Fails(p, UpdateStatus(p, k, None))
    PROVE  /\ cur[p] \in Upgrades
           /\ \E m \in Objects : Write(p, m, None)
           /\ \/ api' = api
              \/ Accepted(p) /\ api' = [api EXCEPT ![cur[p]] = StatusOf(p, k)]
<1>1. CASE NoStore(p, None)
  BY <1>1 DEF Write, NoStore, IInv, PollerKnows
<1>2. CASE UpdateStatus(p, k, None)
  BY <1>2, UpdateStatusWrites
<1> QED BY <1>1, <1>2 DEF Fails

\* The second call of recordUpgradeStatus sends back the object it has received:
\* nothing is stored.
LEMMA UpdateWrites ==
    ASSUME IInv, NEW p \in Pollers, pc[p] \notin {"idle", "nil"}, NEW c,
           c = None \/ c = Returned(SpecOf(p, obj[p].o)), Update(p, obj[p].o, c)
    PROVE  /\ cur[p] \in Upgrades
           /\ api[cur[p]] \in Objects /\ obj[p].o = api[cur[p]]
           /\ c \in Copies \cup {None}
           /\ c # None => c.o = obj[p].o
           /\ Write(p, api[cur[p]], c)
           /\ api' = api
<1>1. /\ Accepted(p) /\ cur[p] \in Upgrades /\ obj[p].o \in Objects
  BY NoneAssumption DEF Update, IInv, PollerKnows, Copies
<1>2. /\ obj[p].o = api[cur[p]] /\ api[cur[p]] \in Objects
      /\ SpecOf(p, obj[p].o) = api[cur[p]]
  BY <1>1, AcceptedWrite
<1>3. NoStore(p, c)
  BY <1>2 DEF Update
<1>4. c # None => c \in Copies /\ c.o = api[cur[p]]
  BY <1>2, ReturnedCopy
<1> QED BY <1>1, <1>2, <1>3, <1>4 DEF Write, NoStore

-----------------------------------------------------------------------------
(* The steps of poll and startUpgrade preserve the invariant *)

\* In the middle of a poll, p has an upgrade and a copy of it.
LEMMA Polling ==
    ASSUME IInv, NEW p \in Pollers, pc[p] \notin {"idle", "nil"}
    PROVE  /\ cur[p] \in Upgrades /\ obj[p] \in Copies /\ obj[p] # None
           /\ obj[p].o \in Objects /\ obj[p].o.next \in Nat
           /\ now[p] \in Times /\ now[p] \in Nat
           /\ obj[p].fresh => obj[p].o = api[cur[p]]
BY NoneAssumption DEF IInv, TypeOK, PollerKnows, CopiesAgree, Copies, Objects, Times

\* A poll that returns has nothing left to know.
LEMMA ReturnKeeps ==
    ASSUME IInv, NEW p \in Pollers, PollReturns(p), UNCHANGED environment,
           NEW k \in Objects, Write(p, k, None), cur[p] \in Upgrades
    PROVE  IInv'
<1>1. /\ pc' \in [Pollers -> PollPCs] /\ cur' \in [Pollers -> Upgrades \cup {None}]
      /\ failed' \in [Pollers -> BOOLEAN] /\ now' = now
      /\ \A q \in Pollers \ {p} : pc'[q] = pc[q] /\ cur'[q] = cur[q]
      /\ pc'[p] = "idle"
  BY DEF IInv, TypeOK, PollReturns, PollPCs
<1>2. obj'[p] = None
  BY <1>1, WriteAgrees
<1>3. PollerKnows(p)'
  BY <1>1, <1>2 DEF PollerKnows, Begun, Recording, IInv, environment
<1> QED BY <1>1, <1>3, StepKeeps

\* A poll that goes on to next must know what is required there.
LEMMA GotoKeeps ==
    ASSUME IInv, NEW p \in Pollers, NEW next \in PollPCs \ {"idle"}, Goto(p, next),
           UNCHANGED environment, cur[p] \in Upgrades,
           NEW k \in Objects, NEW c \in Copies \cup {None}, Write(p, k, c),
           next # "nil" => c # None,
           next \in {"decide", "start"} => Renewed(c.o, now[p]),
           next = "start" => canUpgrade(c.o, now[p]),
           next \in Begun => c.o.next <= now[p],
           next \in Recording => c.o.cond = "started"
    PROVE  IInv'
<1>1. /\ pc' \in [Pollers -> PollPCs] /\ cur' = cur /\ failed' = failed /\ now' = now
      /\ \A q \in Pollers \ {p} : pc'[q] = pc[q]
      /\ pc'[p] = next
      /\ cur' \in [Pollers -> Upgrades \cup {None}] /\ failed' \in [Pollers -> BOOLEAN]
  BY DEF IInv, TypeOK, Goto
<1>2. obj'[p] = c
  BY <1>1, WriteAgrees
<1>3. PollerKnows(p)'
  BY <1>1, <1>2 DEF PollerKnows, IInv, environment
<1> QED BY <1>1, <1>3, StepKeeps

LEMMA KeepNextTimeInv ==
    ASSUME IInv, NEW p \in Pollers, KeepNextTime(p)
    PROVE  IInv'
<1>1. /\ cur[p] \in Upgrades /\ obj[p] \in Copies /\ obj[p] # None /\ obj[p].o \in Objects
      /\ Write(p, obj[p].o, obj[p]) /\ Renewed(obj[p].o, now[p])
  BY Polling DEF KeepNextTime, Write, Renewed
<1> QED BY <1>1, GotoKeeps DEF KeepNextTime, PollPCs, Begun, Recording

LEMMA SetNextTimeInv ==
    ASSUME IInv, NEW p \in Pollers, SetNextTime(p)
    PROVE  IInv'
<1> DEFINE k == UpdateNextScheduledTime(obj[p].o, now[p])
           c == Returned(StatusOf(p, k))
<1>1. pc[p] \notin {"idle", "nil"} /\ k \in Objects
  BY Polling, Computed DEF SetNextTime
<1>2. CASE UpdateStatus(p, k, c) /\ Goto(p, "decide")
  <2>1. /\ cur[p] \in Upgrades /\ StatusOf(p, k) \in Objects /\ c \in Copies \cup {None}
        /\ Write(p, StatusOf(p, k), c) /\ c # None
    BY <1>1, <1>2, UpdateStatusWrites, ReturnedCopy, NoneAssumption DEF Copies
  <2>2. Renewed(c.o, now[p])
    <3>1. /\ Renewed(k, now[p])
          /\ k = [obj[p].o EXCEPT !.next = k.next] /\ obj[p].o \in Objects
      BY <1>1, Polling, Computed
    <3>2. StatusOf(p, k) = [obj[p].o EXCEPT !.next = k.next, !.cond = k.cond]
      BY <1>1, <1>2, AcceptedWrite DEF UpdateStatus
    <3>3. StatusOf(p, k) = k
      BY <1>1, <3>1, <3>2 DEF Objects
    <3>4. c.o = StatusOf(p, k)
      BY <2>1, ReturnedCopy
    <3> QED BY <3>1, <3>3, <3>4
  <2> QED BY <1>2, <2>1, <2>2, GotoKeeps DEF SetNextTime, PollPCs, Begun, Recording
<1>3. CASE Fails(p, UpdateStatus(p, k, None)) /\ PollReturns(p)
  BY <1>1, <1>3, FailedStatusWrites, ReturnKeeps DEF SetNextTime
<1> QED BY <1>2, <1>3 DEF SetNextTime

LEMMA DoNotUpgradeInv ==
    ASSUME IInv, NEW p \in Pollers, DoNotUpgrade(p)
    PROVE  IInv'
<1>1. cur[p] \in Upgrades /\ obj[p].o \in Objects /\ Write(p, obj[p].o, None)
  BY Polling DEF DoNotUpgrade, Write
<1> QED BY <1>1, ReturnKeeps DEF DoNotUpgrade

LEMMA DoUpgradeInv ==
    ASSUME IInv, NEW p \in Pollers, DoUpgrade(p)
    PROVE  IInv'
<1>1. /\ cur[p] \in Upgrades /\ obj[p] \in Copies /\ obj[p] # None /\ obj[p].o \in Objects
      /\ Write(p, obj[p].o, obj[p])
      /\ obj[p].o.next \in Nat /\ now[p] \in Nat
  BY Polling DEF DoUpgrade, Write
<1>2. /\ canUpgrade(obj[p].o, now[p]) /\ obj[p].o.next <= now[p]
      /\ Renewed(obj[p].o, now[p])
  BY <1>1 DEF DoUpgrade, canUpgrade, IInv, PollerKnows
<1> QED BY <1>1, <1>2, GotoKeeps DEF DoUpgrade, PollPCs, Recording

\* WriteCondition keeps the next time and stores the condition.
LEMMA WriteConditionInv ==
    ASSUME IInv, NEW p \in Pollers, pc[p] \in Begun, NEW k \in Objects,
           k.next = obj[p].o.next,
           NEW next \in {"startSpec", "completeSpec"}, WriteCondition(p, k, next),
           next = "startSpec" => k.cond = "started"
    PROVE  IInv'
<1> DEFINE c == Returned(StatusOf(p, k))
<1>1. pc[p] \notin {"idle", "nil"} /\ k.next <= now[p]
  BY DEF Begun, IInv, PollerKnows
<1>2. CASE UpdateStatus(p, k, c) /\ Goto(p, next)
  <2>1. /\ cur[p] \in Upgrades /\ StatusOf(p, k) \in Objects /\ c \in Copies \cup {None}
        /\ Write(p, StatusOf(p, k), c) /\ Accepted(p)
    BY <1>1, <1>2, UpdateStatusWrites
  <2>2. c # None /\ c.o.next = k.next /\ c.o.cond = k.cond
    <3>1. StatusOf(p, k).next = k.next /\ StatusOf(p, k).cond = k.cond
      BY <1>1, <2>1, AcceptedWrite
    <3>2. c \in Copies /\ c.o = StatusOf(p, k)
      BY <2>1, ReturnedCopy
    <3> QED BY <3>1, <3>2, NoneAssumption DEF Copies
  <2>3. next \in PollPCs \ {"idle"} /\ (next \in Recording => c.o.cond = "started")
    BY <2>2 DEF PollPCs, Recording
  <2> QED BY <1>1, <1>2, <2>1, <2>2, <2>3, GotoKeeps DEF WriteCondition
<1>3. CASE Fails(p, UpdateStatus(p, k, None)) /\ Goto(p, "nil")
  BY <1>1, <1>3, FailedStatusWrites, GotoKeeps DEF WriteCondition, PollPCs, Begun, Recording
<1> QED BY <1>2, <1>3 DEF WriteCondition

\* WriteSpec changes nothing that p knows.
LEMMA WriteSpecInv ==
    ASSUME IInv, NEW p \in Pollers, pc[p] \in Begun,
           NEW next \in {"run", "force"}, WriteSpec(p, next),
           next = "run" => obj[p].o.cond = "started"
    PROVE  IInv' /\ api' = api
<1> DEFINE k == obj[p].o
           c == Returned(SpecOf(p, k))
<1>1. pc[p] \notin {"idle", "nil"} /\ k.next <= now[p]
  BY DEF Begun, IInv, PollerKnows
<1>2. CASE Update(p, k, c) /\ Goto(p, next)
  <2>1. /\ cur[p] \in Upgrades /\ api[cur[p]] \in Objects /\ c \in Copies \cup {None}
        /\ Write(p, api[cur[p]], c) /\ api' = api /\ k = api[cur[p]]
        /\ Accepted(p)
    BY <1>1, <1>2, UpdateWrites DEF Update
  <2>2. SpecOf(p, k) = k
    BY <1>1, <2>1, AcceptedWrite
  <2>3. c # None /\ c.o = k
    BY <2>1, <2>2, ReturnedCopy, NoneAssumption DEF Copies
  <2>4. next \in PollPCs \ {"idle"} /\ next # "start" /\ (next \in Recording => next = "run")
    BY DEF PollPCs, Recording
  <2> QED BY <1>1, <1>2, <2>1, <2>3, <2>4, GotoKeeps DEF WriteSpec
<1>3. CASE Fails(p, Update(p, k, None)) /\ Goto(p, "nil")
  <2>1. CASE NoStore(p, None)
    <3>1. cur[p] \in Upgrades /\ k \in Objects /\ Write(p, k, None) /\ api' = api
      BY <1>1, <2>1, Polling DEF Write, NoStore
    <3> QED BY <1>3, <3>1, GotoKeeps DEF WriteSpec, PollPCs, Begun, Recording
  <2>2. CASE Update(p, k, None)
    BY <1>1, <1>3, <2>2, UpdateWrites, GotoKeeps DEF WriteSpec, PollPCs, Begun, Recording
  <2> QED BY <1>3, <2>1, <2>2 DEF Fails
<1> QED BY <1>2, <1>3 DEF WriteSpec

LEMMA RunWorkersInv ==
    ASSUME IInv, NEW p \in Pollers, RunWorkers(p)
    PROVE  IInv'
<1>1. /\ cur[p] \in Upgrades /\ obj[p] \in Copies /\ obj[p] # None /\ obj[p].o \in Objects
      /\ Write(p, obj[p].o, obj[p])
      /\ obj[p].o.next <= now[p] /\ obj[p].o.cond = "started"
  BY Polling DEF RunWorkers, Write, IInv, PollerKnows, Begun, Recording
<1>2. /\ pc' \in [Pollers -> PollPCs] /\ cur' = cur /\ now' = now
      /\ failed' \in [Pollers -> BOOLEAN]
      /\ \A q \in Pollers \ {p} : pc'[q] = pc[q]
      /\ pc'[p] = "complete" /\ cur' \in [Pollers -> Upgrades \cup {None}]
      /\ UNCHANGED environment /\ obj'[p] = obj[p]
  BY DEF IInv, TypeOK, RunWorkers, PollPCs, NoStore, environment
<1>3. PollerKnows(p)'
  BY <1>1, <1>2 DEF PollerKnows, IInv, environment
<1> QED BY <1>1, <1>2, <1>3, StepKeeps

LEMMA ForceNextTimeInv ==
    ASSUME IInv, NEW p \in Pollers, ForceNextTime(p)
    PROVE  IInv'
<1> DEFINE k == UpdateNextScheduledTime(obj[p].o, now[p])
<1>1. pc[p] \notin {"idle", "nil"} /\ k \in Objects
  BY Polling, Computed DEF ForceNextTime
<1>2. CASE UpdateStatus(p, k, None)
  BY <1>1, <1>2, UpdateStatusWrites, ReturnKeeps DEF ForceNextTime
<1>3. CASE Fails(p, UpdateStatus(p, k, None))
  BY <1>1, <1>3, FailedStatusWrites, ReturnKeeps DEF ForceNextTime
<1> QED BY <1>2, <1>3 DEF ForceNextTime

LEMMA HaltInv ==
    ASSUME IInv, NEW how \in {"down", "panicked"}, Halt(how)
    PROVE  IInv'
<1>1. TypeOK'
  <2>1. 1 \in Times
    BY TimeAssumption DEF Times
  <2> QED BY <2>1 DEF IInv, TypeOK, Halt, PollPCs
<1>2. CopiesAgree'
  BY DEF CopiesAgree, Halt
<1>3. ASSUME NEW p \in Pollers PROVE PollerKnows(p)'
  <2>1. pc'[p] = "idle" /\ obj'[p] = None /\ now'[p] = 1 /\ clock' = clock
    BY DEF Halt
  <2>2. 1 <= clock
    BY DEF IInv, TypeOK, Times
  <2> QED BY <2>1, <2>2 DEF PollerKnows, Begun, Recording
<1> QED BY <1>1, <1>2, <1>3 DEF IInv

LEMMA PollStepInv ==
    ASSUME IInv, NEW p \in Pollers, PollStep(p)
    PROVE  IInv'
<1>1. CASE RecordStarted(p)
  <2> DEFINE k == RecordUpgradeStarted(obj[p].o)
  <2>1. k \in Objects /\ k.next = obj[p].o.next /\ k.cond = "started"
    BY <1>1, Polling, Computed DEF RecordStarted
  <2> QED BY <1>1, <2>1, WriteConditionInv DEF RecordStarted, Begun
<1>2. CASE RecordCompleted(p)
  <2> DEFINE k == RecordUpgradeCompleted(obj[p].o, failed[p])
  <2>1. failed[p] \in BOOLEAN /\ obj[p].o \in Objects /\ now[p] \in Times
    BY <1>2, Polling DEF RecordCompleted, IInv, TypeOK
  <2>2. k \in Objects /\ k.next = obj[p].o.next
    BY <2>1, Computed
  <2> QED BY <1>2, <2>2, WriteConditionInv DEF RecordCompleted, Begun
<1>3. CASE StartedSpec(p)
  BY <1>3, WriteSpecInv DEF StartedSpec, Begun, IInv, PollerKnows, Recording
<1>4. CASE CompletedSpec(p)
  BY <1>4, WriteSpecInv DEF CompletedSpec, Begun
<1>5. CASE Panic(p)
  BY <1>5, HaltInv DEF Panic
<1> QED BY <1>1, <1>2, <1>3, <1>4, <1>5, KeepNextTimeInv, SetNextTimeInv, DoNotUpgradeInv,
           DoUpgradeInv, RunWorkersInv, ForceNextTimeInv DEF PollStep

-----------------------------------------------------------------------------
(* The steps of everyone else preserve it *)

\* A user's write outdates the copies of the object and disturbs nothing else.
LEMMA UserWriteInv ==
    ASSUME IInv, NEW u \in Upgrades, NEW k \in Objects \cup {None},
           Store(u, k), obj' = Outdate(u), announce' \in [Upgrades -> BOOLEAN],
           UNCHANGED <<synced, clock, pc, cur, now, failed, proc>>
    PROVE  IInv'
<1>1. /\ api' \in [Upgrades -> Objects \cup {None}]
      /\ cache' \in [Upgrades -> Copies \cup {None}]
      /\ pending' \in [Upgrades -> Copies \cup {None}]
      /\ batch' \in [Upgrades -> Copies \cup {None}]
      /\ \A v \in Upgrades : \A c \in {cache'[v], pending'[v], batch'[v]} \ {None} :
             c.fresh => c.o = api'[v]
  BY StoreAgrees
<1>2. /\ obj' \in [Pollers -> Copies \cup {None}]
      /\ \A q \in Pollers :
           /\ obj[q] = None <=> obj'[q] = None
           /\ obj[q] # None => obj'[q].o = obj[q].o
           /\ obj'[q] # None /\ obj'[q].fresh => obj'[q] = obj[q] /\ cur[q] # u
  BY OutdateAgrees
<1>3. TypeOK'
  BY <1>1, <1>2 DEF IInv, TypeOK
<1>4. ASSUME NEW q \in Pollers, obj'[q] # None, obj'[q].fresh
      PROVE  obj'[q].o = api'[cur'[q]]
  <2>1. /\ obj'[q] = obj[q] /\ cur[q] # u /\ cur'[q] = cur[q] /\ obj[q] # None
    BY <1>2, <1>4
  <2>2. obj[q].o = api[cur[q]] /\ cur[q] \in Upgrades
    BY <2>1, <1>4 DEF IInv, CopiesAgree, PollerKnows
  <2>3. api'[cur[q]] = api[cur[q]]
    BY <2>1, <2>2 DEF Store, IInv, TypeOK
  <2> QED BY <2>1, <2>2, <2>3
<1>5. CopiesAgree'
  BY <1>1, <1>4 DEF CopiesAgree
<1>6. ASSUME NEW q \in Pollers PROVE PollerKnows(q)'
  <2>1. /\ pc'[q] = pc[q] /\ cur'[q] = cur[q] /\ now'[q] = now[q] /\ clock' = clock
        /\ obj[q] \in Copies => obj'[q] \in Copies /\ obj'[q].o = obj[q].o
        /\ obj[q] = None => obj'[q] = None
    BY <1>2, NoneAssumption DEF Copies
  <2>2. PollerKnows(q)
    BY DEF IInv
  <2> QED BY <2>1, <2>2 DEF PollerKnows, Begun, Recording
<1> QED BY <1>3, <1>5, <1>6 DEF IInv

LEMMA UserStepInv ==
    ASSUME IInv, NEW u \in Upgrades, UserStep(u)
    PROVE  IInv'
<1>1. announce \in [Upgrades -> BOOLEAN] /\ api \in [Upgrades -> Objects \cup {None}]
  BY DEF IInv, TypeOK
<1>2. CASE CreateUpgrade(u)
  <2>1. PICK s \in Schedules \cup {BadSchedule}, b \in BOOLEAN :
            Store(u, [sched |-> s, skip |-> b, next |-> 0, cond |-> "none"])
    BY <1>2 DEF CreateUpgrade
  <2>2. [sched |-> s, skip |-> b, next |-> 0, cond |-> "none"] \in Objects
    BY DEF Objects, Conditions
  <2>3. announce' \in [Upgrades -> BOOLEAN]
    BY <1>1, <1>2 DEF CreateUpgrade
  <2> QED BY <1>2, <2>1, <2>2, <2>3, UserWriteInv DEF CreateUpgrade
<1>3. CASE DeleteUpgrade(u)
  <2>1. announce' \in [Upgrades -> BOOLEAN]
    BY <1>1, <1>3 DEF DeleteUpgrade
  <2> QED BY <1>3, <2>1, UserWriteInv DEF DeleteUpgrade
<1>4. CASE EditUpgrade(u)
  <2>1. PICK s \in Schedules \cup {BadSchedule}, b \in BOOLEAN :
            Store(u, [api[u] EXCEPT !.sched = s, !.skip = b])
    BY <1>4 DEF EditUpgrade
  <2>2. api[u] \in Objects
    BY <1>1, <1>4 DEF EditUpgrade
  <2>3. [api[u] EXCEPT !.sched = s, !.skip = b] \in Objects
    BY <2>2 DEF Objects
  <2> QED BY <1>1, <1>4, <2>1, <2>3, UserWriteInv DEF EditUpgrade
<1> QED BY <1>2, <1>3, <1>4 DEF UserStep

LEMMA ClockAdvancesInv ==
    ASSUME IInv, ClockAdvances
    PROVE  IInv'
<1>1. clock \in Nat /\ clock' \in Times /\ clock' = clock + 1
  BY TimeAssumption DEF IInv, TypeOK, ClockAdvances, Times
<1>2. TypeOK' /\ CopiesAgree'
  BY <1>1 DEF IInv, TypeOK, CopiesAgree, ClockAdvances, cacheVars, pollVars
<1>3. ASSUME NEW q \in Pollers PROVE PollerKnows(q)'
  <2>1. PollerKnows(q) /\ now[q] \in Nat
    BY DEF IInv, TypeOK, Times
  <2>2. now'[q] <= clock'
    BY <1>1, <2>1 DEF PollerKnows, ClockAdvances, pollVars
  <2> QED BY <2>1, <2>2 DEF PollerKnows, ClockAdvances, pollVars
<1> QED BY <1>2, <1>3 DEF IInv

\* The informer's view is a fresh copy of the stored object.
LEMMA CacheCatchesUpInv ==
    ASSUME IInv, NEW u \in Upgrades, CacheCatchesUp(u)
    PROVE  IInv'
<1>1. /\ Cached(u) \in Copies \cup {None}
      /\ Cached(u) # None => Cached(u).o = api[u]
  BY DEF Cached, Copies, IInv, TypeOK
<1>2. TypeOK'
  BY <1>1 DEF IInv, TypeOK, CacheCatchesUp, pollVars
<1>3. CopiesAgree'
  <2>1. \A v \in Upgrades : /\ cache'[v] \in {cache[v], Cached(v)} /\ (v # u => cache'[v] = cache[v])
                            /\ pending'[v] \in {pending[v], Cached(v)}
                            /\ (v # u => pending'[v] = pending[v])
    BY DEF IInv, TypeOK, CacheCatchesUp
  <2>2. api' = api /\ batch' = batch /\ obj' = obj /\ cur' = cur
    BY DEF CacheCatchesUp, pollVars
  <2> QED BY <1>1, <2>1, <2>2 DEF IInv, CopiesAgree
<1>4. \A q \in Pollers : PollerKnows(q)'
  BY DEF IInv, PollerKnows, CacheCatchesUp, pollVars
<1> QED BY <1>2, <1>3, <1>4 DEF IInv

LEMMA CacheSyncedInv ==
    ASSUME IInv, CacheSynced
    PROVE  IInv'
BY DEF IInv, TypeOK, CopiesAgree, PollerKnows, CacheSynced, pollVars

LEMMA RestartInv ==
    ASSUME IInv, Restart
    PROVE  IInv'
<1>1. announce' \in [Upgrades -> BOOLEAN] /\ proc' = "up"
  BY DEF Restart
<1> QED BY <1>1 DEF IInv, TypeOK, CopiesAgree, PollerKnows, Restart, pollVars

\* The list is taken from the cache, the time from the clock.
LEMMA pollSchedulesInv ==
    ASSUME IInv, pollSchedules
    PROVE  IInv'
<1>1. /\ batch' \in [Upgrades -> Copies \cup {None}]
      /\ \A u \in Upgrades : batch'[u] \in {cache[u], None}
  BY DEF pollSchedules, IInv, TypeOK
<1>2. /\ now' \in [Pollers -> Times] /\ now'[Ticker] = clock
      /\ \A q \in Pollers \ {Ticker} : now'[q] = now[q]
  BY PollersAssumption DEF pollSchedules, IInv, TypeOK
<1>3. TypeOK'
  BY <1>1, <1>2 DEF pollSchedules, IInv, TypeOK, cacheVars
<1>4. CopiesAgree'
  BY <1>1 DEF pollSchedules, IInv, CopiesAgree, cacheVars
<1>5. ASSUME NEW q \in Pollers PROVE PollerKnows(q)'
  <2>1. PollerKnows(q) /\ clock \in Nat
    BY DEF IInv, TypeOK, Times
  <2>2. CASE q = Ticker
    BY <1>2, <2>1, <2>2 DEF pollSchedules, PollerKnows, Begun, Recording
  <2>3. CASE q # Ticker
    BY <1>2, <2>1, <2>3 DEF pollSchedules, PollerKnows
  <2> QED BY <2>2, <2>3
<1> QED BY <1>3, <1>4, <1>5 DEF IInv

\* A poll begins with a copy from the list or from a notification.
LEMMA BeginPollInv ==
    ASSUME IInv, NEW p \in Pollers, NEW u \in Upgrades, NEW c \in Copies,
           c.fresh => c.o = api[u], BeginPoll(p, u, c),
           now' \in [Pollers -> Times], now'[p] <= clock,
           \A q \in Pollers \ {p} : now'[q] = now[q],
           batch' \in [Upgrades -> Copies \cup {None}],
           pending' \in [Upgrades -> Copies \cup {None}],
           \A v \in Upgrades : batch'[v] \in {batch[v], None} /\ pending'[v] \in {pending[v], None},
           UNCHANGED <<api, cache, announce, synced, clock, failed, proc>>
    PROVE  IInv'
<1>1. /\ pc' \in [Pollers -> PollPCs] /\ pc'[p] = "poll"
      /\ cur' \in [Pollers -> Upgrades \cup {None}] /\ cur'[p] = u
      /\ obj' \in [Pollers -> Copies \cup {None}] /\ obj'[p] = c
      /\ \A q \in Pollers \ {p} : pc'[q] = pc[q] /\ cur'[q] = cur[q] /\ obj'[q] = obj[q]
  BY DEF BeginPoll, IInv, TypeOK, PollPCs
<1>2. TypeOK'
  BY <1>1 DEF IInv, TypeOK
<1>3. CopiesAgree'
  BY <1>1 DEF IInv, CopiesAgree
<1>4. ASSUME NEW q \in Pollers PROVE PollerKnows(q)'
  <2>1. CASE q = p
    BY <1>1, <2>1 DEF PollerKnows, Begun, Recording
  <2>2. CASE q # p
    BY <1>1, <2>2 DEF PollerKnows, IInv
  <2> QED BY <2>1, <2>2
<1> QED BY <1>2, <1>3, <1>4 DEF IInv

LEMMA PollListedInv ==
    ASSUME IInv, NEW u \in Upgrades, PollListed(u)
    PROVE  IInv'
<1>1. batch[u] \in Copies /\ (batch[u].fresh => batch[u].o = api[u])
  BY DEF PollListed, IInv, TypeOK, CopiesAgree
<1>2. /\ batch' \in [Upgrades -> Copies \cup {None}]
      /\ \A v \in Upgrades : batch'[v] \in {batch[v], None}
  BY DEF PollListed, IInv, TypeOK
<1>3. now[Ticker] <= clock /\ now \in [Pollers -> Times] /\ pending \in [Upgrades -> Copies \cup {None}]
  BY PollersAssumption DEF IInv, TypeOK, PollerKnows
<1> QED BY <1>1, <1>2, <1>3, BeginPollInv, PollersAssumption DEF PollListed, cacheVars

LEMMA AddFuncInv ==
    ASSUME IInv, NEW p \in Pollers, NEW u \in Upgrades, AddFunc(p, u)
    PROVE  IInv'
<1>1. pending[u] \in Copies /\ (pending[u].fresh => pending[u].o = api[u])
  BY DEF AddFunc, IInv, TypeOK, CopiesAgree
<1>2. /\ pending' \in [Upgrades -> Copies \cup {None}]
      /\ \A v \in Upgrades : pending'[v] \in {pending[v], None}
  BY DEF AddFunc, IInv, TypeOK
<1>3. CASE synced
  <2>1. BeginPoll(p, u, pending[u]) /\ now' = [now EXCEPT ![p] = clock] /\ batch' = batch
    BY <1>3 DEF AddFunc
  <2>2. /\ now' \in [Pollers -> Times] /\ now'[p] <= clock
        /\ \A q \in Pollers \ {p} : now'[q] = now[q]
    BY <2>1 DEF IInv, TypeOK, Times
  <2>3. batch' \in [Upgrades -> Copies \cup {None}]
    BY <2>1 DEF IInv, TypeOK
  <2> QED BY <1>1, <1>2, <2>1, <2>2, <2>3, BeginPollInv DEF AddFunc
<1>4. CASE ~synced
  <2>1. UNCHANGED <<pc, cur, obj, now>>
    BY <1>4 DEF AddFunc
  <2>2. TypeOK'
    BY <1>2, <2>1 DEF AddFunc, IInv, TypeOK
  <2>3. CopiesAgree'
    BY <1>2, <2>1 DEF AddFunc, IInv, CopiesAgree
  <2>4. \A q \in Pollers : PollerKnows(q)'
    BY <2>1 DEF AddFunc, IInv, PollerKnows
  <2> QED BY <2>2, <2>3, <2>4 DEF IInv
<1> QED BY <1>3, <1>4

-----------------------------------------------------------------------------
(* The theorems *)

LEMMA InitInv == Init => IInv
<1> SUFFICES ASSUME Init PROVE IInv
  OBVIOUS
<1>1. 1 \in Times
  BY TimeAssumption DEF Times
<1>2. TypeOK
  BY <1>1 DEF Init, TypeOK, PollPCs
<1>3. CopiesAgree
  BY DEF Init, CopiesAgree
<1>4. \A p \in Pollers : PollerKnows(p)
  BY DEF Init, PollerKnows, Begun, Recording
<1> QED BY <1>2, <1>3, <1>4 DEF IInv

LEMMA NextInv == IInv /\ [Next]_vars => IInv'
<1> SUFFICES ASSUME IInv, [Next]_vars PROVE IInv'
  OBVIOUS
<1>1. CASE \E u \in Upgrades : UserStep(u) \/ CacheCatchesUp(u) \/ PollListed(u)
  BY <1>1, UserStepInv, CacheCatchesUpInv, PollListedInv
<1>2. CASE \E p \in Pollers, u \in Upgrades : AddFunc(p, u)
  BY <1>2, AddFuncInv
<1>3. CASE \E p \in Pollers : PollStep(p)
  BY <1>3, PollStepInv
<1>4. CASE Kill
  BY <1>4, HaltInv DEF Kill
<1>5. CASE UNCHANGED vars
  BY <1>5 DEF vars, cacheVars, pollVars, IInv, TypeOK, CopiesAgree, PollerKnows
<1> QED BY <1>1, <1>2, <1>3, <1>4, <1>5, ClockAdvancesInv, CacheSyncedInv, pollSchedulesInv,
           RestartInv DEF Next

LEMMA SpecInv == Spec => []IInv
<1>1. Init => IInv
  BY InitInv
<1>2. IInv /\ [Next]_vars => IInv'
  BY NextInv
<1> QED BY <1>1, <1>2, PTL DEF Spec

\* The variables of Reconcile have their types: each goroutine of controller.go
\* always holds a well-formed object, or none.
THEOREM TypeCorrect == Spec => []TypeOK
<1>1. IInv => TypeOK
  BY DEF IInv
<1> QED BY <1>1, SpecInv, PTL

-----------------------------------------------------------------------------
(* Of the runs of one upgrade at most one holds the current version *)

\* After a step no poller owns an upgrade that it did not own before.
OwnersShrink == \A q \in Pollers : Owns(q)' => Owns(q) /\ cur'[q] = cur[q]

\* A write of p leaves no other poller of the same upgrade with a current copy, and
\* gives nobody else one.
LEMMA WriteDisowns ==
    ASSUME IInv, NEW p \in Pollers, cur[p] \in Upgrades, NEW k, NEW c,
           StoreFrom(p, k, c) \/ NoStore(p, c),
           NEW q \in Pollers \ {p}, pc'[q] = pc[q], cur'[q] = cur[q], Owns(q)'
    PROVE  /\ Owns(q)
           /\ StoreFrom(p, k, c) => cur[q] # cur[p]
<1>1. obj \in [Pollers -> Copies \cup {None}]
  BY DEF IInv, TypeOK
<1>2. pc[q] \notin {"idle", "nil"} /\ obj[q] \in Copies /\ obj[q] # None
  BY NoneAssumption DEF Owns, IInv, PollerKnows, Copies
<1>3. CASE NoStore(p, c)
  <2>1. obj'[q] = obj[q]
    BY <1>1, <1>3 DEF NoStore
  <2>2. CASE StoreFrom(p, k, c)
    <3>1. Outdate(cur[p])[q] = obj[q]
      BY <1>1, <2>1, <2>2 DEF StoreFrom, Outdate
    <3> QED BY <1>2, <2>1, <3>1, OutdateAgrees DEF Owns
  <2> QED BY <2>1, <2>2 DEF Owns
<1>4. CASE StoreFrom(p, k, c)
  <2>1. obj'[q] = Outdate(cur[p])[q]
    BY <1>1, <1>4, OutdateAgrees DEF StoreFrom
  <2>2. Outdate(cur[p])[q] # None /\ Outdate(cur[p])[q].fresh
    BY <1>2, <2>1, OutdateAgrees DEF Owns
  <2> QED BY <2>1, <2>2, OutdateAgrees DEF Owns
<1> QED BY <1>3, <1>4

\* UpdateStatus and Update either store something or do not.
LEMMA UpdateStores ==
    ASSUME NEW p \in Pollers, NEW k, NEW c, UpdateStatus(p, k, c) \/ Update(p, k, c)
    PROVE  /\ Accepted(p)
           /\ \E m : StoreFrom(p, m, c) \/ NoStore(p, c)
           /\ UpdateStatus(p, k, c) /\ k # obj[p].o => StoreFrom(p, StatusOf(p, k), c)
BY DEF UpdateStatus, Update

\* A poller that sends a write and goes on, or gives up, owns nothing it did not own
\* before, unless it has just started its upgrade.
LEMMA PollOwners ==
    ASSUME IInv, NEW p \in Pollers, PollStep(p), ~RecordStarted(p)
    PROVE  OwnersShrink
<1> USE DEF IInv, TypeOK
<1>1. CASE Panic(p)
  BY <1>1 DEF Panic, Halt, OwnersShrink, Owns
<1>2. CASE ~Panic(p)
  <2>1. pc[p] \notin {"idle", "nil"} /\ cur[p] \in Upgrades
    BY <1>2, Polling DEF PollStep, KeepNextTime, SetNextTime, DoNotUpgrade, DoUpgrade, StartedSpec,
       RunWorkers, RecordCompleted, CompletedSpec, ForceNextTime
  <2>2. \A q \in Pollers \ {p} : pc'[q] = pc[q] /\ cur'[q] = cur[q]
    BY <1>2 DEF PollStep, KeepNextTime, SetNextTime, DoNotUpgrade, DoUpgrade, StartedSpec,
       RunWorkers, RecordCompleted, CompletedSpec, ForceNextTime, WriteCondition, WriteSpec, Goto,
       PollReturns
  <2>3. \E m, c : StoreFrom(p, m, c) \/ NoStore(p, c)
    <3>1. CASE SetNextTime(p) \/ ForceNextTime(p)
      BY <3>1, UpdateStores DEF SetNextTime, ForceNextTime, Fails
    <3>2. CASE RecordCompleted(p)
      BY <3>2, UpdateStores DEF RecordCompleted, WriteCondition, Fails
    <3>3. CASE StartedSpec(p) \/ CompletedSpec(p)
      BY <3>3, UpdateStores DEF StartedSpec, CompletedSpec, WriteSpec, Fails
    <3>4. CASE KeepNextTime(p) \/ DoNotUpgrade(p) \/ DoUpgrade(p) \/ RunWorkers(p)
      BY <3>4 DEF KeepNextTime, DoNotUpgrade, DoUpgrade, RunWorkers
    <3> QED BY <1>2, <3>1, <3>2, <3>3, <3>4 DEF PollStep
  <2>4. \A q \in Pollers \ {p} : Owns(q)' => Owns(q) /\ cur'[q] = cur[q]
    BY <2>1, <2>2, <2>3, WriteDisowns
  <2>5. Owns(p)' => Owns(p) /\ cur'[p] = cur[p]
    <3>1. CASE KeepNextTime(p) \/ SetNextTime(p) \/ DoNotUpgrade(p) \/ DoUpgrade(p) \/ ForceNextTime(p)
      BY <3>1 DEF KeepNextTime, SetNextTime, DoNotUpgrade, DoUpgrade, ForceNextTime, Goto,
         PollReturns, Owns
    <3>2. CASE RunWorkers(p)
      BY <3>2 DEF RunWorkers, NoStore, Owns
    <3>3. CASE RecordCompleted(p) \/ StartedSpec(p) \/ CompletedSpec(p)
      <4>1. pc[p] \in {"startSpec", "complete", "completeSpec"} /\ cur'[p] = cur[p]
        BY <3>3 DEF RecordCompleted, StartedSpec, CompletedSpec, WriteCondition, WriteSpec, Goto
      <4>2. Accepted(p) \/ pc'[p] = "nil"
        BY <3>3 DEF RecordCompleted, StartedSpec, CompletedSpec, WriteCondition, WriteSpec, Goto,
           UpdateStatus, Update
      <4> QED BY <4>1, <4>2 DEF Owns, Accepted
    <3> QED BY <1>2, <3>1, <3>2, <3>3 DEF PollStep
  <2> QED BY <2>4, <2>5 DEF OwnersShrink
<1> QED BY <1>1, <1>2

LEMMA OwnerStep == IInv /\ OneOwner /\ [Next]_vars => OneOwner'
<1> SUFFICES ASSUME IInv, OneOwner, [Next]_vars PROVE OneOwner'
  OBVIOUS
<1> USE DEF IInv, TypeOK
<1>1. ASSUME OwnersShrink PROVE OneOwner'
  BY <1>1 DEF OwnersShrink, OneOwner
<1>2. ASSUME NEW p \in Pollers, RecordStarted(p)
      PROVE  OneOwner'
  <2> DEFINE k == RecordUpgradeStarted(obj[p].o)
             c == Returned(StatusOf(p, k))
  <2>1. /\ pc[p] = "start" /\ cur[p] \in Upgrades /\ cur' = cur /\ obj[p].o \in Objects
        /\ \A q \in Pollers \ {p} : pc'[q] = pc[q] /\ cur'[q] = cur[q]
    BY <1>2, Polling DEF RecordStarted, WriteCondition, Goto
  \* The request differs from the copy it was made of, so it is stored.
  <2>2. k # obj[p].o
    <3>1. ~obj[p].o.skip
      BY <2>1 DEF PollerKnows, canUpgrade
    <3> QED BY <2>1, <3>1 DEF RecordUpgradeStarted, Objects
  <2>3. CASE UpdateStatus(p, k, c)
    <3>1. StoreFrom(p, StatusOf(p, k), c)
      BY <2>2, <2>3, UpdateStores
    <3>2. \A q \in Pollers \ {p} : Owns(q)' => Owns(q) /\ cur[q] # cur[p]
      BY <2>1, <3>1, WriteDisowns
    <3> QED BY <2>1, <3>2 DEF OneOwner
  <2>4. CASE Fails(p, UpdateStatus(p, k, None)) /\ Goto(p, "nil")
    <3>1. \E m : StoreFrom(p, m, None) \/ NoStore(p, None)
      BY <2>4, UpdateStores DEF Fails
    <3>2. \A q \in Pollers \ {p} : Owns(q)' => Owns(q)
      BY <2>1, <3>1, WriteDisowns
    <3>3. ~Owns(p)'
      BY <2>4 DEF Goto, Owns
    <3> QED BY <1>1, <2>1, <3>2, <3>3 DEF OwnersShrink
  <2> QED BY <1>2, <2>3, <2>4 DEF RecordStarted, WriteCondition
<1>3. ASSUME NEW p \in Pollers, PollStep(p)
      PROVE  OneOwner'
  BY <1>1, <1>2, <1>3, PollOwners
<1>4. ASSUME NEW u \in Upgrades, UserStep(u)
      PROVE  OneOwner'
  <2>1. obj' = Outdate(u) /\ pc' = pc /\ cur' = cur
    BY <1>4 DEF UserStep, CreateUpgrade, DeleteUpgrade, EditUpgrade
  <2>2. ASSUME NEW q \in Pollers, Owns(q)' PROVE Owns(q)
    <3>1. obj[q] # None
      BY <2>1, <2>2, NoneAssumption DEF Owns, PollerKnows, Copies
    <3> QED BY <2>1, <2>2, <3>1, OutdateAgrees DEF Owns
  <2> QED BY <1>1, <2>1, <2>2 DEF OwnersShrink
<1>5. CASE \/ \E u \in Upgrades : CacheCatchesUp(u)
           \/ ClockAdvances \/ CacheSynced \/ pollSchedules \/ Restart \/ UNCHANGED vars
  BY <1>1, <1>5 DEF CacheCatchesUp, ClockAdvances, CacheSynced, pollSchedules, Restart, vars,
     pollVars, OwnersShrink, Owns
<1>6. CASE \/ \E u \in Upgrades : PollListed(u)
           \/ \E p \in Pollers, u \in Upgrades : AddFunc(p, u)
  BY <1>1, <1>6 DEF PollListed, AddFunc, BeginPoll, OwnersShrink, Owns
<1>7. CASE Kill
  BY <1>7 DEF Kill, Halt, OneOwner, Owns
<1> QED BY <1>3, <1>4, <1>5, <1>6, <1>7 DEF Next

\* Optimistic concurrency works: a cached, listed, queued or held copy whose
\* resource version is current is the stored object, whatever poll, startUpgrade
\* and recordUpgradeStatus, the users and failures do; and when runs of one upgrade
\* overlap, the server accepts the outcome of the last one to start and of no other.
THEOREM FreshCopies == Spec => []FreshCopiesAgree
<1>1. Init => OneOwner
  BY DEF Init, OneOwner, Owns
<1>2. IInv /\ OneOwner /\ [Next]_vars => OneOwner'
  BY OwnerStep
<1>3. IInv /\ OneOwner => FreshCopiesAgree
  BY DEF IInv, FreshCopiesAgree
<1> QED BY <1>1, <1>2, <1>3, SpecInv, PTL DEF Spec

-----------------------------------------------------------------------------
(* Upgrades start when they are due *)

\* Only the first call of recordUpgradeStatus takes a poll from "start" to
\* "startSpec", and only when the server accepts it.
LEMMA StartAccepted ==
    ASSUME IInv, Next, NEW p \in Pollers, pc[p] = "start", pc'[p] = "startSpec"
    PROVE  RecordStarted(p) /\ Accepted(p)
<1> USE DEF IInv, TypeOK
<1>1. ASSUME NEW q \in Pollers, PollStep(q)
      PROVE  RecordStarted(p) /\ Accepted(p)
  <2>1. ~Panic(q)
    BY DEF Panic, Halt
  <2>2. \E next \in PollPCs : pc' = [pc EXCEPT ![q] = next]
    BY <1>1, <2>1 DEF PollStep, KeepNextTime, SetNextTime, DoNotUpgrade, DoUpgrade, RecordStarted,
       StartedSpec, RunWorkers, RecordCompleted, CompletedSpec, ForceNextTime, WriteCondition,
       WriteSpec, Goto, PollReturns, PollPCs
  <2>3. q = p
    BY <2>2
  <2>4. RecordStarted(p)
    BY <1>1, <2>1, <2>3 DEF PollStep, KeepNextTime, SetNextTime, DoNotUpgrade, DoUpgrade,
       StartedSpec, RunWorkers, RecordCompleted, CompletedSpec, ForceNextTime
  <2> QED BY <2>4 DEF RecordStarted, WriteCondition, UpdateStatus, Goto
<1>2. CASE \E u \in Upgrades : UserStep(u) \/ CacheCatchesUp(u) \/ PollListed(u)
  BY <1>2 DEF UserStep, CreateUpgrade, DeleteUpgrade, EditUpgrade, CacheCatchesUp, PollListed,
     BeginPoll, pollVars
<1>3. CASE \E q \in Pollers, u \in Upgrades : AddFunc(q, u)
  BY <1>3 DEF AddFunc, BeginPoll
<1>4. CASE ClockAdvances \/ CacheSynced \/ pollSchedules \/ Kill \/ Restart
  BY <1>4 DEF ClockAdvances, CacheSynced, pollSchedules, Kill, Halt, Restart, pollVars
<1> QED BY <1>1, <1>2, <1>3, <1>4 DEF Next

\* What the server's check of the version makes of the poller's decision.
LEMMA StartIsDue ==
    ASSUME IInv, NEW p \in Pollers, pc[p] = "start", Accepted(p)
    PROVE  /\ cur[p] \in Upgrades /\ api[cur[p]] \in Objects /\ obj[p].o = api[cur[p]]
           /\ ~api[cur[p]].skip
           /\ 0 < api[cur[p]].next /\ api[cur[p]].next <= now[p]
           /\ \/ now[p] < api[cur[p]].next + LookBack
              \/ now[p] = api[cur[p]].next + LookBack /\ api[cur[p]].sched = BadSchedule
           /\ now[p] <= clock
<1>1. /\ cur[p] \in Upgrades /\ obj[p].o \in Objects /\ obj[p].o.next \in Nat /\ now[p] \in Nat
      /\ obj[p].o = api[cur[p]]
  BY Polling DEF Accepted
<1>2. canUpgrade(obj[p].o, now[p]) /\ Renewed(obj[p].o, now[p]) /\ now[p] <= clock
  BY DEF IInv, PollerKnows
<1> QED BY <1>1, <1>2, TimeAssumption DEF canUpgrade, Renewed, NeedsNextTime

\* poll decides on a copy of the object, and startUpgrade writes some steps later:
\* at that moment the stored object itself is enabled and inside the window.
THEOREM StartsWhenDue == Spec => StartsDue
<1> DEFINE Due(p) == pc[p] = "start" /\ pc'[p] = "startSpec" =>
               LET k == api[cur[p]] IN
               /\ ~k.skip
               /\ 0 < k.next /\ k.next <= now[p]
               /\ \/ now[p] < k.next + LookBack
                  \/ now[p] = k.next + LookBack /\ k.sched = BadSchedule
<1>1. IInv /\ [Next]_vars => [\A p \in Pollers : Due(p)]_vars
  <2> SUFFICES ASSUME IInv, Next, NEW p \in Pollers PROVE Due(p)
    OBVIOUS
  <2> QED BY StartAccepted, StartIsDue
<1> QED BY <1>1, SpecInv, PTL DEF Spec, StartsDue

-----------------------------------------------------------------------------
(* With one poller and no failure, runs of an upgrade do not overlap *)

\* The ticker loop is the only goroutine that polls, no call times out, nobody
\* edits an object and the process is not killed.
Undisturbed == Pollers = {Ticker} /\ Faults = {}

Started(u) == api[u] # None /\ api[u].cond = "started"

\* An upgrade is stored as started only while the ticker is running it, and then
\* the ticker's copy is current: the write of the outcome will be accepted.
OneRun ==
    \A u \in Upgrades : Started(u) =>
        cur[Ticker] = u /\ pc[Ticker] \in Recording /\ obj[Ticker].fresh

\* The only poller's last status write of a run is accepted, and replaces "started".
LEMMA RecordingKeeps ==
    ASSUME Undisturbed, IInv, OneRun, NEW p \in Pollers,
           StartedSpec(p) \/ RunWorkers(p) \/ RecordCompleted(p)
    PROVE  OneRun'
<1>1. /\ p = Ticker /\ pc[p] \in Recording /\ pc[p] \notin {"idle", "nil"}
      /\ "error" \notin Faults /\ pc \in [Pollers -> PollPCs] /\ obj \in [Pollers -> Copies \cup {None}]
      /\ api \in [Upgrades -> Objects \cup {None}]
  BY DEF Undisturbed, StartedSpec, RunWorkers, RecordCompleted, Recording, IInv, TypeOK
<1>2. /\ cur[p] \in Upgrades /\ obj[p] \in Copies /\ obj[p].o \in Objects /\ now[p] \in Times
      /\ obj[p].o.cond = "started"
  BY <1>1, Polling DEF IInv, PollerKnows
<1>3. \A v \in Upgrades \ {cur[p]} : ~Started(v)
  BY <1>1 DEF OneRun
<1>4. Started(cur[p]) => Accepted(p)
  BY <1>1, <1>2 DEF OneRun, Started, Accepted
<1>5. CASE StartedSpec(p)
  <2> DEFINE c == Returned(SpecOf(p, obj[p].o))
  <2>1. api' = api
    BY <1>1, <1>5, WriteSpecInv DEF StartedSpec, Begun, Recording, IInv, PollerKnows
  <2>2. ASSUME Accepted(p)
        PROVE  cur' = cur /\ pc'[p] = "run" /\ obj'[p].fresh
    <3>1. Update(p, obj[p].o, c) /\ Goto(p, "run")
      BY <1>1, <1>5, <2>2 DEF StartedSpec, WriteSpec, Fails
    <3>2. SpecOf(p, obj[p].o) = api[cur[p]]
      BY <1>1, <1>2, <2>2, AcceptedWrite
    <3>3. obj' = [obj EXCEPT ![p] = c]
      BY <3>1, <3>2 DEF Update, NoStore
    <3>4. c.fresh
      BY DEF Returned
    <3> QED BY <1>1, <3>1, <3>3, <3>4 DEF Goto
  <2> QED BY <1>1, <1>3, <1>4, <2>1, <2>2 DEF OneRun, Started, Recording
<1>6. CASE RunWorkers(p)
  BY <1>1, <1>6 DEF RunWorkers, NoStore, OneRun, Started, Recording
<1>7. CASE RecordCompleted(p)
  <2> DEFINE k == RecordUpgradeCompleted(obj[p].o, failed[p])
             c == Returned(StatusOf(p, k))
  <2>1. /\ k \in Objects /\ k.cond \in {"completed", "failed"}
    BY <1>2, Computed DEF IInv, TypeOK
  <2>2. k # obj[p].o
    BY <1>2, <2>1
  <2>3. CASE Accepted(p)
    <3>1. UpdateStatus(p, k, c)
      BY <1>1, <1>7, <2>3 DEF RecordCompleted, WriteCondition, Fails
    <3>2. Store(cur[p], StatusOf(p, k))
      BY <2>2, <3>1 DEF UpdateStatus, StoreFrom
    <3>3. StatusOf(p, k).cond \in {"completed", "failed"}
      BY <1>1, <2>1, <2>3, AcceptedWrite
    <3>4. \A v \in Upgrades : ~Started(v)'
      BY <1>1, <1>2, <1>3, <3>2, <3>3 DEF Store, Started
    <3> QED BY <3>4 DEF OneRun
  <2>4. CASE ~Accepted(p)
    <3>1. api' = api
      BY <1>1, <1>7, <2>4 DEF RecordCompleted, WriteCondition, UpdateStatus, Fails, NoStore
    <3> QED BY <1>3, <1>4, <2>4, <3>1 DEF OneRun, Started
  <2> QED BY <2>3, <2>4
<1> QED BY <1>5, <1>6, <1>7

\* Outside Recording nothing is stored as started, and only RecordStarted changes that.
LEMMA PollKeeps ==
    ASSUME Undisturbed, IInv, OneRun, NEW p \in Pollers, PollStep(p)
    PROVE  OneRun'
<1>1. /\ p = Ticker /\ "error" \notin Faults
      /\ pc \in [Pollers -> PollPCs] /\ api \in [Upgrades -> Objects \cup {None}]
  BY DEF Undisturbed, IInv, TypeOK
<1>2. CASE StartedSpec(p) \/ RunWorkers(p) \/ RecordCompleted(p)
  BY <1>2, RecordingKeeps
<1>3. ASSUME pc[p] \notin Recording
      PROVE  \A v \in Upgrades : ~Started(v)
  BY <1>1, <1>3 DEF OneRun
<1>4. ASSUME pc[p] \notin Recording, api' = api
      PROVE  OneRun'
  BY <1>3, <1>4 DEF OneRun, Started
\* A new next time leaves the condition as it is.
<1>5. ASSUME pc[p] \in {"poll", "force"}, NEW k \in Objects, Accepted(p),
             k = UpdateNextScheduledTime(obj[p].o, now[p]),
             api' = [api EXCEPT ![cur[p]] = StatusOf(p, k)]
      PROVE  OneRun'
  <2>1. /\ cur[p] \in Upgrades /\ obj[p].o \in Objects /\ now[p] \in Times
        /\ obj[p].o = api[cur[p]] /\ StatusOf(p, k).cond = k.cond /\ api[cur[p]] # None
    BY <1>5, Polling, AcceptedWrite, NoneAssumption
  <2>2. k.cond = obj[p].o.cond
    BY <1>5, <2>1 DEF UpdateNextScheduledTime, Objects
  <2>3. \A v \in Upgrades : Started(v)' => Started(v)
    BY <1>1, <1>5, <2>1, <2>2 DEF Started
  <2> QED BY <1>3, <1>5, <2>3 DEF OneRun, Recording
<1>6. CASE SetNextTime(p)
  <2> DEFINE k == UpdateNextScheduledTime(obj[p].o, now[p])
  <2>1. pc[p] \notin {"idle", "nil"} /\ k \in Objects
    BY <1>6, Polling, Computed DEF SetNextTime
  <2>2. api' = api \/ (Accepted(p) /\ api' = [api EXCEPT ![cur[p]] = StatusOf(p, k)])
    BY <1>6, <2>1, UpdateStatusWrites, FailedStatusWrites DEF SetNextTime
  <2> QED BY <1>4, <1>5, <1>6, <2>1, <2>2 DEF SetNextTime, Recording
<1>7. CASE ForceNextTime(p)
  <2> DEFINE k == UpdateNextScheduledTime(obj[p].o, now[p])
  <2>1. pc[p] \notin {"idle", "nil"} /\ k \in Objects
    BY <1>7, Polling, Computed DEF ForceNextTime
  <2>2. api' = api \/ (Accepted(p) /\ api' = [api EXCEPT ![cur[p]] = StatusOf(p, k)])
    BY <1>7, <2>1, UpdateStatusWrites, FailedStatusWrites DEF ForceNextTime
  <2> QED BY <1>4, <1>5, <1>7, <2>1, <2>2 DEF ForceNextTime, Recording
<1>8. CASE RecordStarted(p)
  <2> DEFINE k == RecordUpgradeStarted(obj[p].o)
             c == Returned(StatusOf(p, k))
  <2>1. /\ pc[p] = "start" /\ pc[p] \notin {"idle", "nil"} /\ pc[p] \notin Recording
        /\ k \in Objects /\ cur[p] \in Upgrades
    BY <1>8, Polling, Computed DEF RecordStarted, Recording
  <2>2. CASE UpdateStatus(p, k, c) /\ Goto(p, "startSpec")
    <3>1. /\ Write(p, StatusOf(p, k), c) /\ StatusOf(p, k) \in Objects /\ c \in Copies \cup {None}
          /\ api' \in {api, [api EXCEPT ![cur[p]] = StatusOf(p, k)]}
      BY <2>1, <2>2, UpdateStatusWrites
    <3>2. cur' = cur /\ pc'[p] = "startSpec"
      BY <1>1, <2>2 DEF Goto
    <3>3. obj'[p] = c /\ c.fresh
      BY <2>1, <3>1, <3>2, WriteAgrees DEF Returned, IInv, TypeOK
    <3>4. \A v \in Upgrades \ {cur[p]} : ~Started(v)'
      BY <1>1, <1>3, <2>1, <3>1 DEF Started
    <3> QED BY <1>1, <3>2, <3>3, <3>4 DEF OneRun, Started, Recording
  <2>3. CASE Fails(p, UpdateStatus(p, k, None))
    BY <1>1, <1>4, <2>1, <2>3 DEF Fails, NoStore
  <2> QED BY <1>8, <2>2, <2>3 DEF RecordStarted, WriteCondition
<1>9. CASE CompletedSpec(p)
  <2>1. api' = api /\ pc[p] \notin Recording
    BY <1>9, WriteSpecInv DEF CompletedSpec, Begun, Recording
  <2> QED BY <1>4, <2>1
<1>10. CASE KeepNextTime(p) \/ DoNotUpgrade(p) \/ DoUpgrade(p) \/ Panic(p)
  BY <1>4, <1>10 DEF KeepNextTime, DoNotUpgrade, DoUpgrade, Panic, Halt, NoStore, Recording
<1> QED BY <1>2, <1>6, <1>7, <1>8, <1>9, <1>10 DEF PollStep

LEMMA OneRunStep == Undisturbed /\ IInv /\ OneRun /\ [Next]_vars => OneRun'
<1> SUFFICES ASSUME Undisturbed, IInv, OneRun, [Next]_vars PROVE OneRun'
  OBVIOUS
<1>1. /\ pc \in [Pollers -> PollPCs] /\ api \in [Upgrades -> Objects \cup {None}]
      /\ obj \in [Pollers -> Copies \cup {None}] /\ Ticker \in Pollers
  BY PollersAssumption DEF IInv, TypeOK
<1>2. ASSUME NEW u \in Upgrades, UserStep(u)
      PROVE  OneRun'
  <2>1. CreateUpgrade(u)
    BY <1>2 DEF UserStep, DeleteUpgrade, EditUpgrade, Undisturbed
  <2>2. PICK s \in Schedules \cup {BadSchedule}, b \in BOOLEAN :
            Store(u, [sched |-> s, skip |-> b, next |-> 0, cond |-> "none"])
    BY <2>1 DEF CreateUpgrade
  <2>3. \A v \in Upgrades : Started(v)' => v # u /\ Started(v)
    BY <1>1, <2>2 DEF Store, Started
  <2>4. pc' = pc /\ cur' = cur /\ (cur[Ticker] # u => obj'[Ticker] = obj[Ticker])
    BY <1>1, <2>1 DEF CreateUpgrade, Outdate
  <2> QED BY <2>3, <2>4 DEF OneRun
<1>3. CASE \E p \in Pollers : PollStep(p)
  BY <1>3, PollKeeps
<1>4. CASE \/ \E u \in Upgrades : CacheCatchesUp(u)
           \/ ClockAdvances \/ CacheSynced \/ pollSchedules \/ Restart \/ UNCHANGED vars
  BY <1>4 DEF CacheCatchesUp, ClockAdvances, CacheSynced, pollSchedules, Restart, vars, pollVars,
     OneRun, Started
<1>5. CASE \E u \in Upgrades : PollListed(u)
  BY <1>5 DEF PollListed, OneRun, Started, Recording
<1>6. ~Kill /\ ~(\E p \in Pollers, u \in Upgrades : AddFunc(p, u))
  BY DEF Undisturbed, Kill, AddFunc
<1> QED BY <1>2, <1>3, <1>4, <1>5, <1>6 DEF Next

\* With the ticker loop alone and no failure, startUpgrade stores "started" only
\* when the outcome of the previous run is stored: the blocking wait in poll is the
\* only thing that keeps the runs apart.
THEOREM RunsDoNotOverlap ==
    ASSUME Undisturbed
    PROVE  Spec => NoOverlap
<1>1. Init => OneRun
  BY DEF Init, OneRun, Started
<1>2. IInv /\ OneRun /\ [Next]_vars => OneRun'
  BY OneRunStep
<1> DEFINE Apart(p) == pc[p] = "start" /\ pc'[p] = "startSpec" => api[cur[p]].cond # "started"
<1>3. IInv /\ OneRun /\ [Next]_vars => [\A p \in Pollers : Apart(p)]_vars
  <2> SUFFICES ASSUME IInv, OneRun, Next, NEW p \in Pollers, pc[p] = "start", pc'[p] = "startSpec",
                      api[cur[p]].cond = "started"
               PROVE  FALSE
    OBVIOUS
  <2>1. cur[p] \in Upgrades /\ api[cur[p]] # None
    BY StartAccepted, StartIsDue, NoneAssumption
  <2>2. p = Ticker
    BY DEF Undisturbed
  <2> QED BY <2>1, <2>2 DEF OneRun, Started, Recording
<1> QED BY <1>1, <1>2, <1>3, SpecInv, PTL DEF Spec, NoOverlap

-----------------------------------------------------------------------------
(* What the controller can write *)

\* All that a step of poll or startUpgrade does to the stored objects is to store
\* the status of one request, for the upgrade it is polling.
LEMMA ControllerWrites ==
    ASSUME IInv, NEW p \in Pollers, PollStep(p)
    PROVE  \/ api' = api
           \/ /\ pc[p] \notin {"idle", "nil"} /\ Accepted(p)
              /\ \E k \in Objects : api' = [api EXCEPT ![cur[p]] = StatusOf(p, k)]
<1> DEFINE Written(k) == Accepted(p) /\ api' = [api EXCEPT ![cur[p]] = StatusOf(p, k)]
<1>1. CASE SetNextTime(p) \/ ForceNextTime(p)
  <2> DEFINE k == UpdateNextScheduledTime(obj[p].o, now[p])
  <2>1. pc[p] \notin {"idle", "nil"} /\ k \in Objects
    BY <1>1, Polling, Computed DEF SetNextTime, ForceNextTime
  <2>2. api' = api \/ Written(k)
    BY <1>1, <2>1, UpdateStatusWrites, FailedStatusWrites DEF SetNextTime, ForceNextTime
  <2> QED BY <2>1, <2>2
<1>2. CASE RecordStarted(p)
  <2> DEFINE k == RecordUpgradeStarted(obj[p].o)
  <2>1. pc[p] \notin {"idle", "nil"} /\ k \in Objects
    BY <1>2, Polling, Computed DEF RecordStarted
  <2>2. api' = api \/ Written(k)
    BY <1>2, <2>1, UpdateStatusWrites, FailedStatusWrites DEF RecordStarted, WriteCondition
  <2> QED BY <2>1, <2>2
<1>3. CASE RecordCompleted(p)
  <2> DEFINE k == RecordUpgradeCompleted(obj[p].o, failed[p])
  <2>1. pc[p] \notin {"idle", "nil"} /\ k \in Objects
    BY <1>3, Polling, Computed DEF RecordCompleted, IInv, TypeOK
  <2>2. api' = api \/ Written(k)
    BY <1>3, <2>1, UpdateStatusWrites, FailedStatusWrites DEF RecordCompleted, WriteCondition
  <2> QED BY <2>1, <2>2
<1>4. CASE StartedSpec(p) \/ CompletedSpec(p)
  BY <1>4, WriteSpecInv DEF StartedSpec, CompletedSpec, Begun, IInv, PollerKnows, Recording
<1>5. CASE KeepNextTime(p) \/ DoNotUpgrade(p) \/ DoUpgrade(p) \/ RunWorkers(p) \/ Panic(p)
  BY <1>5 DEF KeepNextTime, DoNotUpgrade, DoUpgrade, RunWorkers, Panic, Halt, NoStore
<1> QED BY <1>1, <1>2, <1>3, <1>4, <1>5 DEF PollStep

\* The label and the schedule of every stored object are what they were.
SpecKept ==
    \A u \in Upgrades : api[u] # None =>
        /\ api'[u] # None
        /\ api'[u].skip = api[u].skip /\ api'[u].sched = api[u].sched

\* The skip label that RecordUpgradeStarted sets, and RecordUpgradeCompleted removes,
\* never reaches the API server, with any number of pollers, in any order of requests
\* and failures: the second request of recordUpgradeStatus sends back what the first
\* one returned, and that is the object without the change of the label.  What keeps
\* an upgrade from being started twice is therefore not the label.
THEOREM LabelNeverStored == Spec => [][\A p \in Pollers : PollStep(p) => SpecKept]_vars
<1>1. IInv /\ [Next]_vars => [\A p \in Pollers : PollStep(p) => SpecKept]_vars
  <2> SUFFICES ASSUME IInv, NEW p \in Pollers, PollStep(p), NEW u \in Upgrades, api[u] # None
               PROVE  /\ api'[u] # None
                      /\ api'[u].skip = api[u].skip /\ api'[u].sched = api[u].sched
    BY DEF SpecKept
  <2>1. CASE api' = api
    BY <2>1
  <2>2. ASSUME pc[p] \notin {"idle", "nil"}, Accepted(p), NEW k \in Objects,
               api' = [api EXCEPT ![cur[p]] = StatusOf(p, k)]
        PROVE  /\ api'[u] # None
               /\ api'[u].skip = api[u].skip /\ api'[u].sched = api[u].sched
    <3>1. api[cur[p]] \in Objects /\ StatusOf(p, k) \in Objects /\ cur[p] \in Upgrades
      BY <2>2, AcceptedWrite, Polling
    <3>2. StatusOf(p, k).skip = api[cur[p]].skip /\ StatusOf(p, k).sched = api[cur[p]].sched
      BY <3>1 DEF StatusOf, Objects
    <3> QED BY <2>2, <3>1, <3>2, NoneAssumption DEF IInv, TypeOK
  <2> QED BY <2>1, <2>2, ControllerWrites
<1> QED BY <1>1, SpecInv, PTL DEF Spec

-----------------------------------------------------------------------------
(* Reconcile implements UpgradeLifecycle *)

AbstractStep == [Lifecycle!Next]_<<api, clock>>

\* A new next scheduled time that reaches the server is a Reschedule.
LEMMA Reschedules ==
    ASSUME IInv, NEW p \in Pollers, pc[p] \notin {"idle", "nil"}, Accepted(p),
           NEW k, k = UpdateNextScheduledTime(obj[p].o, now[p]), obj[p].o.next <= now[p],
           api' = [api EXCEPT ![cur[p]] = StatusOf(p, k)], clock' = clock
    PROVE  AbstractStep
<1> DEFINE u == cur[p]
<1>1. /\ u \in Upgrades /\ obj[p].o \in Objects /\ obj[p].o.next \in Nat
      /\ now[p] \in Times /\ now[p] \in Nat
  BY Polling
<1>2. /\ k \in Objects /\ (k = obj[p].o \/ k.next > now[p])
      /\ k = [obj[p].o EXCEPT !.next = k.next]
  BY <1>1, Computed
<1>3. /\ obj[p].o = api[u] /\ api[u] \in Objects /\ api[u] # None
      /\ StatusOf(p, k) = [obj[p].o EXCEPT !.next = k.next, !.cond = k.cond]
  BY <1>1, <1>2, AcceptedWrite, NoneAssumption
<1>4. StatusOf(p, k) = [api[u] EXCEPT !.next = k.next]
  BY <1>2, <1>3 DEF Objects
<1>5. CASE k = obj[p].o
  <2>1. StatusOf(p, k) = api[u]
    BY <1>3, <1>4, <1>5 DEF Objects
  <2> QED BY <1>1, <2>1 DEF AbstractStep, IInv, TypeOK
<1>6. CASE k.next > now[p]
  <2>1. api'[u] = [api[u] EXCEPT !.next = k.next] /\ k.next \in Nat
    BY <1>1, <1>2, <1>4 DEF IInv, TypeOK, Objects
  <2>2. api'[u].next = k.next /\ api'[u] \in Objects
    BY <1>3, <2>1 DEF Objects
  <2>3. api'[u] # None /\ api'[u].next > api[u].next
    BY <1>1, <1>3, <1>6, <2>1, <2>2, NoneAssumption
  <2>4. api' = [api EXCEPT ![u].next = api'[u].next]
    BY <1>4, <2>2
  <2>5. Lifecycle!Reschedule(u)
    BY <2>3, <2>4 DEF Lifecycle!Reschedule
  <2> QED BY <1>1, <1>3, <2>5 DEF AbstractStep, Lifecycle!Next
<1> QED BY <1>2, <1>5, <1>6

\* A new condition that reaches the server is a Start or a Finish.
LEMMA ConditionStored ==
    ASSUME IInv, NEW p \in Pollers, pc[p] \notin {"idle", "nil"}, Accepted(p),
           NEW k \in Objects, k.next = obj[p].o.next,
           \/ pc[p] = "start" /\ k.cond = "started"
           \/ pc[p] = "complete" /\ k.cond \in {"completed", "failed"},
           api' = [api EXCEPT ![cur[p]] = StatusOf(p, k)], clock' = clock
    PROVE  AbstractStep
<1> DEFINE u == cur[p]
<1>1. u \in Upgrades /\ api[u] \in Objects /\ api[u] # None /\ obj[p].o = api[u]
  BY AcceptedWrite, Polling, NoneAssumption
<1>2. StatusOf(p, k) = [obj[p].o EXCEPT !.next = k.next, !.cond = k.cond]
  BY AcceptedWrite
<1>3. StatusOf(p, k) = [api[u] EXCEPT !.cond = k.cond]
  BY <1>1, <1>2 DEF Objects
<1>4. api' = [api EXCEPT ![u].cond = k.cond]
  BY <1>3
<1>5. CASE pc[p] = "start" /\ k.cond = "started"
  <2>1. ~api[u].skip /\ 0 < api[u].next /\ api[u].next <= now[p] /\ now[p] <= clock
    BY <1>5, StartIsDue
  <2>2. api[u].next \in Nat /\ now[p] \in Nat /\ clock \in Nat
    BY <1>1, Polling DEF Objects, IInv, TypeOK, Times
  <2>3. api[u].next <= clock
    BY <2>1, <2>2
  <2>4. api' = [api EXCEPT ![u].cond = "started"]
    BY <1>4, <1>5
  <2>5. Lifecycle!Start(u)
    BY <2>1, <2>3, <2>4 DEF Lifecycle!Start
  <2> QED BY <1>1, <2>5 DEF AbstractStep, Lifecycle!Next
<1>6. CASE pc[p] = "complete" /\ k.cond \in {"completed", "failed"}
  <2>1. api[u].cond = "started"
    BY <1>1, <1>6 DEF IInv, PollerKnows, Recording
  <2>2. Lifecycle!Finish(u)
    BY <1>4, <1>6, <2>1 DEF Lifecycle!Finish
  <2> QED BY <1>1, <2>2 DEF AbstractStep, Lifecycle!Next
<1> QED BY <1>5, <1>6

\* Each step of poll and startUpgrade is an abstract step or changes nothing.
LEMMA PollStepRefines ==
    ASSUME IInv, NEW p \in Pollers, PollStep(p)
    PROVE  AbstractStep
<1> USE DEF AbstractStep, environment
<1>1. CASE SetNextTime(p)
  <2> DEFINE k == UpdateNextScheduledTime(obj[p].o, now[p])
  <2>1. /\ pc[p] \notin {"idle", "nil"} /\ k \in Objects
        /\ obj[p].o.next \in Nat /\ now[p] \in Nat
        /\ NeedsNextTime(obj[p].o, now[p], FALSE)
    BY <1>1, Polling, Computed DEF SetNextTime
  <2>2. obj[p].o.next <= now[p]
    BY <2>1, TimeAssumption DEF NeedsNextTime
  <2>3. api' = api \/ (Accepted(p) /\ api' = [api EXCEPT ![cur[p]] = StatusOf(p, k)])
    BY <1>1, <2>1, UpdateStatusWrites, FailedStatusWrites DEF SetNextTime
  <2> QED BY <1>1, <2>1, <2>2, <2>3, Reschedules DEF SetNextTime
<1>2. CASE ForceNextTime(p)
  <2> DEFINE k == UpdateNextScheduledTime(obj[p].o, now[p])
  <2>1. pc[p] \notin {"idle", "nil"} /\ k \in Objects /\ obj[p].o.next <= now[p]
    BY <1>2, Polling, Computed DEF ForceNextTime, IInv, PollerKnows, Begun
  <2>2. api' = api \/ (Accepted(p) /\ api' = [api EXCEPT ![cur[p]] = StatusOf(p, k)])
    BY <1>2, <2>1, UpdateStatusWrites, FailedStatusWrites DEF ForceNextTime
  <2> QED BY <1>2, <2>1, <2>2, Reschedules DEF ForceNextTime
<1>3. CASE RecordStarted(p)
  <2> DEFINE k == RecordUpgradeStarted(obj[p].o)
  <2>1. /\ pc[p] = "start"
        /\ k \in Objects /\ k.next = obj[p].o.next /\ k.cond = "started"
    BY <1>3, Polling, Computed DEF RecordStarted
  <2>2. api' = api \/ (Accepted(p) /\ api' = [api EXCEPT ![cur[p]] = StatusOf(p, k)])
    BY <1>3, <2>1, UpdateStatusWrites, FailedStatusWrites DEF RecordStarted, WriteCondition
  <2> QED BY <1>3, <2>1, <2>2, ConditionStored DEF RecordStarted, WriteCondition
<1>4. CASE RecordCompleted(p)
  <2> DEFINE k == RecordUpgradeCompleted(obj[p].o, failed[p])
  <2>1. failed[p] \in BOOLEAN /\ obj[p].o \in Objects /\ now[p] \in Times /\ pc[p] = "complete"
    BY <1>4, Polling DEF RecordCompleted, IInv, TypeOK
  <2>2. k \in Objects /\ k.next = obj[p].o.next /\ k.cond \in {"completed", "failed"}
    BY <2>1, Computed
  <2>3. api' = api \/ (Accepted(p) /\ api' = [api EXCEPT ![cur[p]] = StatusOf(p, k)])
    BY <1>4, <2>1, <2>2, UpdateStatusWrites, FailedStatusWrites DEF RecordCompleted, WriteCondition
  <2> QED BY <1>4, <2>1, <2>2, <2>3, ConditionStored DEF RecordCompleted, WriteCondition
<1>5. CASE StartedSpec(p)
  BY <1>5, WriteSpecInv DEF StartedSpec, WriteSpec, Begun, IInv, PollerKnows, Recording
<1>6. CASE CompletedSpec(p)
  BY <1>6, WriteSpecInv DEF CompletedSpec, WriteSpec, Begun
<1>7. CASE KeepNextTime(p) \/ DoNotUpgrade(p) \/ DoUpgrade(p) \/ RunWorkers(p)
  BY <1>7 DEF KeepNextTime, DoNotUpgrade, DoUpgrade, RunWorkers, NoStore
<1>8. CASE Panic(p)
  BY <1>8 DEF Panic, Halt
<1> QED BY <1>1, <1>2, <1>3, <1>4, <1>5, <1>6, <1>7, <1>8 DEF PollStep

LEMMA UserStepRefines ==
    ASSUME IInv, NEW u \in Upgrades, UserStep(u)
    PROVE  AbstractStep
<1>1. CASE CreateUpgrade(u)
  BY <1>1 DEF CreateUpgrade, Store, Lifecycle!Create, Lifecycle!Next, AbstractStep
<1>2. CASE DeleteUpgrade(u)
  BY <1>2 DEF DeleteUpgrade, Store, Lifecycle!Delete, Lifecycle!Next, AbstractStep
<1>3. CASE EditUpgrade(u)
  <2>1. PICK s \in Schedules \cup {BadSchedule}, b \in BOOLEAN :
            api' = [api EXCEPT ![u] = [api[u] EXCEPT !.sched = s, !.skip = b]]
    BY <1>3 DEF EditUpgrade, Store
  <2>2. api' = [api EXCEPT ![u].sched = s, ![u].skip = b]
    BY <2>1 DEF IInv, TypeOK
  <2>3. Lifecycle!Edit(u)
    BY <1>3, <2>2 DEF EditUpgrade, Lifecycle!Edit
  <2> QED BY <1>3, <2>3 DEF EditUpgrade, Lifecycle!Next, AbstractStep
<1> QED BY <1>1, <1>2, <1>3 DEF UserStep

LEMMA NextRefines == IInv /\ [Next]_vars => AbstractStep
<1> SUFFICES ASSUME IInv, [Next]_vars PROVE AbstractStep
  OBVIOUS
<1>1. CASE \E u \in Upgrades : UserStep(u)
  BY <1>1, UserStepRefines
<1>2. CASE \E p \in Pollers : PollStep(p)
  BY <1>2, PollStepRefines
<1>3. CASE ClockAdvances
  BY <1>3 DEF ClockAdvances, Lifecycle!Tick, Lifecycle!Next, AbstractStep
<1>4. CASE \/ \E u \in Upgrades : CacheCatchesUp(u) \/ PollListed(u)
           \/ \E p \in Pollers, u \in Upgrades : AddFunc(p, u)
           \/ CacheSynced \/ pollSchedules \/ Kill \/ Restart
           \/ UNCHANGED vars
  BY <1>4 DEF CacheCatchesUp, PollListed, AddFunc, CacheSynced, pollSchedules, Kill, Halt,
     Restart, vars, AbstractStep
<1> QED BY <1>1, <1>2, <1>3, <1>4 DEF Next

\* Whatever the two polling goroutines, the lagging cache, the users and failures
\* do, the stored objects live the life of UpgradeLifecycle: next times only move
\* forward, upgrades start when they are due, outcomes follow starts.
THEOREM Implements == Spec => LifecycleSpec
<1>1. Init => Lifecycle!Init
  BY DEF Init, Lifecycle!Init
<1>2. IInv /\ [Next]_vars => [Lifecycle!Next]_<<api, clock>>
  BY NextRefines DEF AbstractStep
<1> QED BY <1>1, <1>2, SpecInv, PTL DEF Spec, LifecycleSpec, Lifecycle!Spec

=============================================================================
