--------------------------- MODULE RunWorkersProofs ---------------------------
(***************************************************************************)
(* Proofs about what a run of UpgradeRun may rely on of its workers: none  *)
(* of their errors is lost on the way to errs, and the outcome that is     *)
(* stored says so; it starts at most one worker per node; as long as no    *)
(* two pollers run the same upgrade, a worker that calls Get finds a key,  *)
(* so that the run always has a step to take; and a worker that runs alone *)
(* has a context that nobody has cancelled.                                *)
(***************************************************************************)
EXTENDS UpgradeRunProofs

-----------------------------------------------------------------------------
(* Counting the true elements of a sequence *)

TrueIn(s) == {i \in DOMAIN s : s[i]}
One(b)    == IF b THEN 1 ELSE 0

LEMMA TrueInFinite ==
    ASSUME NEW s \in Seq(BOOLEAN)
    PROVE  IsFiniteSet(TrueIn(s)) /\ Cardinality(TrueIn(s)) \in Nat
<1>1. IsFiniteSet(1 .. Len(s)) /\ DOMAIN s = 1 .. Len(s)
  BY FS_Interval
<1>2. TrueIn(s) \in SUBSET (1 .. Len(s))
  BY <1>1 DEF TrueIn
<1> QED BY <1>1, <1>2, FS_Subset, FS_CardinalityType

LEMMA AppendCounts ==
    ASSUME NEW s \in Seq(BOOLEAN), NEW b \in BOOLEAN
    PROVE  Cardinality(TrueIn(Append(s, b))) = Cardinality(TrueIn(s)) + One(b)
<1> DEFINE n == Len(s) + 1
<1>1. CASE b
  <2>1. TrueIn(Append(s, b)) = TrueIn(s) \cup {n} /\ n \notin TrueIn(s)
    BY <1>1 DEF TrueIn
  <2> HIDE DEF n
  <2> QED BY <1>1, <2>1, TrueInFinite, FS_AddElement DEF One
<1>2. CASE ~b
  <2>1. TrueIn(Append(s, b)) = TrueIn(s)
    BY <1>2 DEF TrueIn
  <2> QED BY <1>2, <2>1, TrueInFinite DEF One
<1> QED BY <1>1, <1>2

LEMMA TailCounts ==
    ASSUME NEW s \in Seq(BOOLEAN), s # <<>>
    PROVE  Cardinality(TrueIn(s)) = Cardinality(TrueIn(Tail(s))) + One(Head(s))
<1> DEFINE S == TrueIn(Tail(s))
           T == TrueIn(s) \ {1}
           f == [i \in S |-> i + 1]
<1>1. Head(s) = s[1] /\ Head(s) \in BOOLEAN /\ Tail(s) \in Seq(BOOLEAN) /\ DOMAIN s = 1 .. Len(s) /\ Len(s) \in Nat \ {0}
      /\ DOMAIN Tail(s) = 1 .. Len(s) - 1
      /\ \A i \in 1 .. Len(s) - 1 : Tail(s)[i] = s[i + 1]
  OBVIOUS
<1>2. f \in Bijection(S, T)
  <2>1. \A i \in S : i \in Nat /\ i + 1 \in T
    BY <1>1 DEF TrueIn
  <2>2. \A j \in T : \E i \in S : f[i] = j
    <3> SUFFICES ASSUME NEW j \in T PROVE \E i \in S : f[i] = j
      OBVIOUS
    <3>1. j \in 2 .. Len(s) /\ s[j]
      BY <1>1 DEF TrueIn
    <3>2. j - 1 \in 1 .. Len(s) - 1 /\ (j - 1) + 1 = j
      BY <1>1, <3>1
    <3>3. j - 1 \in S
      BY <1>1, <3>1, <3>2 DEF TrueIn
    <3> QED BY <3>2, <3>3
  <2>3. f \in Injection(S, T)
    <3>1. f \in [S -> T] /\ \A i, j \in S : f[i] = f[j] => i = j
      BY <2>1
    <3> QED BY <3>1 DEF Injection, IsInjective
  <2>4. f \in Surjection(S, T)
    BY <2>1, <2>2 DEF Surjection
  <2> QED BY <2>3, <2>4 DEF Bijection
<1>3. IsFiniteSet(S) /\ Cardinality(T) = Cardinality(S)
  BY <1>1, <1>2, TrueInFinite, FS_Bijection DEF ExistsBijection
<1>4. 1 \in TrueIn(s) <=> Head(s)
  <2>1. 1 \in DOMAIN s
    BY <1>1
  <2> QED BY <1>1, <2>1, Zenon DEF TrueIn
<1>5. IsFiniteSet(TrueIn(s)) /\ Cardinality(TrueIn(s)) \in Nat
  BY TrueInFinite
<1> HIDE DEF S, f
<1>6. Cardinality(T) = IF 1 \in TrueIn(s) THEN Cardinality(TrueIn(s)) - 1 ELSE Cardinality(TrueIn(s))
  BY <1>5, FS_RemoveElement
<1>7. Cardinality(S) = IF Head(s) THEN Cardinality(TrueIn(s)) - 1 ELSE Cardinality(TrueIn(s))
  BY <1>3, <1>4, <1>6
<1>8. CASE Head(s)
  <2>1. One(Head(s)) = 1 /\ Cardinality(S) = Cardinality(TrueIn(s)) - 1
    BY <1>7, <1>8, Zenon DEF One
  <2> QED BY <1>5, <2>1 DEF S
<1>9. CASE ~Head(s)
  <2>1. One(Head(s)) = 0 /\ Cardinality(S) = Cardinality(TrueIn(s))
    BY <1>7, <1>9, Zenon DEF One
  <2> QED BY <1>5, <2>1 DEF S
<1> QED BY <1>8, <1>9

-----------------------------------------------------------------------------
(* Errors on their way from the workers to errs *)

Carried(p)   == errs[p] + One(hand[p]) + Cardinality(TrueIn(errChan[p]))
Accounted(p) == Cardinality(FailuresSent(p)) = Carried(p)

LEMMA AllAccounted == ErrorsAccounted <=> \A p \in Pollers : Accounted(p)
BY DEF ErrorsAccounted, Accounted, Carried, One, TrueIn, Buffered

LEMMA AccountedNext == ErrorsAccounted' <=> \A p \in Pollers : Accounted(p)'
BY DEF ErrorsAccounted, Accounted, Carried, One, TrueIn, Buffered

\* The workers of one poller are finitely many, and so are those that have failed.
LEMMA FailuresFinite ==
    ASSUME NEW p \in Pollers
    PROVE  IsFiniteSet(FailuresSent(p)) /\ Cardinality(FailuresSent(p)) \in Nat
<1>1. IsFiniteSet(Slots)
  BY NodesAssumption, FS_CardinalityType, FS_Interval DEF Slots
<1>2. IsFiniteSet({p} \X Slots)
  BY <1>1, FS_Singleton, FS_Product
<1>3. FailuresSent(p) \in SUBSET ({p} \X Slots)
  BY WorkerOf DEF FailuresSent
<1> QED BY <1>2, <1>3, FS_Subset, FS_CardinalityType

\* No worker sends, and the collectors rest.
LEMMA NobodySends ==
    ASSUME ErrorsAccounted, UNCHANGED errVars,
           \A w \in Workers : (wpc[w] = "exit" /\ Failed(w))' <=> (wpc[w] = "exit" /\ Failed(w))
    PROVE  ErrorsAccounted'
<1>1. \A p \in Pollers : FailuresSent(p)' = FailuresSent(p)
  BY DEF FailuresSent
<1> QED BY <1>1 DEF ErrorsAccounted, Buffered, errVars

\* Nothing is left of any run.
LEMMA NothingLeft ==
    ASSUME LoseMemory
    PROVE  ErrorsAccounted'
<1>1. \A p \in Pollers : FailuresSent(p)' = {} /\ Buffered(p)' = {} /\ errs'[p] = 0 /\ ~hand'[p]
  BY DEF LoseMemory, FailuresSent, Buffered
<1> QED BY <1>1, FS_EmptySet DEF ErrorsAccounted

\* A worker moves that has not sent its result yet.
LEMMA BeforeSending ==
    ASSUME IInv, ErrorsAccounted, NEW w \in Workers, WorkerStep(w), ~WorkerPanics(w), ~WorkerSends(w)
    PROVE  ErrorsAccounted'
<1>1. wpc[w] # "exit" /\ UNCHANGED errVars
  BY DEF WorkerStep, WorkerGets, WorkerShutDown, Cordon, CordonReturns, UncordonReturns,
         CallDrainer, DrainReturns, WorkerDone
<1>2. /\ \E next \in WorkerPCs \ {"exit"} : wpc' = [wpc EXCEPT ![w] = next]
      /\ UNCHANGED wres \/ \E r : wres' = [wres EXCEPT ![w] = r]
  BY DEF WorkerStep, WorkerGets, WorkerShutDown, Cordon, CordonReturns, UncordonReturns,
         CallDrainer, DrainReturns, WorkerDone, Finish, WorkerPCs
<1>3. wpc'[w] # "exit" /\ \A v \in Workers \ {w} : wpc'[v] = wpc[v] /\ wres'[v] = wres[v]
  BY <1>2 DEF IInv, TypeOK
<1> QED BY <1>1, <1>3, NobodySends DEF Failed

\* One more worker of p has failed, if it has.
LEMMA OneMoreFailure ==
    ASSUME IInv, NEW w \in Workers, wpc[w] = "send", wpc' = [wpc EXCEPT ![w] = "exit"],
           UNCHANGED wres
    PROVE  /\ \A p \in Pollers \ {w[1]} : FailuresSent(p)' = FailuresSent(p)
           /\ Cardinality(FailuresSent(w[1])') =
                  Cardinality(FailuresSent(w[1])) + One(Failed(w))
<1> DEFINE F == FailuresSent(w[1])
<1>1. wpc'[w] = "exit" /\ \A v \in Workers \ {w} : wpc'[v] = wpc[v]
  BY DEF IInv, TypeOK
<1>2. \A p \in Pollers \ {w[1]} : FailuresSent(p)' = FailuresSent(p)
  BY <1>1 DEF FailuresSent, Failed
<1>3. F' = (IF Failed(w) THEN F \cup {w} ELSE F) /\ w \notin F
  BY <1>1 DEF FailuresSent, Failed
<1>4. IsFiniteSet(F) /\ Cardinality(F) \in Nat
  BY FailuresFinite, WorkerOf
<1> HIDE DEF F
<1>5. Cardinality(F \cup {w}) = Cardinality(F) + 1
  BY <1>3, <1>4, FS_AddElement
<1>6. CASE Failed(w)
  <2>1. One(Failed(w)) = 1 /\ F' = F \cup {w}
    BY <1>3, <1>6, Zenon DEF One
  <2> QED BY <1>2, <1>5, <2>1 DEF F
<1>7. CASE ~Failed(w)
  <2>1. One(Failed(w)) = 0 /\ F' = F
    BY <1>3, <1>7, Zenon DEF One
  <2> QED BY <1>2, <1>4, <2>1 DEF F
<1> QED BY <1>6, <1>7

\* A result is sent, into the buffer or straight into the collector's hand.
LEMMA WorkerSendsAccounted ==
    ASSUME IInv, ErrorsAccounted, NEW w \in Workers, WorkerSends(w)
    PROVE  ErrorsAccounted'
<1> DEFINE p == w[1]
           b == Failed(w)
<1>1. /\ wpc[w] = "send" /\ wpc' = [wpc EXCEPT ![w] = "exit"] /\ UNCHANGED <<wres, errs>>
      /\ p \in Pollers /\ b \in BOOLEAN
  BY WorkerOf DEF WorkerSends, Failed
<1>2. /\ errChan[p] \in Seq(BOOLEAN) /\ hand[p] \in BOOLEAN /\ errs[p] \in Nat
      /\ Cardinality(TrueIn(errChan[p])) \in Nat
  BY <1>1, TrueInFinite DEF IInv, TypeOK
<1>3. \A q \in Pollers \ {p} : Accounted(q)'
  <2> SUFFICES ASSUME NEW q \in Pollers \ {p} PROVE Accounted(q)'
    OBVIOUS
  <2>1. errChan'[q] = errChan[q] /\ hand'[q] = hand[q]
    BY <1>1 DEF WorkerSends, IInv, TypeOK
  <2>2. Accounted(q)
    BY AllAccounted
  <2>3. FailuresSent(q)' = FailuresSent(q)
    BY <1>1, OneMoreFailure
  <2> QED BY <1>1, <2>1, <2>2, <2>3 DEF Accounted, Carried
<1>4. Carried(p)' = Carried(p) + One(b)
  <2>1. CASE errChan' = [errChan EXCEPT ![p] = Append(errChan[p], b)] /\ UNCHANGED hand
    <3>1. errChan'[p] = Append(errChan[p], b)
      BY <1>1, <2>1 DEF IInv, TypeOK
    <3>2. Cardinality(TrueIn(errChan'[p])) = Cardinality(TrueIn(errChan[p])) + One(b)
      BY <1>1, <1>2, <3>1, AppendCounts
    <3>3. Carried(p)' = errs[p] + One(hand[p]) + Cardinality(TrueIn(errChan'[p]))
      BY <1>1, <2>1 DEF Carried
    <3>4. One(hand[p]) \in Nat /\ One(b) \in Nat
      BY DEF One
    <3> HIDE DEF b
    <3> QED BY <1>2, <3>2, <3>3, <3>4 DEF Carried
  <2>2. CASE ~hand[p] /\ hand' = [hand EXCEPT ![p] = b] /\ UNCHANGED errChan
    <3>1. hand'[p] = b
      BY <1>1, <2>2 DEF IInv, TypeOK
    <3>2. One(hand[p]) = 0 /\ One(hand'[p]) = One(b) /\ One(b) \in Nat
      BY <2>2, <3>1, Zenon DEF One
    <3>3. Carried(p)' = errs[p] + One(hand'[p]) + Cardinality(TrueIn(errChan[p]))
      BY <1>1, <2>2 DEF Carried
    <3> QED BY <1>2, <3>2, <3>3 DEF Carried
  <2> QED BY <2>1, <2>2 DEF WorkerSends
<1>5. Accounted(p)'
  <2>1. Cardinality(FailuresSent(p)') = Cardinality(FailuresSent(p)) + One(b)
    BY <1>1, OneMoreFailure
  <2>2. Accounted(p)
    BY <1>1, AllAccounted
  <2> QED BY <1>4, <2>1, <2>2 DEF Accounted
<1> QED BY <1>3, <1>5, AccountedNext

\* The collector takes a result from the channel, and appends it if it is an error.
LEMMA CollectorAccounted ==
    ASSUME IInv, ErrorsAccounted, NEW p \in Pollers, CollectorStep(p)
    PROVE  ErrorsAccounted'
<1>1. UNCHANGED <<wpc, wres>>
  BY DEF CollectorStep, CollectorReceives, CollectorAppends, workerVars
<1>2. \A q \in Pollers : FailuresSent(q)' = FailuresSent(q) /\ Accounted(q)
  BY <1>1, AllAccounted DEF FailuresSent, Failed
<1>3. /\ errChan[p] \in Seq(BOOLEAN) /\ hand[p] \in BOOLEAN /\ errs[p] \in Nat
      /\ Cardinality(TrueIn(errChan[p])) \in Nat
  BY TrueInFinite DEF IInv, TypeOK
<1>4. \A q \in Pollers \ {p} : Carried(q)' = Carried(q)
  <2>1. \A q \in Pollers \ {p} : errChan'[q] = errChan[q] /\ hand'[q] = hand[q] /\ errs'[q] = errs[q]
    BY DEF CollectorStep, CollectorReceives, CollectorAppends, IInv, TypeOK
  <2> QED BY <2>1 DEF Carried
<1>5. ASSUME CollectorReceives(p) PROVE Carried(p)' = Carried(p)
  <2>1. /\ errChan[p] # <<>> /\ ~hand[p] /\ errs' = errs
        /\ hand'[p] = Head(errChan[p]) /\ errChan'[p] = Tail(errChan[p])
    BY <1>5 DEF CollectorReceives, IInv, TypeOK
  <2>2. /\ One(hand[p]) = 0 /\ One(hand'[p]) = One(Head(errChan[p]))
    BY <2>1, Zenon DEF One
  <2>3. /\ Cardinality(TrueIn(errChan[p]))
               = Cardinality(TrueIn(errChan'[p])) + One(Head(errChan[p]))
    BY <1>3, <2>1, TailCounts
  <2>4. Tail(errChan[p]) \in Seq(BOOLEAN)
    BY <1>3, <2>1, HeadAndTail
  <2>5. Cardinality(TrueIn(errChan'[p])) \in Nat /\ One(Head(errChan[p])) \in Nat
    BY <2>1, <2>4, TrueInFinite DEF One
  <2> QED BY <1>3, <2>1, <2>2, <2>3, <2>5 DEF Carried
<1>6. ASSUME CollectorAppends(p) PROVE Carried(p)' = Carried(p)
  <2>1. hand[p] /\ errs'[p] = errs[p] + 1 /\ ~hand'[p] /\ errChan' = errChan
    BY <1>6 DEF CollectorAppends, IInv, TypeOK
  <2>2. One(hand[p]) = 1 /\ One(hand'[p]) = 0
    BY <2>1, Zenon DEF One
  <2>3. errs'[p] = errs[p] + 1 /\ errChan' = errChan
    BY <2>1
  <2>4. Carried(p) = errs[p] + 1 + Cardinality(TrueIn(errChan[p]))
    BY <2>2 DEF Carried
  <2>5. Carried(p)' = errs'[p] + 0 + Cardinality(TrueIn(errChan[p]))
    BY <2>2, <2>3 DEF Carried
  <2> QED BY <1>3, <2>3, <2>4, <2>5
<1>7. \A q \in Pollers : Accounted(q)'
  BY <1>2, <1>4, <1>5, <1>6 DEF CollectorStep, Accounted
<1> QED BY <1>7, AccountedNext

\* The slot that a new worker gets is free.
LEMMA FreeSlot ==
    ASSUME IInv, NEW p \in Pollers, SpawnWorker(p)
    PROVE  /\ spawned[p] \in Nat
           /\ \A w \in Workers : w = <<p, spawned[p]>> => wpc[w] = "none" /\ wpc'[w] = "get"
           /\ \A w \in Workers : w # <<p, spawned[p]>> => wpc'[w] = wpc[w]
<1> DEFINE n == <<p, spawned[p]>>
<1>1. wpc' = [wpc EXCEPT ![n] = "get"] /\ wpc \in [Workers -> WorkerPCs] /\ spawned[p] \in Nat
  BY DEF SpawnWorker, IInv, TypeOK
<1>2. RunShape(p)
  BY DEF IInv
<1>3. \A w \in Workers : w = n => wpc[w] = "none"
  BY <1>1, <1>2 DEF RunShape
<1> QED BY <1>1, <1>3

\* A new worker has sent nothing, and the end of a run leaves nothing of it.
LEMMA SpawnAccounted ==
    ASSUME IInv, ErrorsAccounted, NEW p \in Pollers, SpawnWorker(p)
    PROVE  ErrorsAccounted'
<1>1. \A w \in Workers : wpc'[w] = wpc[w] \/ (wpc[w] = "none" /\ wpc'[w] = "get")
  BY FreeSlot
<1>2. UNCHANGED <<errVars, wres>>
  BY DEF SpawnWorker
<1> QED BY <1>1, <1>2, NobodySends DEF Failed

LEMMA RecordCompletedAccounted ==
    ASSUME IInv, ErrorsAccounted, NEW p \in Pollers, RecordCompleted(p)
    PROVE  ErrorsAccounted'
<1>1. /\ wpc' = [w \in Workers |-> IF w[1] = p THEN "none" ELSE wpc[w]]
      /\ wres' = [w \in Workers |-> IF w[1] = p THEN "none" ELSE wres[w]]
      /\ errChan' = [errChan EXCEPT ![p] = <<>>] /\ hand' = [hand EXCEPT ![p] = FALSE]
      /\ errs' = [errs EXCEPT ![p] = 0]
  BY DEF RecordCompleted
<1>2. ASSUME NEW q \in Pollers \ {p} PROVE Accounted(q)'
  <2>1. FailuresSent(q)' = FailuresSent(q)
    BY <1>1 DEF FailuresSent, Failed
  <2>2. errChan'[q] = errChan[q] /\ hand'[q] = hand[q] /\ errs'[q] = errs[q]
    BY <1>1 DEF IInv, TypeOK
  <2> QED BY <2>1, <2>2, AllAccounted DEF Accounted, Carried
<1>3. Accounted(p)'
  <2>1. FailuresSent(p)' = {}
    BY <1>1 DEF FailuresSent
  <2>2. errChan'[p] = <<>> /\ ~hand'[p] /\ errs'[p] = 0
    BY <1>1 DEF IInv, TypeOK
  <2>3. TrueIn(errChan'[p]) = {} /\ One(hand'[p]) = 0
    BY <2>2 DEF TrueIn, One
  <2>4. Cardinality(FailuresSent(p)') = 0 /\ Cardinality(TrueIn(errChan'[p])) = 0
    BY <2>1, <2>3, FS_EmptySet
  <2>5. Carried(p)' = errs'[p] + One(hand'[p]) + Cardinality(TrueIn(errChan'[p]))
    BY DEF Carried
  <2>6. Carried(p)' = 0
    BY <2>2, <2>3, <2>4, <2>5
  <2> QED BY <2>4, <2>6 DEF Accounted
<1> QED BY <1>2, <1>3, AccountedNext

LEMMA NextAccounts ==
    ASSUME IInv, ErrorsAccounted, [Next]_vars
    PROVE  ErrorsAccounted'
<1>1. CASE \/ \E p \in Pollers : CompletePanics(p)
           \/ Exit \/ Kill \/ \E w \in Workers : WorkerPanics(w)
  BY <1>1, NothingLeft DEF CompletePanics, Exit, Kill, WorkerPanics, Halt
<1>2. CASE \/ \E p \in Pollers : StartPoll(p) \/ EnqueueNode(p) \/ CheckQueue(p)
                                 \/ RecordStarted(p) \/ SpawnedAll(p) \/ WaitReturns(p)
           \/ Interrupt \/ ReconcileReturns \/ Restart \/ UNCHANGED vars
  <2>1. UNCHANGED <<errVars, workerVars>>
    BY <1>2 DEF StartPoll, EnqueueNode, CheckQueue, RecordStarted, SpawnedAll, WaitReturns,
       Interrupt, ReconcileReturns, Restart, vars
  <2> QED BY <2>1, NobodySends DEF workerVars, Failed
<1> QED BY <1>1, <1>2, SpawnAccounted, RecordCompletedAccounted, CollectorAccounted,
           BeforeSending, WorkerSendsAccounted DEF Next, RunStep, WorkerStep, ProcessStep

\* For any number of pollers, workers and upgrades, and any capacity of errChan: no
\* error that a worker has sent vanishes before it is in errs.
THEOREM NoErrorLost == Spec => []ErrorsAccounted
<1>1. Init => ErrorsAccounted
  <2> SUFFICES ASSUME Init PROVE ErrorsAccounted
    OBVIOUS
  <2>1. \A p \in Pollers : FailuresSent(p) = {} /\ Buffered(p) = {} /\ errs[p] = 0 /\ ~hand[p]
    BY DEF Init, FreshProcess, FailuresSent, Buffered
  <2> QED BY <2>1, FS_EmptySet DEF ErrorsAccounted
<1>2. IInv /\ ErrorsAccounted /\ [Next]_vars => ErrorsAccounted'
  BY NextAccounts
<1> QED BY <1>1, <1>2, SpecInv, PTL DEF Spec

-----------------------------------------------------------------------------
(* The ticker alone *)

Alone == Pollers = {Ticker}

LEMMA OneRun ==
    ASSUME Alone, NEW w \in Workers
    PROVE  w[1] = Ticker
BY WorkerOf DEF Alone

\* The process has ended, or the run has: no worker is left.
LEMMA NoWorkerLeft ==
    ASSUME Alone, LoseMemory \/ \E p \in Pollers : RecordCompleted(p)
    PROVE  \A w \in Workers : wpc'[w] = "none"
BY OneRun DEF LoseMemory, RecordCompleted, Alone

\* A worker moves: it has its own context if it is about to use one.
LEMMA WorkerKeepsContext ==
    ASSUME IInv, NEW w \in Workers, WorkerStep(w), ~WorkerPanics(w)
    PROVE  OwnContext'
<1>1. /\ \E next \in WorkerPCs \ {"none"} : wpc' = [wpc EXCEPT ![w] = next]
      /\ wpc'[w] \in {"cordoning", "uncordoning"} => drainerCtx' = w
  BY DEF WorkerStep, WorkerGets, WorkerShutDown, Cordon, CordonReturns, UncordonReturns,
         CallDrainer, DrainReturns, WorkerDone, WorkerSends, Finish, WorkerPCs, IInv, TypeOK
<1>2. wpc'[w] # "none"
  BY <1>1 DEF IInv, TypeOK
<1> QED BY <1>1, <1>2 DEF OwnContext

LEMMA NextKeepsContext ==
    ASSUME Alone, IInv, OwnContext, [Next]_vars
    PROVE  OwnContext'
<1>1. CASE \/ \E p \in Pollers : CompletePanics(p) \/ RecordCompleted(p)
           \/ Exit \/ Kill \/ \E w \in Workers : WorkerPanics(w)
  <2>1. LoseMemory \/ \E p \in Pollers : RecordCompleted(p)
    BY <1>1 DEF CompletePanics, Exit, Kill, WorkerPanics, Halt
  <2> QED BY <2>1, NoWorkerLeft DEF OwnContext
<1>2. CASE \E p \in Pollers : SpawnWorker(p)
  <2>1. PICK p \in Pollers : SpawnWorker(p)
    BY <1>2
  <2>2. /\ \A w \in Workers : wpc'[w] = wpc[w] \/ (wpc[w] = "none" /\ wpc'[w] = "get")
        /\ drainerCtx' = drainerCtx
    BY <2>1, FreeSlot DEF SpawnWorker
  <2> QED BY <2>2 DEF OwnContext
<1>3. CASE \/ \E p \in Pollers : StartPoll(p) \/ EnqueueNode(p) \/ CheckQueue(p)
                                 \/ RecordStarted(p) \/ SpawnedAll(p) \/ WaitReturns(p)
                                 \/ CollectorStep(p)
           \/ Interrupt \/ ReconcileReturns \/ Restart \/ UNCHANGED vars
  <2>1. UNCHANGED <<workerVars, drainerCtx>>
    BY <1>3 DEF StartPoll, EnqueueNode, CheckQueue, RecordStarted, SpawnedAll, WaitReturns,
       CollectorStep, CollectorReceives, CollectorAppends,
       Interrupt, ReconcileReturns, Restart, vars
  <2> QED BY <2>1 DEF OwnContext, workerVars
<1> QED BY <1>1, <1>2, <1>3, WorkerKeepsContext DEF Next, RunStep, ProcessStep

\* If the ticker is the only poller, a worker that runs alone cordons and uncordons
\* with its own context, which nobody has cancelled.
THEOREM LoneWorkerHasContext ==
    ASSUME Alone
    PROVE  Spec => []OwnContext
<1>1. Init => OwnContext
  BY DEF Init, FreshProcess, OwnContext
<1>2. IInv /\ OwnContext /\ [Next]_vars => OwnContext'
  BY NextKeepsContext
<1> QED BY <1>1, <1>2, SpecInv, PTL DEF Spec

-----------------------------------------------------------------------------
(* A key for every worker that calls Get *)

\* No two pollers run the same upgrade at a time.
Apart == \A p, q \in Pollers : p # q /\ cur[p] # None => cur[p] # cur[q]

LEMMA OneRunOf ==
    ASSUME Apart, NEW p \in Pollers, cur[p] \in Upgrades, NEW w \in Workers, cur[w[1]] = cur[p]
    PROVE  w[1] = p
BY WorkerOf, NoneAssumption DEF Apart

HasKeys(u) == Cardinality(Waiting(u)) <= QLen(workqueues[u])

LEMMA OneRunFinite ==
    ASSUME NEW S \in SUBSET Workers, \A v, w \in S : v[1] = w[1]
    PROVE  IsFiniteSet(S) /\ Cardinality(S) \in Nat
<1>1. IsFiniteSet(Slots)
  BY NodesAssumption, FS_CardinalityType, FS_Interval DEF Slots
<1>2. CASE S = {}
  BY <1>2, FS_EmptySet
<1>3. ASSUME NEW w \in S PROVE IsFiniteSet(S) /\ Cardinality(S) \in Nat
  <2>1. IsFiniteSet({w[1]} \X Slots)
    BY <1>1, FS_Singleton, FS_Product
  <2>2. S \in SUBSET ({w[1]} \X Slots)
    BY WorkerOf
  <2> QED BY <2>1, <2>2, FS_Subset, FS_CardinalityType
<1> QED BY <1>2, <1>3

LEMMA WaitingFinite ==
    ASSUME Apart, Apart', NEW u \in Upgrades
    PROVE  /\ IsFiniteSet(Waiting(u)) /\ Cardinality(Waiting(u)) \in Nat
           /\ IsFiniteSet(Waiting(u)') /\ Cardinality(Waiting(u)') \in Nat
<1>1. Waiting(u) \in SUBSET Workers /\ Waiting(u)' \in SUBSET Workers
  BY DEF Waiting
<1>2. /\ \A v, w \in Waiting(u) : v[1] = w[1]
      /\ \A v, w \in Waiting(u)' : v[1] = w[1]
  BY WorkerOf, NoneAssumption DEF Waiting, Apart
<1> QED BY <1>1, <1>2, OneRunFinite

\* Add and Done never make a queue shorter.
LEMMA QueueLengths ==
    ASSUME NEW q \in QueueType(Nodes), NEW item \in Nodes
    PROVE  /\ QLen(q) \in Nat
           /\ QLen(Add(q, item)) \in {QLen(q), QLen(q) + 1}
           /\ QLen(Done(q, item)) \in {QLen(q), QLen(q) + 1}
BY DEF QueueType, QLen, Add, Done

LEMMA FewerWait ==
    ASSUME Apart, Apart', NEW u \in Upgrades, HasKeys(u), Waiting(u)' \subseteq Waiting(u),
           QLen(workqueues[u]) \in Nat,
           QLen(workqueues'[u]) \in {QLen(workqueues[u]), QLen(workqueues[u]) + 1}
    PROVE  HasKeys(u)'
<1>1. Cardinality(Waiting(u)') <= Cardinality(Waiting(u))
  BY WaitingFinite, FS_Subset
<1>2. Cardinality(Waiting(u)') <= QLen(workqueues'[u])
  BY <1>1, WaitingFinite DEF HasKeys
<1> QED BY <1>2 DEF HasKeys

LEMMA NobodyWaits ==
    ASSUME NEW u \in Upgrades, Waiting(u)' = {}, QLen(workqueues'[u]) \in Nat
    PROVE  HasKeys(u)'
<1>1. Cardinality(Waiting(u)') = 0
  BY FS_EmptySet
<1> QED BY <1>1 DEF HasKeys

\* The loop starts worker i only if more than i keys are queued, and those that wait
\* are among the workers 0 to i.
LEMMA SpawnHasKeys ==
    ASSUME Apart, Apart', IInv, NEW p \in Pollers, SpawnWorker(p),
           NEW u \in Upgrades, HasKeys(u)
    PROVE  HasKeys(u)'
<1>1. /\ spawned[p] < QLen(workqueues[cur[p]]) /\ spawned[p] \in Nat
      /\ UNCHANGED <<workqueues, cur>>
  BY FreeSlot DEF SpawnWorker, queueVars
<1>2. QLen(workqueues[u]) \in Nat
  BY DEF IInv, TypeOK, QueueType, QLen
<1>3. CASE u = cur[p]
  <2>1. Waiting(u)' \in SUBSET ({p} \X (0 .. spawned[p]))
    <3> SUFFICES ASSUME NEW w \in Workers, wpc'[w] = "get", cur[w[1]] = u
                 PROVE  w \in {p} \X (0 .. spawned[p])
      BY <1>1 DEF Waiting
    <3>1. w = <<p, w[2]>> /\ w[1] = p /\ w[2] \in Slots
      BY <1>3, OneRunOf, WorkerOf
    <3>2. w[2] \in Nat
      BY <3>1, FS_CardinalityType, NodesAssumption DEF Slots
    <3>3. w = <<p, spawned[p]>> \/ ~(w[2] >= spawned[p])
      <4> SUFFICES ASSUME w # <<p, spawned[p]>>, w[2] >= spawned[p] PROVE FALSE
        OBVIOUS
      <4>1. wpc[w] = "none"
        BY <3>1 DEF IInv, RunShape
      <4> QED BY <4>1, FreeSlot
    <3>4. w[2] \in 0 .. spawned[p]
      BY <1>1, <3>1, <3>2, <3>3
    <3> QED BY <3>1, <3>4
  <2>2. /\ IsFiniteSet({p} \X (0 .. spawned[p]))
        /\ Cardinality({p} \X (0 .. spawned[p])) = spawned[p] + 1
    <3>1. IsFiniteSet(0 .. spawned[p]) /\ Cardinality(0 .. spawned[p]) = spawned[p] + 1
      BY <1>1, FS_Interval
    <3>2. IsFiniteSet({p}) /\ Cardinality({p}) = 1
      BY FS_Singleton
    <3>3. /\ IsFiniteSet({p} \X (0 .. spawned[p]))
          /\ Cardinality({p} \X (0 .. spawned[p])) = Cardinality({p}) * Cardinality(0 .. spawned[p])
      BY <3>1, <3>2, FS_Product
    <3> QED BY <1>1, <3>1, <3>2, <3>3
  <2>3. Cardinality(Waiting(u)') <= spawned[p] + 1
    BY <2>1, <2>2, FS_Subset
  <2> QED BY <1>1, <1>2, <1>3, <2>3, WaitingFinite DEF HasKeys
<1>4. CASE u # cur[p]
  <2>1. ASSUME NEW w \in Workers, cur[w[1]] = u PROVE wpc'[w] = wpc[w]
    BY <1>4, <2>1, FreeSlot
  <2>2. Waiting(u)' \subseteq Waiting(u)
    BY <1>1, <2>1 DEF Waiting
  <2> QED BY <1>1, <1>2, <2>2, FewerWait
<1> QED BY <1>3, <1>4

\* A worker takes a key, and waits no longer.
LEMMA GetHasKeys ==
    ASSUME Apart, Apart', IInv, NEW w \in Workers, WorkerGets(w), NEW u \in Upgrades, HasKeys(u)
    PROVE  HasKeys(u)'
<1> DEFINE v == cur[w[1]]
<1>1. /\ wpc[w] = "get" /\ CanGet(workqueues[v]) /\ UNCHANGED cur
      /\ workqueues' = [workqueues EXCEPT ![v] = Get(@)]
      /\ wpc' = [wpc EXCEPT ![w] = "cordon"]
  BY DEF WorkerGets, runVars
<1>2. wpc'[w] = "cordon" /\ \A x \in Workers \ {w} : wpc'[x] = wpc[x]
  BY <1>1 DEF IInv, TypeOK
<1>3. Waiting(u)' = Waiting(u) \ {w}
  BY <1>1, <1>2 DEF Waiting
<1>4. workqueues[u] \in QueueType(Nodes) /\ QLen(workqueues[u]) \in Nat
  BY DEF IInv, TypeOK, QueueType, QLen
<1>5. CASE u = v
  <2>1. w \in Waiting(u) /\ workqueues'[u] = Get(workqueues[u]) /\ CanGet(workqueues[u])
    BY <1>1, <1>5 DEF Waiting, IInv, TypeOK
  <2>2. QLen(workqueues'[u]) = QLen(workqueues[u]) - 1
    BY <1>4, <2>1 DEF QueueType, QLen, Get, CanGet
  <2>3. Cardinality(Waiting(u)') = Cardinality(Waiting(u)) - 1
    BY <1>3, <2>1, WaitingFinite, FS_RemoveElement
  <2> QED BY <1>4, <2>2, <2>3, WaitingFinite DEF HasKeys
<1>6. CASE u # v
  <2>1. workqueues'[u] = workqueues[u]
    BY <1>1, <1>6 DEF IInv, TypeOK
  <2> QED BY <1>3, <1>4, <2>1, FewerWait
<1> QED BY <1>5, <1>6

LEMMA WorkerHasKeys ==
    ASSUME Apart, Apart', IInv, NEW w \in Workers, WorkerStep(w), ~WorkerPanics(w), ~WorkerGets(w),
           NEW u \in Upgrades, HasKeys(u)
    PROVE  HasKeys(u)'
<1>1. UNCHANGED cur /\ \E next \in WorkerPCs \ {"get"} : wpc' = [wpc EXCEPT ![w] = next]
  BY DEF WorkerStep, WorkerShutDown, Cordon, CordonReturns, UncordonReturns,
         CallDrainer, DrainReturns, WorkerDone, WorkerSends, Finish, WorkerPCs, runVars
<1>2. wpc'[w] # "get" /\ \A v \in Workers \ {w} : wpc'[v] = wpc[v]
  BY <1>1 DEF IInv, TypeOK
<1>3. Waiting(u)' \subseteq Waiting(u)
  BY <1>1, <1>2 DEF Waiting
<1>4. workqueues[u] \in QueueType(Nodes) /\ QLen(workqueues[u]) \in Nat
  BY DEF IInv, TypeOK, QueueType, QLen
<1>5. QLen(workqueues'[u]) \in {QLen(workqueues[u]), QLen(workqueues[u]) + 1}
  <2>1. CASE WorkerDone(w)
    <3>1. workqueues' = [workqueues EXCEPT ![cur[w[1]]] = Done(@, wkey[w])] /\ Holds(w)
      BY <2>1 DEF WorkerDone, Holds
    <3>2. wkey[w] \in Nodes
      BY <3>1, AtWork, UpgradesAssumption DEF IInv, HeldKeys, Matching, Holds, Working
    <3>3. workqueues'[u] \in {workqueues[u], Done(workqueues[u], wkey[w])}
      BY <3>1 DEF IInv, TypeOK
    <3> QED BY <1>4, <3>2, <3>3, QueueLengths
  <2>2. CASE ~WorkerDone(w)
    <3>1. UNCHANGED workqueues
      BY <2>2 DEF WorkerStep, WorkerShutDown, Cordon, CordonReturns, UncordonReturns,
         CallDrainer, DrainReturns, WorkerSends, queueVars
    <3> QED BY <1>4, <3>1
  <2> QED BY <2>1, <2>2
<1> QED BY <1>3, <1>4, <1>5, FewerWait

\* No worker of a poll waits when it starts, finds that there is nothing to do, or
\* ends.
LEMMA PollHasKeys ==
    ASSUME Apart, Apart', IInv, NEW p \in Pollers,
           StartPoll(p) \/ CheckQueue(p) \/ RecordCompleted(p),
           NEW u \in Upgrades, HasKeys(u)
    PROVE  HasKeys(u)'
<1>1. /\ pc[p] \in {"idle", "enqueue", "complete"} /\ UNCHANGED workqueues
      /\ \A q \in Pollers \ {p} : cur'[q] = cur[q]
      /\ \A w \in Workers : wpc'[w] \in {wpc[w], "none"}
  BY DEF StartPoll, CheckQueue, RecordCompleted, queueVars, workerVars, IInv, TypeOK
<1>2. \A w \in Workers : wpc[w] = "get" => w[1] \in Pollers \ {p}
  BY <1>1, AtWork DEF Working
<1>3. Waiting(u)' \subseteq Waiting(u)
  BY <1>1, <1>2 DEF Waiting
<1>4. QLen(workqueues[u]) \in Nat
  BY DEF IInv, TypeOK, QueueType, QLen
<1> QED BY <1>1, <1>3, <1>4, FewerWait

\* The other steps start no worker, and queues only grow in them.
LEMMA OthersHaveKeys ==
    ASSUME Apart, Apart', IInv, UNCHANGED <<wpc, cur>>, NEW u \in Upgrades, HasKeys(u),
           \/ \E p \in Pollers : EnqueueNode(p)
           \/ ReconcileReturns
           \/ UNCHANGED workqueues
    PROVE  HasKeys(u)'
<1>1. workqueues[u] \in QueueType(Nodes) /\ QLen(workqueues[u]) \in Nat
  BY DEF IInv, TypeOK, QueueType, QLen
<1>2. Waiting(u)' = Waiting(u)
  BY DEF Waiting
<1>3. CASE \E p \in Pollers : EnqueueNode(p)
  <2>0. PICK p \in Pollers : EnqueueNode(p)
    BY <1>3
  <2>1. PICK n \in todo[p] : workqueues' = [workqueues EXCEPT ![cur[p]] = Add(@, n)]
    BY <2>0 DEF EnqueueNode
  <2>2. n \in Nodes /\ workqueues'[u] \in {workqueues[u], Add(workqueues[u], n)}
    BY <2>1 DEF IInv, TypeOK
  <2>3. QLen(workqueues'[u]) \in {QLen(workqueues[u]), QLen(workqueues[u]) + 1}
    BY <1>1, <2>2, QueueLengths
  <2> QED BY <1>1, <1>2, <2>3, FewerWait
<1>4. CASE ReconcileReturns
  <2>1. workqueues'[u] = ShutDown(workqueues[u])
    BY <1>4 DEF ReconcileReturns
  <2>2. QLen(workqueues'[u]) = QLen(workqueues[u])
    BY <1>1, <2>1 DEF QueueType, QLen, ShutDown
  <2> QED BY <1>1, <1>2, <2>2, FewerWait
<1>5. CASE UNCHANGED workqueues
  BY <1>1, <1>2, <1>5, FewerWait
<1> QED BY <1>3, <1>4, <1>5

LEMMA NextHasKeys ==
    ASSUME Apart, Apart', IInv, KeyForEach, [Next]_vars
    PROVE  KeyForEach'
<1> SUFFICES ASSUME NEW u \in Upgrades PROVE HasKeys(u)'
  BY DEF KeyForEach, HasKeys
<1>1. HasKeys(u)
  BY DEF KeyForEach, HasKeys
<1>2. IInv'
  BY NextInv
<1>3. CASE \/ \E p \in Pollers : CompletePanics(p)
           \/ Exit \/ Kill \/ \E w \in Workers : WorkerPanics(w)
  <2>1. LoseMemory
    BY <1>3 DEF CompletePanics, Exit, Kill, WorkerPanics, Halt
  <2>2. Waiting(u)' = {}
    BY <2>1 DEF Waiting, LoseMemory
  <2>3. QLen(workqueues'[u]) \in Nat
    BY <1>2 DEF IInv, TypeOK, QueueType, QLen
  <2> QED BY <2>2, <2>3, NobodyWaits
<1>4. CASE \/ \E p \in Pollers : EnqueueNode(p) \/ RecordStarted(p) \/ SpawnedAll(p)
                                 \/ WaitReturns(p) \/ CollectorStep(p)
           \/ Interrupt \/ ReconcileReturns \/ Restart \/ UNCHANGED vars
  <2>1. /\ UNCHANGED <<wpc, cur>>
        /\ \/ \E p \in Pollers : EnqueueNode(p)
           \/ ReconcileReturns
           \/ UNCHANGED workqueues
    BY <1>4 DEF EnqueueNode, RecordStarted, SpawnedAll, WaitReturns, CollectorStep,
       CollectorReceives, CollectorAppends, Interrupt, ReconcileReturns, Restart, vars,
       queueVars, runVars, workerVars
  <2> QED BY <1>1, <2>1, OthersHaveKeys
<1> QED BY <1>1, <1>3, <1>4, PollHasKeys, SpawnHasKeys, GetHasKeys, WorkerHasKeys
        DEF Next, RunStep, WorkerStep, ProcessStep

-----------------------------------------------------------------------------
(* What a run leaves behind in its queue *)

\* No node is queued again while a worker has it.
NoneRequeued ==
    \A u \in Upgrades : workqueues[u].dirty \cap workqueues[u].processing = {}

\* Without another run of the upgrade Add is only called while nobody holds a key of
\* the queue, so that Done never puts a node back.
LEMMA NothingHeld ==
    ASSUME Apart, IInv, NEW p \in Pollers, pc[p] \notin {"spawn", "wait"}, cur[p] \in Upgrades
    PROVE  workqueues[cur[p]].processing = {}
<1>1. ASSUME NEW w \in Workers, Holds(w), cur[w[1]] = cur[p] PROVE FALSE
  BY <1>1, AtWork, OneRunOf DEF Holds, Working
<1> QED BY <1>1 DEF IInv, QueueContract

LEMMA NextRequeuesNone ==
    ASSUME Apart, IInv, NoneRequeued, [Next]_vars
    PROVE  NoneRequeued'
<1> SUFFICES ASSUME NEW u \in Upgrades
             PROVE  workqueues'[u].dirty \cap workqueues'[u].processing = {}
  BY DEF NoneRequeued
<1>1. workqueues[u] \in QueueType(Nodes) /\ workqueues[u].dirty \cap workqueues[u].processing = {}
  BY DEF IInv, TypeOK, NoneRequeued
<1>2. CASE \/ \E p \in Pollers : CompletePanics(p)
           \/ Exit \/ Kill \/ \E w \in Workers : WorkerPanics(w)
  <2>1. workqueues'[u] = EmptyQueue
    BY <1>2 DEF CompletePanics, Exit, Kill, WorkerPanics, Halt, LoseMemory
  <2> QED BY <2>1 DEF EmptyQueue
<1>3. CASE \E p \in Pollers : EnqueueNode(p)
  <2>0. PICK p \in Pollers : EnqueueNode(p)
    BY <1>3
  <2>1. PICK n \in todo[p] : workqueues' = [workqueues EXCEPT ![cur[p]] = Add(@, n)]
    BY <2>0 DEF EnqueueNode
  <2>2. pc[p] = "enqueue" /\ cur[p] \in Upgrades
    BY <2>0 DEF EnqueueNode, IInv, RunShape
  <2>3. workqueues[cur[p]].processing = {}
    BY <2>2, NothingHeld
  <2>4. workqueues'[u] = IF u = cur[p] THEN Add(workqueues[u], n) ELSE workqueues[u]
    BY <2>1 DEF IInv, TypeOK
  <2> QED BY <1>1, <2>3, <2>4 DEF Add, QueueType
<1>4. CASE \E w \in Workers : WorkerGets(w)
  <2>1. PICK w \in Workers : WorkerGets(w)
    BY <1>4
  <2>2. workqueues'[u] \in {workqueues[u], Get(workqueues[u])}
    BY <2>1 DEF WorkerGets, IInv, TypeOK
  <2> QED BY <1>1, <2>2 DEF Get, QueueType
<1>5. CASE \E w \in Workers : WorkerDone(w)
  <2>1. PICK w \in Workers : WorkerDone(w)
    BY <1>5
  <2>2. workqueues'[u] \in {workqueues[u], Done(workqueues[u], wkey[w])}
    BY <2>1 DEF WorkerDone, IInv, TypeOK
  <2> QED BY <1>1, <2>2 DEF Done, QueueType
<1>6. CASE ReconcileReturns
  <2>1. workqueues'[u] = ShutDown(workqueues[u])
    BY <1>6 DEF ReconcileReturns
  <2> QED BY <1>1, <2>1 DEF ShutDown, QueueType
<1>7. CASE UNCHANGED workqueues
  BY <1>1, <1>7
<1>8. CASE \/ \E p \in Pollers : \/ StartPoll(p) \/ CheckQueue(p) \/ RecordStarted(p)
                                 \/ SpawnWorker(p) \/ SpawnedAll(p) \/ WaitReturns(p)
                                 \/ RecordCompleted(p) \/ CollectorStep(p)
           \/ \E w \in Workers : \/ WorkerShutDown(w) \/ Cordon(w) \/ CordonReturns(w)
                                 \/ DrainReturns(w) \/ UncordonReturns(w) \/ WorkerSends(w)
           \/ Interrupt \/ Restart \/ UNCHANGED vars
  <2>1. UNCHANGED workqueues
    BY <1>8 DEF StartPoll, CheckQueue, RecordStarted, SpawnWorker, SpawnedAll, WaitReturns,
       RecordCompleted, CollectorStep, CollectorReceives, CollectorAppends, WorkerShutDown,
       Cordon, CordonReturns, DrainReturns, UncordonReturns, CallDrainer, WorkerSends,
       Interrupt, Restart, vars, queueVars
  <2> QED BY <1>7, <2>1
<1> QED BY <1>2, <1>3, <1>4, <1>5, <1>6, <1>8 DEF Next, RunStep, WorkerStep, ProcessStep

\* Nothing is added to the queue of a run that is past enqueueMatchingNodes.
LEMMA QueueShrinks ==
    ASSUME IInv, NoneRequeued, NEW w \in Workers, WorkerStep(w), ~WorkerPanics(w),
           NEW u \in Upgrades
    PROVE  QLen(workqueues[u]) \in Nat /\ QLen(workqueues'[u]) <= QLen(workqueues[u])
<1>1. workqueues[u] \in QueueType(Nodes) /\ QLen(workqueues[u]) \in Nat
  BY DEF IInv, TypeOK, QueueType, QLen
<1>2. CASE WorkerGets(w)
  <2>1. PICK v : workqueues' = [workqueues EXCEPT ![v] = Get(@)] /\ CanGet(workqueues[v])
    BY <1>2 DEF WorkerGets
  <2>2. workqueues'[u] = workqueues[u]
        \/ (workqueues'[u] = Get(workqueues[u]) /\ CanGet(workqueues[u]))
    BY <2>1 DEF IInv, TypeOK
  <2>3. ASSUME workqueues'[u] = Get(workqueues[u]), CanGet(workqueues[u])
        PROVE  QLen(workqueues'[u]) = QLen(workqueues[u]) - 1
    BY <1>1, <2>3 DEF QueueType, QLen, Get, CanGet
  <2> QED BY <1>1, <2>2, <2>3
<1>3. CASE WorkerDone(w)
  <2> DEFINE v == cur[w[1]]
  <2>1. Holds(w) /\ workqueues' = [workqueues EXCEPT ![v] = Done(@, wkey[w])]
    BY <1>3 DEF WorkerDone, Holds
  <2>2. v \in Upgrades
    BY <2>1, AtWork DEF Holds, Working
  <2>3. wkey[w] \in workqueues[v].processing
    BY <2>1, <2>2 DEF IInv, QueueContract
  <2>4. wkey[w] \notin workqueues[v].dirty
    BY <2>2, <2>3 DEF NoneRequeued
  <2>5. workqueues'[u] = IF u = v THEN Done(workqueues[u], wkey[w]) ELSE workqueues[u]
    BY <2>1 DEF IInv, TypeOK
  <2> QED BY <1>1, <2>4, <2>5 DEF Done, QueueType, QLen
<1>4. CASE UNCHANGED workqueues
  BY <1>1, <1>4
<1> QED BY <1>2, <1>3, <1>4
        DEF WorkerStep, WorkerShutDown, Cordon, CordonReturns, DrainReturns, UncordonReturns,
            CallDrainer, WorkerSends, queueVars

\* What the steps of other pollers leave of p's run and of its queue.
LEMMA OtherPoller ==
    ASSUME Apart, IInv, NEW p \in Pollers, cur[p] \in Upgrades, NEW q \in Pollers, q # p,
           StartPoll(q) \/ RunStep(q) \/ CollectorStep(q), ~LoseMemory
    PROVE  /\ pc'[p] = pc[p] /\ cur'[p] = cur[p] /\ spawned'[p] = spawned[p]
           /\ workqueues'[cur[p]] = workqueues[cur[p]]
<1>1. CASE EnqueueNode(q)
  <2>1. UNCHANGED <<pc, cur, spawned>> /\ \E n : workqueues' = [workqueues EXCEPT ![cur[q]] = Add(@, n)]
    BY <1>1 DEF EnqueueNode
  <2>2. cur[q] # cur[p]
    BY NoneAssumption DEF Apart
  <2> QED BY <2>1, <2>2 DEF IInv, TypeOK
<1>2. CASE StartPoll(q) \/ CollectorStep(q) \/ (RunStep(q) /\ ~EnqueueNode(q))
  BY <1>2 DEF StartPoll, RunStep, CheckQueue, RecordStarted, SpawnWorker, SpawnedAll,
     WaitReturns, RecordCompleted, CompletePanics, CollectorStep, CollectorReceives,
     CollectorAppends, runVars, queueVars, IInv, TypeOK
<1> QED BY <1>1, <1>2

LEMMA NextLeavesHalf ==
    ASSUME Apart, IInv, NoneRequeued, AtMostHalfLeft, [Next]_vars
    PROVE  AtMostHalfLeft'
<1> SUFFICES ASSUME NEW p \in Pollers, pc'[p] \in {"wait", "complete"}
             PROVE  QLen(workqueues'[cur'[p]]) <= spawned'[p]
  BY DEF AtMostHalfLeft
<1> DEFINE u == cur[p]
<1>1. ~LoseMemory
  BY DEF LoseMemory
<1>2. spawned[p] \in Nat /\ RunShape(p)
  BY DEF IInv, TypeOK
<1>3. \A v \in Upgrades : workqueues[v] \in QueueType(Nodes) /\ QLen(workqueues[v]) \in Nat
  BY DEF IInv, TypeOK, QueueType, QLen
<1>4. pc[p] # "idle"
  <2>1. ASSUME NEW q \in Pollers, StartPoll(q) \/ RunStep(q) \/ CollectorStep(q)
        PROVE  pc[p] # "idle"
    <3>1. ~CompletePanics(q)
      BY <1>1 DEF CompletePanics
    <3>2. CASE CollectorStep(q)
      BY <3>2 DEF CollectorStep, CollectorReceives, CollectorAppends, runVars
    <3>3. CASE StartPoll(q)
      BY <3>3 DEF StartPoll, IInv, TypeOK
    <3>4. CASE EnqueueNode(q)
      BY <3>4 DEF EnqueueNode
    <3>5. CASE CheckQueue(q) \/ RecordStarted(q) \/ RecordCompleted(q)
      BY <3>5 DEF CheckQueue, RecordStarted, RecordCompleted, IInv, TypeOK
    <3>6. CASE SpawnWorker(q) \/ SpawnedAll(q) \/ WaitReturns(q)
      BY <3>6 DEF SpawnWorker, SpawnedAll, WaitReturns, IInv, TypeOK
    <3> QED BY <2>1, <3>1, <3>2, <3>3, <3>4, <3>5, <3>6 DEF RunStep
  <2>2. ASSUME NEW w \in Workers, WorkerStep(w)
        PROVE  UNCHANGED pc
    <3>1. ~WorkerPanics(w)
      BY <1>1 DEF WorkerPanics, Halt
    <3> QED BY <2>2, <3>1 DEF WorkerStep, WorkerGets, WorkerShutDown, Cordon, CordonReturns,
          DrainReturns, UncordonReturns, CallDrainer, WorkerDone, WorkerSends, runVars
  <2>3. ASSUME ProcessStep \/ UNCHANGED vars
        PROVE  UNCHANGED pc
    BY <1>1, <2>3 DEF ProcessStep, Interrupt, ReconcileReturns, Exit, Kill, Halt, Restart,
       runVars, vars
  <2> QED BY <2>1, <2>2, <2>3 DEF Next
<1>5. u \in Upgrades
  BY <1>2, <1>4 DEF RunShape
<1>6. ASSUME pc'[p] = pc[p], cur'[p] = u, spawned'[p] = spawned[p],
             QLen(workqueues'[u]) <= QLen(workqueues[u])
      PROVE  QLen(workqueues'[cur'[p]]) <= spawned'[p]
  <2>1. QLen(workqueues[u]) <= spawned[p]
    BY <1>6 DEF AtMostHalfLeft
  <2>2. workqueues'[u] \in QueueType(Nodes)
    BY <1>5, NextInv DEF IInv, TypeOK
  <2>3. QLen(workqueues'[u]) \in Nat
    BY <2>2 DEF QueueType, QLen
  <2> QED BY <1>2, <1>3, <1>5, <1>6, <2>1, <2>3
<1>7. CASE \E q \in Pollers \ {p} : StartPoll(q) \/ RunStep(q) \/ CollectorStep(q)
  <2>1. /\ pc'[p] = pc[p] /\ cur'[p] = u /\ spawned'[p] = spawned[p]
        /\ workqueues'[u] = workqueues[u]
    BY <1>1, <1>5, <1>7, OtherPoller
  <2> QED BY <1>3, <1>5, <1>6, <2>1
<1>8. CASE SpawnedAll(p)
  <2>1. spawned[p] >= QLen(workqueues[u]) /\ UNCHANGED <<workqueues, cur, spawned>>
    BY <1>8 DEF SpawnedAll, queueVars
  <2> QED BY <1>2, <1>3, <1>5, <2>1
<1>9. CASE WaitReturns(p)
  <2>1. pc[p] = "wait" /\ UNCHANGED <<workqueues, cur, spawned>>
    BY <1>9 DEF WaitReturns, queueVars
  <2> QED BY <2>1 DEF AtMostHalfLeft
<1>10. CASE \/ CollectorStep(p) \/ Interrupt \/ Restart \/ UNCHANGED vars
  <2>1. UNCHANGED <<pc, workqueues, cur, spawned>>
    BY <1>10 DEF CollectorStep, CollectorReceives, CollectorAppends, Interrupt,
       Restart, vars, queueVars, runVars
  <2> QED BY <1>3, <1>5, <1>6, <2>1
<1>11. CASE ReconcileReturns
  <2>1. UNCHANGED <<pc, cur, spawned>> /\ workqueues'[u] = ShutDown(workqueues[u])
    BY <1>5, <1>11 DEF ReconcileReturns, runVars
  <2>2. QLen(workqueues'[u]) = QLen(workqueues[u])
    BY <1>3, <1>5, <2>1 DEF ShutDown, QueueType, QLen
  <2> QED BY <1>3, <1>5, <1>6, <2>1, <2>2
<1>12. CASE \E w \in Workers : WorkerStep(w) /\ ~WorkerPanics(w)
  <2>1. PICK w \in Workers : WorkerStep(w) /\ ~WorkerPanics(w)
    BY <1>12
  <2>2. UNCHANGED <<pc, cur, spawned>>
    BY <2>1 DEF WorkerStep, WorkerGets, WorkerShutDown, Cordon, CordonReturns, DrainReturns,
       UncordonReturns, CallDrainer, WorkerDone, WorkerSends, runVars
  <2>3. QLen(workqueues'[u]) <= QLen(workqueues[u])
    BY <1>5, <2>1, QueueShrinks
  <2> QED BY <1>6, <2>2, <2>3
<1>13. CASE \/ StartPoll(p) \/ EnqueueNode(p) \/ CheckQueue(p) \/ RecordStarted(p)
            \/ SpawnWorker(p) \/ RecordCompleted(p)
  <2>1. pc'[p] \notin {"wait", "complete"}
    BY <1>13 DEF StartPoll, EnqueueNode, CheckQueue, RecordStarted, SpawnWorker,
       RecordCompleted, IInv, TypeOK
  <2> QED BY <2>1
<1>14. ~CompletePanics(p) /\ ~Exit /\ ~Kill /\ \A w \in Workers : ~WorkerPanics(w)
  BY <1>1 DEF CompletePanics, Exit, Kill, WorkerPanics, Halt
<1> QED BY <1>7, <1>8, <1>9, <1>10, <1>11, <1>12, <1>13, <1>14 DEF Next, RunStep, ProcessStep

\* As long as no two pollers run the same upgrade, whatever their number, there is a
\* queued key for every worker that is about to call Get, so that none of them is ever
\* blocked, and a run of startUpgrade leaves no more nodes in its queue than it has
\* started workers.
THEOREM KeysForWorkers == Spec /\ []Apart => []WorkersHaveKeys
<1>1. Init => KeyForEach /\ NoneRequeued /\ AtMostHalfLeft
  <2> SUFFICES ASSUME Init PROVE KeyForEach /\ NoneRequeued /\ AtMostHalfLeft
    OBVIOUS
  <2>1. \A u \in Upgrades : /\ Waiting(u) = {} /\ QLen(workqueues[u]) = 0
                            /\ workqueues[u].dirty = {}
    BY DEF Init, FreshProcess, Waiting, QLen, EmptyQueue
  <2>2. \A p \in Pollers : pc[p] = "idle"
    BY DEF Init, FreshProcess
  <2> QED BY <2>1, <2>2, FS_EmptySet DEF KeyForEach, NoneRequeued, AtMostHalfLeft
<1>2. IInv /\ Apart /\ Apart' /\ KeyForEach /\ [Next]_vars => KeyForEach'
  BY NextHasKeys
<1>3. IInv /\ Apart /\ NoneRequeued /\ [Next]_vars => NoneRequeued'
  BY NextRequeuesNone
<1>4. IInv /\ Apart /\ NoneRequeued /\ AtMostHalfLeft /\ [Next]_vars => AtMostHalfLeft'
  BY NextLeavesHalf
<1>5. KeyForEach /\ AtMostHalfLeft => WorkersHaveKeys
  BY DEF WorkersHaveKeys
<1> QED BY <1>1, <1>2, <1>3, <1>4, <1>5, SpecInv, PTL DEF Spec

\* The case of Reconcile's loop without the informer's handler.
THEOREM KeysForTicker ==
    ASSUME Alone
    PROVE  Spec => []WorkersHaveKeys
<1>1. Apart
  BY DEF Alone, Apart
<1> QED BY <1>1, KeysForWorkers, PTL

-----------------------------------------------------------------------------
(* The recorded outcome *)

\* p's run stores its outcome, whether or not it hears of it.
StoresOutcome(p) ==
    \/ RecordCompleted(p)
    \/ CompletePanics(p) /\ condition' # condition

\* Every error that was sent to the collector is in errs.
Collected(p) == ~hand[p] /\ Buffered(p) = {}

HonestOutcome(p) ==
    /\ condition'[cur[p]] = "failed" => FailuresSent(p) # {}
    /\ Collected(p) => (condition'[cur[p]] = "failed" <=> FailuresSent(p) # {})

LEMMA StoredOutcomeHonest ==
    ASSUME IInv, ErrorsAccounted, NEW p \in Pollers, StoresOutcome(p)
    PROVE  HonestOutcome(p)
<1>1. pc[p] = "complete" /\ condition' = [condition EXCEPT ![cur[p]] = Outcome(p)]
  BY DEF StoresOutcome, RecordCompleted, CompletePanics, Stored
<1>2. condition'[cur[p]] = Outcome(p)
  BY <1>1 DEF IInv, TypeOK, RunShape
<1>3. errs[p] \in Nat /\ errChan[p] \in Seq(BOOLEAN)
  BY DEF IInv, TypeOK
<1>4. Cardinality(FailuresSent(p)) = errs[p] + One(hand[p]) + Cardinality(TrueIn(errChan[p]))
  BY AllAccounted DEF Accounted, Carried
<1>5. Cardinality(TrueIn(errChan[p])) \in Nat /\ One(hand[p]) \in Nat
  BY <1>3, TrueInFinite DEF One
<1>6. IsFiniteSet(FailuresSent(p)) /\ Cardinality(FailuresSent(p)) \in Nat
  BY FailuresFinite
<1>7. FailuresSent(p) = {} <=> Cardinality(FailuresSent(p)) = 0
  BY <1>6, FS_EmptySet
<1>8. Outcome(p) = "failed" <=> errs[p] > 0
  BY DEF Outcome
<1>9. Outcome(p) = "failed" => FailuresSent(p) # {}
  BY <1>3, <1>4, <1>5, <1>6, <1>7, <1>8
<1>10. ASSUME Collected(p) PROVE Outcome(p) = "failed" <=> FailuresSent(p) # {}
  <2>1. One(hand[p]) = 0 /\ Cardinality(TrueIn(errChan[p])) = 0
    BY <1>10, FS_EmptySet DEF Collected, One, Buffered, TrueIn
  <2>2. Cardinality(FailuresSent(p)) = errs[p]
    BY <1>3, <1>4, <2>1
  <2> QED BY <1>3, <1>7, <1>8, <2>2
<1> QED BY <1>2, <1>9, <1>10 DEF HonestOutcome

\* For any number of pollers and workers and any capacity of errChan: no run is
\* recorded as failed of which no worker has failed, and a run is recorded as
\* completed in spite of a failed worker only while the collector still has that
\* worker's error to append (startUpgrade reads errs without waiting for it).
THEOREM HonestOutcomes == Spec => [][\A p \in Pollers : StoresOutcome(p) => HonestOutcome(p)]_vars
<1>1. IInv /\ ErrorsAccounted /\ [Next]_vars
          => [\A p \in Pollers : StoresOutcome(p) => HonestOutcome(p)]_vars
  BY StoredOutcomeHonest
<1> QED BY <1>1, SpecInv, NoErrorLost, PTL DEF Spec

-----------------------------------------------------------------------------
(* How many workers a run starts *)

\* p's run has started at most one worker per node that its upgrade may touch.
WorkersBounded ==
    \A p \in Pollers :
        pc[p] \in {"spawn", "wait", "complete"} => spawned[p] <= Cardinality(Matching(cur[p]))

\* The loop only starts a worker for a queued node, in a slot that the model has.
LEMMA SpawnBounded ==
    ASSUME IInv, NEW p \in Pollers, SpawnWorker(p)
    PROVE  /\ spawned[p] \in Nat
           /\ spawned[p] + 1 <= Cardinality(Matching(cur[p]))
           /\ <<p, spawned[p]>> \in Workers
<1> DEFINE u == cur[p]
<1>1. u \in Upgrades /\ spawned[p] \in Nat /\ spawned[p] < QLen(workqueues[u])
  BY DEF SpawnWorker, IInv, TypeOK, RunShape
<1>2. Matching(u) \in SUBSET Nodes
  BY <1>1, UpgradesAssumption DEF Matching
<1>3. /\ IsFiniteSet(Matching(u)) /\ Cardinality(Matching(u)) \in Nat
      /\ Cardinality(Matching(u)) <= Cardinality(Nodes) /\ Cardinality(Nodes) \in Nat
  BY <1>2, NodesAssumption, FS_Subset, FS_CardinalityType
<1>4. workqueues[u] \in QueueType(Matching(u)) /\ Consistent(workqueues[u])
  BY <1>1 DEF IInv, QueueKeys, QueueContract
<1> HIDE DEF u
<1>5. QLen(workqueues[u]) \in Nat /\ QLen(workqueues[u]) <= Cardinality(Matching(u))
  BY <1>3, <1>4, QueueBound
<1>6. spawned[p] + 1 <= Cardinality(Matching(u))
  BY <1>1, <1>3, <1>5
<1>7. spawned[p] \in Slots
  BY <1>1, <1>3, <1>6 DEF Slots
<1> QED BY <1>1, <1>6, <1>7 DEF Workers, u

LEMMA NextBoundsWorkers ==
    ASSUME IInv, WorkersBounded, [Next]_vars
    PROVE  WorkersBounded'
<1> SUFFICES ASSUME NEW p \in Pollers, pc'[p] \in {"spawn", "wait", "complete"}
             PROVE  spawned'[p] <= Cardinality(Matching(cur'[p]))
  BY DEF WorkersBounded, Matching
<1>1. CASE SpawnWorker(p)
  <2>1. spawned'[p] = spawned[p] + 1 /\ cur' = cur
    BY <1>1 DEF SpawnWorker, IInv, TypeOK
  <2> QED BY <1>1, <2>1, SpawnBounded
<1>2. CASE RecordStarted(p)
  <2>1. pc[p] = "record" /\ cur' = cur /\ spawned' = spawned /\ cur[p] \in Upgrades
    BY <1>2 DEF RecordStarted, IInv, RunShape
  <2>2. spawned[p] = 0
    BY <2>1 DEF IInv, RunShape
  <2>3. Matching(cur[p]) \in SUBSET Nodes
    BY <2>1, UpgradesAssumption DEF Matching
  <2>4. Cardinality(Matching(cur[p])) \in Nat
    BY <2>3, NodesAssumption, FS_Subset, FS_CardinalityType
  <2> QED BY <2>1, <2>2, <2>4
<1>3. CASE pc[p] \in {"spawn", "wait", "complete"} /\ cur'[p] = cur[p] /\ spawned'[p] = spawned[p]
  BY <1>3 DEF WorkersBounded
<1>4. ~LoseMemory
  BY DEF LoseMemory
<1>5. ASSUME NEW q \in Pollers, q # p, StartPoll(q) \/ RunStep(q) \/ CollectorStep(q)
      PROVE  pc'[p] = pc[p] /\ cur'[p] = cur[p] /\ spawned'[p] = spawned[p]
  BY <1>4, <1>5 DEF StartPoll, RunStep, EnqueueNode, CheckQueue, RecordStarted, SpawnWorker,
     SpawnedAll, WaitReturns, RecordCompleted, CompletePanics, CollectorStep, CollectorReceives,
     CollectorAppends, runVars, IInv, TypeOK
<1>6. ASSUME \/ StartPoll(p) \/ EnqueueNode(p) \/ CheckQueue(p) \/ RecordCompleted(p)
             \/ CompletePanics(p)
      PROVE  FALSE
  BY <1>4, <1>6 DEF StartPoll, EnqueueNode, CheckQueue, RecordCompleted, CompletePanics, IInv, TypeOK
<1>7. ASSUME SpawnedAll(p) \/ WaitReturns(p) \/ CollectorStep(p)
      PROVE  pc[p] \in {"spawn", "wait", "complete"} /\ cur'[p] = cur[p] /\ spawned'[p] = spawned[p]
  BY <1>7 DEF SpawnedAll, WaitReturns, CollectorStep, CollectorReceives, CollectorAppends, runVars
<1>8. ASSUME (\E w \in Workers : WorkerStep(w)) \/ ProcessStep \/ UNCHANGED vars
      PROVE  pc'[p] = pc[p] /\ cur'[p] = cur[p] /\ spawned'[p] = spawned[p]
  BY <1>4, <1>8 DEF WorkerStep, WorkerPanics, WorkerGets, WorkerShutDown, Cordon, CordonReturns,
     DrainReturns, UncordonReturns, CallDrainer, WorkerDone, WorkerSends, ProcessStep, Interrupt,
     ReconcileReturns, Exit, Kill, Restart, Halt, runVars, vars
<1> QED BY <1>1, <1>2, <1>3, <1>5, <1>6, <1>7, <1>8 DEF Next, RunStep

\* For any number of pollers and any selectors a run of startUpgrade starts at most
\* one worker for every node that its upgrade matches, whatever the workers take
\* from the queue and put back while the loop compares i with its length.
THEOREM OneWorkerPerMatch == Spec => []WorkersBounded
<1>1. Init => WorkersBounded
  BY DEF Init, FreshProcess, WorkersBounded
<1>2. IInv /\ WorkersBounded /\ [Next]_vars => WorkersBounded'
  BY NextBoundsWorkers
<1> QED BY <1>1, <1>2, SpecInv, PTL DEF Spec

-----------------------------------------------------------------------------
(* Runs end *)

\* How far a poller is in its run, and a worker in its own.
PollerRank == [idle |-> 0, enqueue |-> 1, record |-> 2, spawn |-> 3, wait |-> 4, complete |-> 5]
WorkerRank == [none |-> 0, get |-> 1, cordon |-> 2, cordoning |-> 3, drain |-> 4,
               uncordoning |-> 5, done |-> 6, send |-> 7, exit |-> 8]

LEMMA Ranks ==
    /\ PollerRank \in [PollerPCs -> 0 .. 5]
    /\ WorkerRank \in [WorkerPCs -> 0 .. 8]
BY DEF PollerRank, WorkerRank, PollerPCs, WorkerPCs

\* The parts of p's run: what is left to list, the poller, and each of its workers.
Forward(p) ==
    /\ todo'[p] \subseteq todo[p]
    /\ PollerRank[pc[p]] <= PollerRank[pc'[p]]
    /\ \A w \in Workers : w[1] = p => WorkerRank[wpc[w]] <= WorkerRank[wpc'[w]]

Onward(p) ==
    \/ todo'[p] # todo[p]
    \/ PollerRank[pc[p]] < PollerRank[pc'[p]]
    \/ \E w \in Workers : w[1] = p /\ WorkerRank[wpc[w]] < WorkerRank[wpc'[w]]

OwnStep(p) == RunStep(p) \/ \E w \in Workers : w[1] = p /\ WorkerStep(w)

\* While p's run lasts no step of any goroutine takes a part of it back, and each
\* step of its own takes a part of it further.
RunAdvances(p) ==
    pc[p] # "idle" /\ pc'[p] # "idle" => Forward(p) /\ (OwnStep(p) => Onward(p))

LEMMA PollerAdvances ==
    ASSUME IInv, NEW p \in Pollers, RunStep(p), pc'[p] # "idle"
    PROVE  Forward(p) /\ Onward(p)
<1>0. ~LoseMemory /\ ~CompletePanics(p) /\ ~RecordCompleted(p)
  <2>1. ~LoseMemory
    BY DEF LoseMemory
  <2>2. ~RecordCompleted(p)
    BY DEF RecordCompleted, IInv, TypeOK
  <2> QED BY <2>1, <2>2 DEF CompletePanics
<1>1. PollerRank[pc[p]] \in 0 .. 5 /\ \A w \in Workers : WorkerRank[wpc[w]] \in 0 .. 8
  BY Ranks DEF IInv, TypeOK
<1>2. CASE EnqueueNode(p)
  <2>1. UNCHANGED <<pc, wpc>> /\ \E n \in todo[p] : todo'[p] = todo[p] \ {n}
    BY <1>2 DEF EnqueueNode, workerVars, IInv, TypeOK
  <2> QED BY <1>1, <2>1 DEF Forward, Onward
<1>3. CASE CheckQueue(p) \/ RecordStarted(p) \/ SpawnedAll(p) \/ WaitReturns(p)
  <2>1. /\ UNCHANGED <<todo, wpc>>
        /\ \/ pc[p] = "enqueue" /\ pc'[p] = "record"
           \/ pc[p] = "record" /\ pc'[p] = "spawn"
           \/ pc[p] = "spawn" /\ pc'[p] = "wait"
           \/ pc[p] = "wait" /\ pc'[p] = "complete"
    BY <1>3 DEF CheckQueue, RecordStarted, SpawnedAll, WaitReturns, workerVars, IInv, TypeOK
  <2>2. PollerRank[pc[p]] < PollerRank[pc'[p]]
    BY <2>1 DEF PollerRank
  <2>3. PollerRank[pc[p]] <= PollerRank[pc'[p]]
    BY <2>1 DEF PollerRank
  <2> QED BY <1>1, <2>1, <2>2, <2>3 DEF Forward, Onward
<1>4. CASE SpawnWorker(p)
  <2> DEFINE n == <<p, spawned[p]>>
  <2>1. UNCHANGED <<todo, pc>>
    BY <1>4 DEF SpawnWorker
  <2>2. n \in Workers /\ n[1] = p /\ wpc[n] = "none" /\ wpc'[n] = "get"
    BY <1>4, FreeSlot, SpawnBounded
  <2>3. \A w \in Workers : w # n => wpc'[w] = wpc[w]
    BY <1>4, FreeSlot
  <2>4. WorkerRank[wpc[n]] = 0 /\ WorkerRank[wpc'[n]] = 1
    BY <2>2 DEF WorkerRank
  <2> HIDE DEF n
  <2> QED BY <1>1, <2>1, <2>2, <2>3, <2>4 DEF Forward, Onward
<1> QED BY <1>0, <1>2, <1>3, <1>4 DEF RunStep

LEMMA WorkerAdvances ==
    ASSUME IInv, NEW w \in Workers, WorkerStep(w), ~WorkerPanics(w)
    PROVE  /\ UNCHANGED <<pc, todo>>
           /\ WorkerRank[wpc[w]] < WorkerRank[wpc'[w]]
           /\ \A v \in Workers \ {w} : wpc'[v] = wpc[v]
<1>1. UNCHANGED <<pc, todo>>
  BY DEF WorkerStep, WorkerGets, WorkerShutDown, Cordon, CordonReturns, DrainReturns,
     UncordonReturns, CallDrainer, WorkerDone, WorkerSends, runVars
<1>2. \/ wpc[w] = "get" /\ wpc' = [wpc EXCEPT ![w] = "cordon"]
      \/ wpc[w] = "get" /\ wpc' = [wpc EXCEPT ![w] = "send"]
      \/ wpc[w] = "cordon" /\ wpc' = [wpc EXCEPT ![w] = "cordoning"]
      \/ wpc[w] = "cordoning" /\ wpc' = [wpc EXCEPT ![w] = "drain"]
      \/ wpc[w] = "drain" /\ wpc' = [wpc EXCEPT ![w] = "uncordoning"]
      \/ wpc[w] \in {"cordon", "cordoning", "drain", "uncordoning"} /\ wpc' = [wpc EXCEPT ![w] = "done"]
      \/ wpc[w] = "done" /\ wpc' = [wpc EXCEPT ![w] = "send"]
      \/ wpc[w] = "send" /\ wpc' = [wpc EXCEPT ![w] = "exit"]
  BY DEF WorkerStep, WorkerGets, WorkerShutDown, Cordon, CordonReturns, DrainReturns,
     UncordonReturns, CallDrainer, WorkerDone, WorkerSends, Finish
<1>3. \A v \in Workers \ {w} : wpc'[v] = wpc[v]
  BY <1>2 DEF IInv, TypeOK
<1>4. \/ wpc[w] = "get" /\ wpc'[w] \in {"cordon", "send"}
      \/ wpc[w] = "cordon" /\ wpc'[w] \in {"cordoning", "done"}
      \/ wpc[w] = "cordoning" /\ wpc'[w] \in {"drain", "done"}
      \/ wpc[w] = "drain" /\ wpc'[w] \in {"uncordoning", "done"}
      \/ wpc[w] = "uncordoning" /\ wpc'[w] = "done"
      \/ wpc[w] = "done" /\ wpc'[w] = "send"
      \/ wpc[w] = "send" /\ wpc'[w] = "exit"
  BY <1>2 DEF IInv, TypeOK
<1>5. WorkerRank[wpc[w]] < WorkerRank[wpc'[w]]
  BY <1>4 DEF WorkerRank
<1> QED BY <1>1, <1>3, <1>5

\* The steps of other goroutines leave the run alone, unless the process ends.
LEMMA OthersLeaveRun ==
    ASSUME IInv, NEW p \in Pollers, pc[p] # "idle", pc'[p] # "idle",
           \/ \E q \in Pollers : StartPoll(q) \/ (q # p /\ RunStep(q)) \/ CollectorStep(q)
           \/ ProcessStep \/ UNCHANGED vars
    PROVE  /\ pc'[p] = pc[p] /\ todo'[p] = todo[p]
           /\ \A w \in Workers : w[1] = p => wpc'[w] = wpc[w]
<1>0. ~LoseMemory
  BY DEF LoseMemory
<1>1. CASE ProcessStep \/ UNCHANGED vars
  BY <1>0, <1>1 DEF ProcessStep, Interrupt, ReconcileReturns, Exit, Kill, Restart, Halt,
     runVars, workerVars, vars
<1>2. CASE \E q \in Pollers : CollectorStep(q)
  BY <1>2 DEF CollectorStep, CollectorReceives, CollectorAppends, runVars, workerVars
<1>3. CASE \E q \in Pollers : q # p /\ SpawnWorker(q)
  <2>1. PICK q \in Pollers : q # p /\ SpawnWorker(q)
    BY <1>3
  <2>2. \A w \in Workers : w[1] = p => w # <<q, spawned[q]>>
    BY <2>1
  <2> QED BY <2>1, <2>2, FreeSlot DEF SpawnWorker
<1>4. CASE \E q \in Pollers : StartPoll(q) \/ (q # p /\ RunStep(q) /\ ~SpawnWorker(q))
  <2>1. PICK q \in Pollers : StartPoll(q) \/ (q # p /\ RunStep(q) /\ ~SpawnWorker(q))
    BY <1>4
  <2>2. q # p
    BY <2>1 DEF StartPoll
  <2> QED BY <1>0, <2>1, <2>2
          DEF StartPoll, RunStep, EnqueueNode, CheckQueue, RecordStarted, SpawnedAll, WaitReturns,
              RecordCompleted, CompletePanics, workerVars, IInv, TypeOK
<1> QED BY <1>1, <1>2, <1>3, <1>4

LEMMA NextAdvances ==
    ASSUME IInv, [Next]_vars, NEW p \in Pollers
    PROVE  RunAdvances(p)
<1> SUFFICES ASSUME pc[p] # "idle", pc'[p] # "idle"
             PROVE  Forward(p) /\ (OwnStep(p) => Onward(p))
  BY DEF RunAdvances
<1>0. /\ ~LoseMemory /\ \A w \in Workers : ~WorkerPanics(w)
      /\ PollerRank[pc[p]] \in 0 .. 5 /\ \A w \in Workers : WorkerRank[wpc[w]] \in 0 .. 8
  <2>1. ~LoseMemory
    BY DEF LoseMemory
  <2> QED BY <2>1, Ranks DEF WorkerPanics, Halt, IInv, TypeOK
<1>1. ASSUME NEW w \in Workers, WorkerStep(w)
      PROVE  Forward(p) /\ (w[1] = p => Onward(p))
  <2>1. /\ UNCHANGED <<pc, todo>>
        /\ WorkerRank[wpc[w]] < WorkerRank[wpc'[w]]
        /\ \A v \in Workers \ {w} : wpc'[v] = wpc[v]
    BY <1>0, <1>1, WorkerAdvances
  <2>2. WorkerRank[wpc'[w]] \in 0 .. 8
    BY Ranks, NextInv DEF IInv, TypeOK
  <2>3. \A v \in Workers : WorkerRank[wpc[v]] <= WorkerRank[wpc'[v]]
    BY <1>0, <2>1, <2>2
  <2> QED BY <1>0, <2>1, <2>3 DEF Forward, Onward
<1>2. ASSUME RunStep(p) PROVE Forward(p) /\ Onward(p)
  BY <1>2, PollerAdvances
<1>3. ASSUME \/ \E q \in Pollers : StartPoll(q) \/ (q # p /\ RunStep(q)) \/ CollectorStep(q)
             \/ ProcessStep \/ UNCHANGED vars
      PROVE  Forward(p)
  <2>1. /\ pc'[p] = pc[p] /\ todo'[p] = todo[p]
        /\ \A w \in Workers : w[1] = p => wpc'[w] = wpc[w]
    BY <1>3, OthersLeaveRun
  <2> QED BY <1>0, <2>1 DEF Forward
<1>4. Forward(p)
  BY <1>1, <1>2, <1>3 DEF Next
<1>5. OwnStep(p) => Onward(p)
  BY <1>1, <1>2 DEF OwnStep
<1> QED BY <1>4, <1>5

\* For any number of pollers, workers and faults: no step of a run repeats an earlier
\* one, and no other goroutine sets it back.  A run thus takes at most one step per
\* listed node, five of its poller and eight of each worker.
THEOREM RunIsBounded == Spec => [][\A p \in Pollers : RunAdvances(p)]_vars
<1>1. IInv /\ [Next]_vars => [\A p \in Pollers : RunAdvances(p)]_vars
  BY NextAdvances
<1> QED BY <1>1, SpecInv, PTL DEF Spec

\* The guards of WorkerStep(w), and those of RunStep and CollectorStep for p's run.
WorkerCanMove(w) ==
    \/ wpc[w] = "get" /\ (\/ nilClone[w[1]]
                          \/ CanGet(workqueues[cur[w[1]]])
                          \/ GetShutdown(workqueues[cur[w[1]]]))
    \/ Holds(w)
    \/ wpc[w] = "send" /\ (\/ Len(errChan[w[1]]) < MaxUnavailable[cur[w[1]]]
                           \/ MaxUnavailable[cur[w[1]]] = 0 /\ ~hand[w[1]])

RunCanMove(p) ==
    \/ pc[p] \in {"enqueue", "record", "spawn", "complete"}
    \/ pc[p] = "wait" /\ \A w \in Workers : w[1] = p => wpc[w] \in {"none", "exit"}
    \/ errChan[p] # <<>> \/ hand[p]
    \/ \E w \in Workers : w[1] = p /\ WorkerCanMove(w)

NotStuck == \A p \in Pollers : pc[p] # "idle" => RunCanMove(p)

\* Worker w waits for a key in a queue that has none and is not shut down.
BlockedInGet(w) == wpc[w] = "get" /\ QLen(workqueues[cur[w[1]]]) = 0

StuckInGetOnly ==
    \A p \in Pollers : pc[p] # "idle" /\ ~RunCanMove(p)
        => \E w \in Workers : w[1] = p /\ BlockedInGet(w)

LEMMA GetIsTheOnlyWait ==
    ASSUME IInv
    PROVE  StuckInGetOnly
<1> SUFFICES ASSUME NEW p \in Pollers, pc[p] = "wait", errChan[p] = <<>>, ~hand[p],
                    NEW w \in Workers, w[1] = p, wpc[w] \notin {"none", "exit"}
             PROVE  WorkerCanMove(w) \/ BlockedInGet(w)
  <2>1. \A p \in Pollers : pc[p] \in PollerPCs
    BY DEF IInv, TypeOK
  <2> QED BY <2>1 DEF StuckInGetOnly, RunCanMove, PollerPCs
<1>1. wpc[w] \in WorkerPCs /\ cur[p] \in Upgrades
  BY DEF IInv, TypeOK, RunShape
<1>2. CASE wpc[w] = "get"
  <2>1. workqueues[cur[p]] \in QueueType(Nodes)
    BY <1>1 DEF IInv, TypeOK
  <2>2. QLen(workqueues[cur[p]]) = 0 \/ CanGet(workqueues[cur[p]])
    BY <2>1 DEF CanGet, QLen
  <2> QED BY <1>2, <2>2 DEF WorkerCanMove, BlockedInGet
<1>3. CASE wpc[w] = "send"
  <2>1. MaxUnavailable[cur[p]] \in Nat /\ Len(errChan[p]) = 0
    BY <1>1, UpgradesAssumption
  <2> QED BY <1>3, <2>1 DEF WorkerCanMove
<1>4. CASE Holds(w)
  BY <1>4 DEF WorkerCanMove
<1> QED BY <1>1, <1>2, <1>3, <1>4 DEF WorkerPCs, Holds

\* For any number of pollers, also with the same upgrade, and any capacity of errChan:
\* a run can only get stuck in Get.  The channel of errors, the collector and the wait
\* for the workers never block each other.
THEOREM OnlyGetBlocks == Spec => []StuckInGetOnly
BY SpecInv, GetIsTheOnlyWait, PTL

LEMMA KeysUnblock ==
    ASSUME Apart, IInv, KeyForEach
    PROVE  NotStuck
<1> SUFFICES ASSUME NEW w \in Workers, BlockedInGet(w) PROVE FALSE
  BY GetIsTheOnlyWait DEF NotStuck, StuckInGetOnly
<1> DEFINE u == cur[w[1]]
<1>1. u \in Upgrades
  BY AtWork DEF BlockedInGet, Working
<1>2. /\ w \in Waiting(u) /\ Waiting(u) \in SUBSET Workers
      /\ \A v, x \in Waiting(u) : v[1] = x[1]
  BY <1>1, WorkerOf, NoneAssumption DEF Waiting, BlockedInGet, Apart
<1>3. IsFiniteSet(Waiting(u)) /\ Cardinality(Waiting(u)) \in Nat
  BY <1>2, OneRunFinite
<1>4. Cardinality(Waiting(u)) # 0
  BY <1>2, <1>3, FS_EmptySet
<1>5. Cardinality(Waiting(u)) <= 0
  BY <1>1 DEF KeyForEach, BlockedInGet
<1> QED BY <1>3, <1>4, <1>5

\* As long as no two pollers run the same upgrade, a run that has not returned can
\* move: its poller, its collector or one of its workers is not blocked.
THEOREM RunNeverStuck == Spec /\ []Apart => []NotStuck
<1>1. WorkersHaveKeys => KeyForEach
  BY DEF WorkersHaveKeys
<1>2. IInv /\ Apart /\ KeyForEach => NotStuck
  BY KeysUnblock
<1> QED BY <1>1, <1>2, KeysForWorkers, SpecInv, PTL

=============================================================================
