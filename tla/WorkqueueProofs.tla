--------------------------- MODULE WorkqueueProofs ---------------------------
(***************************************************************************)
(* The work queue's methods keep its contract, for any set of items: what  *)
(* each method returns, preserves and does to the set processing.          *)
(***************************************************************************)
EXTENDS Workqueue, FiniteSetTheorems, TLAPS

LEMMA TailElements ==
    ASSUME NEW S, NEW s \in Seq(S), s # <<>>
    PROVE  /\ Len(Tail(s)) = Len(s) - 1
           /\ \A i \in 1 .. Len(Tail(s)) : i + 1 \in 1 .. Len(s) /\ Tail(s)[i] = s[i + 1]
OBVIOUS

\* Type.Add, in each of its three cases.
LEMMA AddKeeps ==
    ASSUME NEW Items, NEW q \in QueueType(Items), Consistent(q), NEW x \in Items
    PROVE  /\ Add(q, x) \in QueueType(Items)
           /\ Consistent(Add(q, x))
           /\ Add(q, x).processing = q.processing
<1>1. CASE q.shuttingDown \/ x \in q.dirty
  BY <1>1 DEF Add
<1>2. CASE ~(q.shuttingDown \/ x \in q.dirty) /\ x \in q.processing
  <2>1. Add(q, x) = [q EXCEPT !.dirty = q.dirty \cup {x}]
    BY <1>2 DEF Add, QueueType
  <2> QED BY <1>2, <2>1 DEF QueueType, Consistent
<1>3. CASE ~(q.shuttingDown \/ x \in q.dirty) /\ x \notin q.processing
  <2> DEFINE r == Add(q, x)
  <2>1. /\ r.queue = Append(q.queue, x) /\ r.dirty = q.dirty \cup {x}
        /\ r.processing = q.processing
        /\ r = [queue |-> r.queue, dirty |-> r.dirty, processing |-> r.processing,
                shuttingDown |-> q.shuttingDown]
    BY <1>3 DEF Add, QueueType
  <2>2. q.queue \in Seq(Items) /\ Len(q.queue) \in Nat /\ q.shuttingDown \in BOOLEAN
    BY DEF QueueType
  <2>3. /\ r.queue \in Seq(Items) /\ Len(r.queue) = Len(q.queue) + 1
        /\ r.queue[Len(q.queue) + 1] = x
        /\ \A i \in 1 .. Len(q.queue) : r.queue[i] = q.queue[i]
        /\ r.dirty = q.dirty \cup {x} /\ r.processing = q.processing
    BY <2>1, <2>2
  <2>4. r \in QueueType(Items)
    BY <2>1, <2>2, <2>3 DEF QueueType
  <2>5. \A i \in 1 .. Len(r.queue) : i \in 1 .. Len(q.queue) \/ i = Len(q.queue) + 1
    BY <2>2, <2>3
  <2>6. \A i \in 1 .. Len(q.queue) : q.queue[i] # x
    BY <1>3 DEF Consistent
  <2>7. \A i \in 1 .. Len(r.queue) : r.queue[i] \in r.dirty /\ r.queue[i] \notin r.processing
    BY <1>3, <2>3, <2>5 DEF Consistent
  <2>8. \A y \in r.dirty : y \in r.processing \/ \E i \in 1 .. Len(r.queue) : r.queue[i] = y
    <3> SUFFICES ASSUME NEW y \in r.dirty, y \notin r.processing
                 PROVE  \E i \in 1 .. Len(r.queue) : r.queue[i] = y
      OBVIOUS
    <3>1. CASE y = x
      BY <3>1, <2>2, <2>3
    <3>2. CASE y # x
      <4>1. PICK i \in 1 .. Len(q.queue) : q.queue[i] = y
        BY <3>2, <2>3 DEF Consistent
      <4> QED BY <4>1, <2>2, <2>3
    <3> QED BY <3>1, <3>2
  <2>9. \A i, j \in 1 .. Len(r.queue) : r.queue[i] = r.queue[j] => i = j
    BY <2>3, <2>5, <2>6 DEF Consistent
  <2> QED BY <2>3, <2>4, <2>7, <2>8, <2>9 DEF Consistent
<1> QED BY <1>1, <1>2, <1>3

\* Type.Get: nobody processes the item that it returns.
LEMMA GetKeeps ==
    ASSUME NEW Items, NEW q \in QueueType(Items), Consistent(q), CanGet(q)
    PROVE  /\ Head(q.queue) \in Items /\ Head(q.queue) \notin q.processing
           /\ Get(q) \in QueueType(Items)
           /\ Consistent(Get(q))
           /\ Get(q).processing = q.processing \cup {Head(q.queue)}
<1> DEFINE h == Head(q.queue)
           r == Get(q)
<1>1. q.queue \in Seq(Items) /\ q.queue # <<>> /\ Len(q.queue) \in Nat
  BY DEF QueueType, CanGet
<1>2. 1 \in 1 .. Len(q.queue) /\ h = q.queue[1] /\ h \in Items /\ h \in q.dirty /\ h \notin q.processing
  BY <1>1 DEF Consistent
<1>3. r.queue = Tail(q.queue)
  BY DEF Get, QueueType
<1>4. r.processing = q.processing \cup {h}
  BY DEF Get, QueueType
<1>5. r.dirty = q.dirty \ {h}
  BY DEF Get, QueueType
<1>6. r \in QueueType(Items)
  <2>1. Tail(q.queue) \in Seq(Items)
    BY <1>1
  <2> QED BY <1>2, <2>1 DEF Get, QueueType
<1>7. /\ r \in QueueType(Items)
      /\ r.queue = Tail(q.queue) /\ r.processing = q.processing \cup {h} /\ r.dirty = q.dirty \ {h}
  BY <1>3, <1>4, <1>5, <1>6
<1> HIDE DEF h, r
<1>8. /\ Len(r.queue) = Len(q.queue) - 1
      /\ \A i \in 1 .. Len(r.queue) : i + 1 \in 1 .. Len(q.queue) /\ r.queue[i] = q.queue[i + 1]
  <2>1. r.queue = Tail(q.queue)
    BY <1>7
  <2>2. /\ Len(Tail(q.queue)) = Len(q.queue) - 1
        /\ \A i \in 1 .. Len(Tail(q.queue)) : /\ i + 1 \in 1 .. Len(q.queue)
                                             /\ Tail(q.queue)[i] = q.queue[i + 1]
    BY <1>1, TailElements
  <2> QED BY <2>1, <2>2
<1>9. \A i \in 1 .. Len(r.queue) : r.queue[i] # h
  BY <1>1, <1>2, <1>8 DEF Consistent
<1>10. \A i \in 1 .. Len(r.queue) : r.queue[i] \in r.dirty /\ r.queue[i] \notin r.processing
  BY <1>7, <1>8, <1>9 DEF Consistent
<1>11. \A y \in r.dirty : y \in r.processing \/ \E i \in 1 .. Len(r.queue) : r.queue[i] = y
  <2> SUFFICES ASSUME NEW y \in r.dirty, y \notin r.processing
               PROVE  \E i \in 1 .. Len(r.queue) : r.queue[i] = y
    OBVIOUS
  <2>1. PICK j \in 1 .. Len(q.queue) : q.queue[j] = y
    BY <1>7 DEF Consistent
  <2>2. j # 1
    BY <1>2, <1>7, <2>1
  <2>3. j - 1 \in 1 .. Len(r.queue) /\ (j - 1) + 1 = j
    BY <1>1, <1>8, <2>2
  <2>4. r.queue[j - 1] = y
    BY <1>8, <2>1, <2>3
  <2> QED BY <2>3, <2>4
<1>12. \A i, j \in 1 .. Len(r.queue) : r.queue[i] = r.queue[j] => i = j
  BY <1>1, <1>8 DEF Consistent
<1> QED BY <1>2, <1>7, <1>10, <1>11, <1>12 DEF Consistent, h, r

\* Type.Done of an item that is being processed: it is queued again only if it
\* was added in the meantime, and then it is not in the queue yet.
LEMMA DoneKeeps ==
    ASSUME NEW Items, NEW q \in QueueType(Items), Consistent(q), NEW x \in q.processing
    PROVE  /\ Done(q, x) \in QueueType(Items)
           /\ Consistent(Done(q, x))
           /\ Done(q, x).processing = q.processing \ {x}
<1> DEFINE r == Done(q, x)
<1>0. q.queue \in Seq(Items) /\ Len(q.queue) \in Nat /\ x \in Items
  BY DEF QueueType
<1>1. CASE x \notin q.dirty
  <2>1. /\ r = [q EXCEPT !.processing = q.processing \ {x}] /\ r \in QueueType(Items)
        /\ r.queue = q.queue /\ r.dirty = q.dirty /\ r.processing = q.processing \ {x}
    BY <1>1 DEF Done, QueueType
  <2> QED BY <1>1, <2>1 DEF Consistent
<1>2. CASE x \in q.dirty
  <2>1. r.queue = Append(q.queue, x)
    BY <1>2 DEF Done, QueueType
  <2>2. r.processing = q.processing \ {x}
    BY DEF Done, QueueType
  <2>3. r.dirty = q.dirty
    BY DEF Done, QueueType
  <2>4. r \in QueueType(Items)
    <3>1. Append(q.queue, x) \in Seq(Items)
      BY <1>0
    <3> QED BY <1>2, <3>1 DEF Done, QueueType
  <2>5. /\ r \in QueueType(Items)
        /\ r.queue = Append(q.queue, x) /\ r.dirty = q.dirty /\ r.processing = q.processing \ {x}
    BY <2>1, <2>2, <2>3, <2>4
  <2>6. /\ Len(r.queue) = Len(q.queue) + 1
        /\ r.queue[Len(q.queue) + 1] = x
        /\ \A i \in 1 .. Len(q.queue) : i \in 1 .. Len(r.queue) /\ r.queue[i] = q.queue[i]
        /\ \A i \in 1 .. Len(r.queue) : i \in 1 .. Len(q.queue) \/ i = Len(q.queue) + 1
    BY <1>0, <2>5
  <2>7. \A i \in 1 .. Len(q.queue) : q.queue[i] # x
    BY DEF Consistent
  <2>8. \A i \in 1 .. Len(r.queue) : r.queue[i] \in r.dirty /\ r.queue[i] \notin r.processing
    BY <1>2, <2>5, <2>6 DEF Consistent
  <2>9. \A y \in r.dirty : y \in r.processing \/ \E i \in 1 .. Len(r.queue) : r.queue[i] = y
    <3> SUFFICES ASSUME NEW y \in r.dirty, y \notin r.processing
                 PROVE  \E i \in 1 .. Len(r.queue) : r.queue[i] = y
      OBVIOUS
    <3>1. CASE y = x
      BY <3>1, <1>0, <2>6
    <3>2. CASE y # x
      <4>1. PICK i \in 1 .. Len(q.queue) : q.queue[i] = y
        BY <3>2, <2>5 DEF Consistent
      <4> QED BY <4>1, <2>6
    <3> QED BY <3>1, <3>2
  <2>10. \A i, j \in 1 .. Len(r.queue) : r.queue[i] = r.queue[j] => i = j
    BY <2>6, <2>7 DEF Consistent
  <2> QED BY <2>5, <2>8, <2>9, <2>10 DEF Consistent
<1> QED BY <1>1, <1>2

\* Type.ShutDown and an empty queue.
LEMMA ShutDownKeeps ==
    ASSUME NEW Items, NEW q \in QueueType(Items), Consistent(q)
    PROVE  /\ ShutDown(q) \in QueueType(Items)
           /\ Consistent(ShutDown(q))
           /\ ShutDown(q).processing = q.processing
BY DEF ShutDown, QueueType, Consistent

LEMMA EmptyQueueContract ==
    ASSUME NEW Items
    PROVE  /\ EmptyQueue \in QueueType(Items)
           /\ Consistent(EmptyQueue)
           /\ EmptyQueue.processing = {}
BY DEF EmptyQueue, QueueType, Consistent

\* No item is queued twice: a queue is never longer than the set of its items.
LEMMA QueueBound ==
    ASSUME NEW Items, IsFiniteSet(Items), NEW q \in QueueType(Items), Consistent(q)
    PROVE  QLen(q) \in Nat /\ QLen(q) <= Cardinality(Items)
<1>1. q.queue \in Seq(Items) /\ QLen(q) \in Nat /\ DOMAIN q.queue = 1 .. QLen(q)
  BY DEF QueueType, QLen
<1>2. q.queue \in Injection(1 .. QLen(q), Items)
  <2>1. q.queue \in [1 .. QLen(q) -> Items]
    BY <1>1
  <2>2. \A i, j \in 1 .. QLen(q) : q.queue[i] = q.queue[j] => i = j
    BY <1>1 DEF Consistent, QLen
  <2> QED BY <2>1, <2>2 DEF Injection, IsInjective
<1>3. Cardinality(1 .. QLen(q)) <= Cardinality(Items)
  BY <1>2, FS_Injection
<1>4. Cardinality(1 .. QLen(q)) = QLen(q)
  BY <1>1, FS_Interval
<1> QED BY <1>1, <1>3, <1>4

=============================================================================
