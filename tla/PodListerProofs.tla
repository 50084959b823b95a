--------------------------- MODULE PodListerProofs ---------------------------
(***************************************************************************)
(* Proofs about PodLister, for any number of list goroutines.              *)
(***************************************************************************)
EXTENDS PodLister, TLAPS

LEMMA StartUpKeepsType ==
    ASSUME TypeOK, ReadEnv \/ clientSet \/ registerCounter \/ startHTTPServer \/ ServerFails
    PROVE  TypeOK'
BY DEF TypeOK, ReadEnv, clientSet, registerCounter, startHTTPServer, ServerFails, GoTo, env,
   mainVars

\* Main receives nothing but a result that a list goroutine sends, and a goroutine
\* is started in a free slot only.
LEMMA LoopsKeepType ==
    ASSUME TypeOK,
           \/ TimerFires \/ StartList \/ ContextDone \/ Signal \/ ReceiveExit
           \/ \E g \in Lists : ListReturns(g) \/ Receive(g)
    PROVE  TypeOK'
<1>1. ASSUME NEW g \in Lists, NEW r \in {"none", "listing", "error", "data"},
             list' = [list EXCEPT ![g] = r]
      PROVE  list' \in [Lists -> {"none", "listing", "error", "data"}]
  BY <1>1 DEF TypeOK
<1>2. list' \in [Lists -> {"none", "listing", "error", "data"}]
  <2>1. CASE UNCHANGED list
    BY <2>1 DEF TypeOK
  <2>2. CASE StartList
    BY <1>1, <2>2 DEF StartList
  <2>3. CASE \E g \in Lists : ListReturns(g) \/ Receive(g)
    <3>1. PICK g \in Lists : ListReturns(g) \/ Receive(g)
      BY <2>3
    <3>2. \E r \in {"none", "error", "data"} : list' = [list EXCEPT ![g] = r]
      BY <3>1 DEF ListReturns, Receive
    <3> QED BY <1>1, <3>2
  <2> QED BY <2>1, <2>2, <2>3 DEF TimerFires, ContextDone, Signal, ReceiveExit
<1>3. /\ UNCHANGED <<contextTimeout, showErrorsOnly, main, server>>
      /\ exit' \in BOOLEAN /\ cancelled' \in BOOLEAN /\ tick' \in BOOLEAN
  BY DEF TypeOK, TimerFires, StartList, ContextDone, Signal, ReceiveExit, ListReturns, Receive,
     env, mainVars
<1> QED BY <1>2, <1>3 DEF TypeOK

\* The variables of PodLister have their types: main receives from a goroutine that
\* sends, and a list goroutine that has ended can be started again.
THEOREM TypeCorrect == Spec => []TypeOK
<1>1. Init => TypeOK
  BY DEF Init, TypeOK
<1>2. TypeOK /\ [Next]_vars => TypeOK'
  <2> SUFFICES ASSUME TypeOK, [Next]_vars PROVE TypeOK'
    OBVIOUS
  <2>1. CASE UNCHANGED vars
    BY <2>1 DEF TypeOK, vars, env, mainVars
  <2> QED BY <2>1, StartUpKeepsType, LoopsKeepType DEF Next
<1> QED BY <1>1, <1>2, PTL DEF Spec

\* Nothing of the two loops exists before main is in its own: no list goroutine, no
\* timer that has fired, no cancelled context.
MainListens == main # "loop" => ~tick /\ ~cancelled /\ \A g \in Lists : list[g] = "none"

\* Any number of list goroutines send only while main receives: main has reached the
\* loop before the first of them starts, and no signal and no error of the metrics
\* server makes it leave.
THEOREM ListsWhileMainReceives == Spec => []MainListens
<1>1. Init => MainListens
  BY DEF Init, MainListens
<1>2. TypeOK /\ MainListens /\ [Next]_vars => MainListens'
  <2> SUFFICES ASSUME TypeOK, MainListens, [Next]_vars PROVE MainListens'
    OBVIOUS
  <2> USE DEF MainListens
  <2>1. CASE ReadEnv \/ clientSet \/ registerCounter
    <3>1. main # "loop" /\ UNCHANGED <<tick, cancelled, list>>
      BY <2>1 DEF ReadEnv, clientSet, registerCounter, GoTo
    <3> QED BY <3>1
  <2>2. CASE startHTTPServer \/ TimerFires \/ ReceiveExit
    <3>1. main' = "loop"
      BY <2>2 DEF startHTTPServer, TimerFires, ReceiveExit, mainVars
    <3> QED BY <3>1
  <2>3. CASE ServerFails \/ Signal \/ UNCHANGED vars
    BY <2>3 DEF ServerFails, Signal, vars, env, mainVars
  <2>4. CASE StartList \/ ContextDone
    <3>1. main = "loop" /\ main' = main
      BY <2>4 DEF StartList, ContextDone, mainVars
    <3> QED BY <3>1
  <2>5. ASSUME NEW g \in Lists, ListReturns(g) \/ Receive(g) PROVE MainListens'
    <3>1. list[g] # "none" /\ main' = main
      BY <2>5 DEF ListReturns, Receive, mainVars
    <3> QED BY <3>1
  <2> QED BY <2>1, <2>2, <2>3, <2>4, <2>5 DEF Next
<1> QED BY <1>1, <1>2, TypeCorrect, PTL DEF Spec

=============================================================================
