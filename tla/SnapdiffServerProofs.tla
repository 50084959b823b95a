------------------------ MODULE SnapdiffServerProofs ------------------------
(***************************************************************************)
(* Proofs about SnapdiffServer, for any number of clients: that the pages  *)
(* of the storage add up, whoever lists them and however often a list is   *)
(* interrupted, and the order of the server's start-up.                    *)
(***************************************************************************)
EXTENDS SnapdiffServer, FiniteSetTheorems, TLAPS

\* Where client c is in its list: before the first page, or after one of the three.
FirstPages(n) == [i \in 1 .. n |-> i - 1]

Position(c) ==
    \/ got[c] = <<>> /\ token[c] \in {NoToken, "token-00"}
    \/ got[c] = FirstPages(3) /\ token[c] = "token-01" /\ remaining[c] = 6
    \/ got[c] = FirstPages(6) /\ token[c] = "token-02" /\ remaining[c] = 3
    \/ got[c] = FirstPages(9) /\ token[c] = NoToken /\ remaining[c] = 0 /\ listing[c] # "list"

\* The plugin's informer has not made a request before the hook has run.
ReflectorWaits == ~hooked => listing[Reflector] = "no" /\ got[Reflector] = <<>>
                                                       /\ token[Reflector] = NoToken

\* The steps of the start-up that an enabled plugin has behind it.
StartUp ==
    /\ phase \notin {"new", "fatal"} => registered
    /\ enabled /\ phase \in {"configured", "installed", "serving"} => lister /\ requested

\* The inductive invariant.
IInv ==
    /\ TypeOK
    /\ \A c \in Clients : Position(c)
    /\ ReflectorWaits /\ StartUp
    /\ SyncedIsComplete /\ GetAgreesWithList /\ PluginInformerStarted

-----------------------------------------------------------------------------
(* The storage *)

LEMMA Mocks ==
    /\ mocks["token-00"] = <<0, 1, 2>>
    /\ mocks["token-01"] = <<3, 4, 5>>
    /\ mocks["token-02"] = <<6, 7, 8>>
    /\ DOMAIN mocks = {"token-00", "token-01", "token-02"}
BY DEF mocks

LEMMA NoTokenDiffers == NoToken \notin {"token-00", "token-01", "token-02"}
BY Zenon DEF NoToken

LEMMA FirstTokens == {NoToken, "token-00"} \subseteq Tokens
BY Mocks DEF Tokens

LEMMA ListPages ==
    /\ \A t \in {NoToken, "token-00"} : List(t) = Page("token-00", 6, "token-01")
    /\ List("token-01") = Page("token-01", 3, "token-02")
    /\ List("token-02") = Page("token-02", 0, NoToken)
BY NoTokenDiffers DEF List

LEMMA ListType ==
    ASSUME NEW t
    PROVE  /\ List(t).items \in Seq(Blocks) /\ List(t).remaining \in Nat
           /\ List(t).continue \in Tokens
<1>1. \A t0 \in DOMAIN mocks : mocks[t0] \in Seq(Blocks)
  <2>1. <<0, 1, 2>> \in Seq(0 .. 8) /\ <<3, 4, 5>> \in Seq(0 .. 8) /\ <<6, 7, 8>> \in Seq(0 .. 8)
    OBVIOUS
  <2> QED BY <2>1, Mocks DEF Blocks
<1>2. \A t0 \in DOMAIN mocks, n \in Nat, next \in Tokens :
        /\ Page(t0, n, next).items \in Seq(Blocks) /\ Page(t0, n, next).remaining \in Nat
        /\ Page(t0, n, next).continue \in Tokens
  BY <1>1 DEF Page
<1>3. \E t0 \in DOMAIN mocks, n \in Nat, next \in Tokens : List(t) = Page(t0, n, next)
  BY Mocks DEF List, Tokens
<1> QED BY <1>2, <1>3

\* The pages put together.
LEMMA AddedUp ==
    /\ <<>> \o mocks["token-00"] = FirstPages(3)
    /\ FirstPages(3) \o mocks["token-01"] = FirstPages(6)
    /\ FirstPages(6) \o mocks["token-02"] = FirstPages(9)
<1>1. <<>> \o <<0, 1, 2>> = FirstPages(3)
  BY DEF FirstPages
<1>2. FirstPages(3) \o <<3, 4, 5>> = FirstPages(6)
  BY DEF FirstPages
<1>3. FirstPages(6) \o <<6, 7, 8>> = FirstPages(9)
  BY DEF FirstPages
<1> QED BY <1>1, <1>2, <1>3, Mocks

\* A get finds what is there, and an object without a name for what is not.
LEMMA GetFinds ==
    ASSUME NEW name \in Names
    PROVE  Get(name) = IF name \in Blocks THEN name ELSE Unknown
BY Mocks DEF Get, Names, Blocks, Unknown

LEMMA SeqElements ==
    ASSUME NEW S, NEW s \in Seq(S)
    PROVE  {s[i] : i \in DOMAIN s} \subseteq S
OBVIOUS

LEMMA NineBlocks == Cardinality(Blocks) = 9
<1>1. \A a, b \in Int : Cardinality(a .. b) = IF a > b THEN 0 ELSE b - a + 1
  BY FS_Interval
<1>2. 0 \in Int /\ 8 \in Int
  OBVIOUS
<1>3. Cardinality(0 .. 8) = IF 0 > 8 THEN 0 ELSE 8 - 0 + 1
  BY <1>1, <1>2, Zenon
<1> QED BY <1>3 DEF Blocks

-----------------------------------------------------------------------------
LEMMA InitIInv == ASSUME Init PROVE IInv
<1>1. TypeOK
  <2>1. NoToken \in Tokens /\ <<>> \in Seq(Blocks)
    BY DEF Tokens
  <2>2. answer \in [name : Names, block : Names, found : SUBSET Blocks]
    BY DEF Init, NoAnswer, Names
  <2> QED BY <2>1, <2>2 DEF Init, TypeOK, Phases
<1>2. \A c \in Clients : Position(c)
  BY DEF Init, Position
<1>3. ReflectorWaits /\ StartUp
  BY DEF Init, ReflectorWaits, StartUp, Clients
<1>4. SyncedIsComplete /\ GetAgreesWithList /\ PluginInformerStarted
  BY DEF Init, SyncedIsComplete, GetAgreesWithList, PluginInformerStarted, NoAnswer
<1> QED BY <1>1, <1>2, <1>3, <1>4 DEF IInv

-----------------------------------------------------------------------------
(* Type correctness *)

LEMMA TypeStep == ASSUME TypeOK, Next PROVE TypeOK'
<1> USE DEF startVars, clientVars, cacheVars, Phases
<1>1. CASE Signal \/ Complete \/ Validate \/ New \/ Run \/ Shutdown
  BY <1>1 DEF Signal, Complete, Validate, New, Run, Shutdown, Fails, TypeOK
<1>2. CASE RecommendedConfig
  <2>1. ASSUME Fails("validated") PROVE TypeOK'
    BY <2>1 DEF Fails, TypeOK
  <2>2. ASSUME Initialize
        PROVE  requested' \in {TRUE, requested} /\ lister' \in {TRUE, lister}
    BY <2>2 DEF Initialize, SetStorageInformerFactory, Informer, InformerFor
  <2> QED BY <1>2, <2>1, <2>2 DEF RecommendedConfig, NewSharedInformerFactory, TypeOK
<1>3. CASE PostStartHook
  BY <1>3 DEF PostStartHook, StartFactory, TypeOK, Clients
<1>4. CASE ReflectorStops
  BY <1>4 DEF ReflectorStops, TypeOK, Clients
<1>5. ASSUME NEW c \in Clients, StartListing(c) \/ ListFails(c) \/ WatchEnds(c)
      PROVE  TypeOK'
  <2>1. PICK t \in {NoToken, "token-00"} : FromTheStart(c, t)
    BY <1>5 DEF StartListing, ListFails, WatchEnds
  <2>2. t \in Tokens
    BY FirstTokens
  <2>3. <<>> \in Seq(Blocks)
    OBVIOUS
  <2>4. token' \in [Clients -> Tokens] /\ got' \in [Clients -> Seq(Blocks)]
    BY <2>1, <2>2, <2>3 DEF FromTheStart, TypeOK
  <2> QED BY <1>5, <2>4 DEF StartListing, ListFails, WatchEnds, TypeOK
<1>6. ASSUME NEW c \in Clients, ListRequest(c) PROVE TypeOK'
  <2> DEFINE page  == List(token[c])
             all   == got[c] \o page.items
             store == {all[i] : i \in DOMAIN all}
  <2>1. page.items \in Seq(Blocks) /\ page.remaining \in Nat /\ page.continue \in Tokens
    BY ListType
  <2>2. all \in Seq(Blocks)
    BY <2>1 DEF TypeOK
  <2> HIDE DEF page, all
  <2>3. store \subseteq Blocks
    BY <2>2, SeqElements
  <2> HIDE DEF store
  <2>4. /\ token' = [token EXCEPT ![c] = page.continue] /\ got' = [got EXCEPT ![c] = all]
        /\ remaining' = [remaining EXCEPT ![c] = page.remaining]
        /\ \/ listing' = [listing EXCEPT ![c] = "list"]
           \/ listing' = [listing EXCEPT ![c] = "watch"]
        /\ cache' \in {cache, [cache EXCEPT ![c] = store]}
        /\ synced' \in {synced, [synced EXCEPT ![c] = TRUE]}
        /\ UNCHANGED <<stop, startVars, refused, answer>>
    BY <1>6 DEF ListRequest, page, all, store
  <2> QED BY <2>1, <2>2, <2>3, <2>4 DEF TypeOK
<1>7. ASSUME NEW c \in Clients, NEW verb, NotRouted(c, verb) PROVE TypeOK'
  BY <1>7 DEF NotRouted, TypeOK
<1>8. ASSUME NEW c \in Clients, GetRequest(c) PROVE TypeOK'
  <2>1. PICK name \in Names :
          answer' = [name |-> name, block |-> Get(name), found |-> cache[c]]
    BY <1>8 DEF GetRequest
  <2>2. Get(name) \in Names
    BY GetFinds DEF Names
  <2> QED BY <1>8, <2>1, <2>2 DEF GetRequest, TypeOK
<1> QED BY <1>1, <1>2, <1>3, <1>4, <1>5, <1>6, <1>7, <1>8 DEF Next, MainStep, ClientStep

-----------------------------------------------------------------------------
(* The pages *)

\* The steps that leave the lists alone.
Elsewhere == Signal \/ MainStep \/ \E c \in Clients :
                GetRequest(c) \/ \E verb \in {"list", "create"} : NotRouted(c, verb)

LEMMA ElsewhereKeeps ==
    ASSUME Elsewhere
    PROVE  UNCHANGED <<clientVars, cache, synced, hooked>>
BY DEF Elsewhere, Signal, MainStep, Complete, Validate, RecommendedConfig, New, Run,
   Shutdown, Fails, GetRequest, NotRouted, clientVars, cacheVars, startVars

LEMMA ElsewhereOrList ==
    ASSUME Next
    PROVE  \/ Elsewhere \/ PostStartHook \/ ReflectorStops
           \/ \E c \in Clients : \/ StartListing(c) \/ ListFails(c) \/ WatchEnds(c)
                                \/ ListRequest(c)
BY DEF Next, ClientStep, Elsewhere

\* One request takes a client from one position to the next.
LEMMA RequestMoves ==
    ASSUME TypeOK, NEW c \in Clients, Position(c), ListRequest(c)
    PROVE  /\ Position(c)'
           /\ got'[c] = got[c] \o List(token[c]).items
           /\ List(token[c]).continue = NoToken => got'[c] = FirstPages(9)
<1>1. /\ token'[c] = List(token[c]).continue
      /\ got'[c] = got[c] \o List(token[c]).items
      /\ remaining'[c] = List(token[c]).remaining
      /\ listing'[c] = IF List(token[c]).continue = NoToken THEN "watch" ELSE "list"
      /\ listing[c] = "list"
  BY DEF ListRequest, TypeOK
<1>2. CASE got[c] = <<>> /\ token[c] \in {NoToken, "token-00"}
  <2>1. /\ List(token[c]).items = mocks["token-00"] /\ List(token[c]).remaining = 6
        /\ List(token[c]).continue = "token-01"
    BY <1>2, ListPages DEF Page
  <2>2. got'[c] = FirstPages(3)
    BY <1>1, <1>2, <2>1, AddedUp
  <2> QED BY <1>1, <2>1, <2>2, NoTokenDiffers DEF Position
<1>3. CASE got[c] = FirstPages(3) /\ token[c] = "token-01"
  <2>1. /\ List(token[c]).items = mocks["token-01"] /\ List(token[c]).remaining = 3
        /\ List(token[c]).continue = "token-02"
    BY <1>3, ListPages DEF Page
  <2>2. got'[c] = FirstPages(6)
    BY <1>1, <1>3, <2>1, AddedUp
  <2> QED BY <1>1, <2>1, <2>2, NoTokenDiffers DEF Position
<1>4. CASE got[c] = FirstPages(6) /\ token[c] = "token-02"
  <2>1. /\ List(token[c]).items = mocks["token-02"] /\ List(token[c]).remaining = 0
        /\ List(token[c]).continue = NoToken
    BY <1>4, ListPages DEF Page
  <2>2. got'[c] = FirstPages(9)
    BY <1>1, <1>4, <2>1, AddedUp
  <2> QED BY <1>1, <2>1, <2>2, NoTokenDiffers DEF Position
<1> QED BY <1>1, <1>2, <1>3, <1>4 DEF Position

LEMMA PositionStep ==
    ASSUME TypeOK, \A c \in Clients : Position(c), ReflectorWaits, Next
    PROVE  \A c \in Clients : Position(c)'
<1> SUFFICES ASSUME NEW c \in Clients PROVE Position(c)'
  OBVIOUS
<1>1. Position(c)
  OBVIOUS
<1>2. CASE Elsewhere
  BY <1>1, <1>2, ElsewhereKeeps DEF Position, clientVars
<1>3. CASE PostStartHook
  BY <1>1, <1>3 DEF PostStartHook, StartFactory, ReflectorWaits, Position, TypeOK
<1>4. CASE ReflectorStops
  BY <1>1, <1>4 DEF ReflectorStops, Position, TypeOK
<1>5. ASSUME NEW d \in Clients, StartListing(d) \/ ListFails(d) \/ WatchEnds(d)
      PROVE  Position(c)'
  <2>1. CASE c = d
    <3>1. got'[c] = <<>> /\ token'[c] \in {NoToken, "token-00"}
      BY <1>5, <2>1 DEF StartListing, ListFails, WatchEnds, FromTheStart, TypeOK
    <3> QED BY <3>1 DEF Position
  <2>2. CASE c # d
    <3>1. got'[c] = got[c] /\ token'[c] = token[c] /\ listing'[c] = listing[c]
      BY <1>5, <2>2 DEF StartListing, ListFails, WatchEnds, FromTheStart, TypeOK
    <3>2. remaining' = remaining
      BY <1>5 DEF StartListing, ListFails, WatchEnds
    <3> QED BY <1>1, <3>1, <3>2 DEF Position
  <2> QED BY <2>1, <2>2
<1>6. ASSUME NEW d \in Clients, ListRequest(d) PROVE Position(c)'
  <2>1. CASE c = d
    BY <1>1, <1>6, <2>1, RequestMoves
  <2>2. CASE c # d
    BY <1>1, <1>6, <2>2 DEF ListRequest, Position, TypeOK
  <2> QED BY <2>1, <2>2
<1> QED BY <1>2, <1>3, <1>4, <1>5, <1>6, ElsewhereOrList

LEMMA WaitsStep ==
    ASSUME TypeOK, ReflectorWaits, Next
    PROVE  ReflectorWaits'
<1> USE DEF ReflectorWaits
<1>0. Reflector \in Clients
  BY DEF Clients
<1>1. CASE Elsewhere
  BY <1>1, ElsewhereKeeps DEF clientVars
<1>2. CASE PostStartHook
  BY <1>2 DEF PostStartHook
<1>3. CASE ReflectorStops
  BY <1>0, <1>3 DEF ReflectorStops, startVars, TypeOK
<1>4. ASSUME NEW d \in Clients, StartListing(d) \/ ListFails(d) \/ WatchEnds(d)
      PROVE  ReflectorWaits'
  BY <1>0, <1>4 DEF StartListing, ListFails, WatchEnds, FromTheStart, startVars, TypeOK
<1>5. ASSUME NEW d \in Clients, ListRequest(d) PROVE ReflectorWaits'
  BY <1>0, <1>5 DEF ListRequest, startVars, TypeOK
<1> QED BY <1>1, <1>2, <1>3, <1>4, <1>5, ElsewhereOrList

LEMMA SyncedStep ==
    ASSUME TypeOK, \A c \in Clients : Position(c), SyncedIsComplete, Next
    PROVE  SyncedIsComplete'
<1> USE DEF SyncedIsComplete
<1>1. CASE Elsewhere
  BY <1>1, ElsewhereKeeps
<1>2. CASE PostStartHook \/ ReflectorStops
  BY <1>2 DEF PostStartHook, ReflectorStops, cacheVars
<1>3. ASSUME NEW d \in Clients, StartListing(d) \/ ListFails(d) \/ WatchEnds(d)
      PROVE  SyncedIsComplete'
  BY <1>3 DEF StartListing, ListFails, WatchEnds, cacheVars
<1>4. ASSUME NEW d \in Clients, ListRequest(d) PROVE SyncedIsComplete'
  <2> DEFINE all == got[d] \o List(token[d]).items
  <2>1. CASE List(token[d]).continue # NoToken
    BY <1>4, <2>1 DEF ListRequest
  <2>2. CASE List(token[d]).continue = NoToken
    <3>1. all = FirstPages(9)
      BY <1>4, <2>2, RequestMoves
    <3>2. {all[i] : i \in DOMAIN all} = Blocks
      <4> HIDE DEF all
      <4> QED BY <3>1 DEF FirstPages, Blocks
    <3>3. cache' = [cache EXCEPT ![d] = {all[i] : i \in DOMAIN all}]
          /\ synced' = [synced EXCEPT ![d] = TRUE]
      BY <1>4, <2>2 DEF ListRequest
    <3> HIDE DEF all
    <3> QED BY <3>2, <3>3 DEF TypeOK
  <2> QED BY <2>1, <2>2
<1> QED BY <1>1, <1>2, <1>3, <1>4, ElsewhereOrList

\* The answer is from the storage, and so is what the client has found there.
LEMMA AnswerStep ==
    ASSUME TypeOK, GetAgreesWithList, Next
    PROVE  GetAgreesWithList'
<1>1. ASSUME NEW c \in Clients, GetRequest(c) PROVE GetAgreesWithList'
  <2>1. PICK name \in Names :
          answer' = [name |-> name, block |-> Get(name), found |-> cache[c]]
    BY <1>1 DEF GetRequest
  <2>2. cache[c] \subseteq Blocks
    BY DEF TypeOK
  <2>3. Get(name) = IF name \in Blocks THEN name ELSE Unknown
    BY GetFinds
  <2> QED BY <2>1, <2>2, <2>3 DEF GetAgreesWithList
<1>2. CASE answer' = answer
  BY <1>2 DEF GetAgreesWithList
<1>3. answer' = answer \/ \E c \in Clients : GetRequest(c)
  BY DEF Next, MainStep, ClientStep, Signal, Complete, Validate, RecommendedConfig, New,
     Run, Shutdown, Fails, PostStartHook, ReflectorStops, StartListing, ListRequest,
     ListFails, WatchEnds, NotRouted
<1> QED BY <1>1, <1>2, <1>3

-----------------------------------------------------------------------------
(* The start-up *)

LEMMA ClientsKeep ==
    ASSUME \/ Signal \/ ReflectorStops \/ \E c \in Clients : ClientStep(c)
    PROVE  UNCHANGED startVars
BY DEF Signal, ReflectorStops, ClientStep, StartListing, ListRequest, ListFails, WatchEnds,
   GetRequest, NotRouted

LEMMA StartUpStep == ASSUME TypeOK, StartUp, Next PROVE StartUp'
<1> USE DEF StartUp
<1>1. CASE Complete \/ Validate
  BY <1>1 DEF Complete, Validate, Fails
<1>2. CASE RecommendedConfig
  BY <1>2 DEF RecommendedConfig, Fails, Initialize, SetStorageInformerFactory, Informer,
     InformerFor
<1>3. CASE New \/ Run \/ Shutdown
  BY <1>3 DEF New, Run, Shutdown, Fails
<1>4. CASE PostStartHook
  BY <1>4 DEF PostStartHook
<1>5. CASE \/ Signal \/ ReflectorStops \/ \E c \in Clients : ClientStep(c)
  BY <1>5, ClientsKeep DEF startVars
<1> QED BY <1>1, <1>2, <1>3, <1>4, <1>5 DEF Next, MainStep

\* Nobody but the closed stopCh ends the plugin's informer.
LEMMA PluginStep ==
    ASSUME TypeOK, StartUp, PluginInformerStarted, Next
    PROVE  PluginInformerStarted'
<1> USE DEF PluginInformerStarted
<1>0. Reflector \in Clients
  BY DEF Clients
<1>1. CASE Signal \/ Complete \/ Validate \/ New \/ Run \/ Shutdown
  BY <1>1 DEF Signal, Complete, Validate, New, Run, Shutdown, Fails, startVars, clientVars
<1>2. CASE RecommendedConfig
  <2>1. lister => lister'
    BY <1>2 DEF RecommendedConfig, Fails, Initialize, SetStorageInformerFactory
  <2> QED BY <1>2, <2>1 DEF RecommendedConfig, Fails, clientVars
<1>3. CASE PostStartHook
  BY <1>0, <1>3 DEF PostStartHook, StartFactory, StartUp, TypeOK
<1>4. CASE ReflectorStops
  BY <1>4 DEF ReflectorStops
<1>5. ASSUME NEW c \in Clients, ClientStep(c) PROVE PluginInformerStarted'
  <2>1. UNCHANGED startVars
    BY <1>5, ClientsKeep
  <2>2. stop' = stop
    BY <1>5 DEF ClientStep, StartListing, ListRequest, ListFails, WatchEnds, GetRequest,
       NotRouted
  <2>3. listing[Reflector] # "no" => listing'[Reflector] # "no"
    BY <1>0, <1>5 DEF ClientStep, StartListing, ListRequest, ListFails, WatchEnds,
       GetRequest, NotRouted, clientVars, TypeOK
  <2> QED BY <2>1, <2>2, <2>3 DEF startVars
<1> QED BY <1>1, <1>2, <1>3, <1>4, <1>5 DEF Next, MainStep

-----------------------------------------------------------------------------
(* The theorems *)

LEMMA StepIInv == ASSUME IInv, [Next]_vars PROVE IInv'
<1>1. CASE Next
  BY <1>1, TypeStep, PositionStep, WaitsStep, StartUpStep, SyncedStep, AnswerStep,
     PluginStep DEF IInv
<1>2. CASE UNCHANGED vars
  <2>1. UNCHANGED <<stop, startVars, clientVars, cacheVars, answer>>
    BY <1>2 DEF vars
  <2>2. \A c \in Clients : Position(c)'
    BY <2>1 DEF IInv, Position, clientVars
  <2>3. TypeOK'
    BY <2>1 DEF IInv, TypeOK, startVars, clientVars, cacheVars
  <2> QED BY <2>1, <2>2, <2>3 DEF startVars, clientVars, cacheVars, IInv, ReflectorWaits,
          StartUp, SyncedIsComplete, GetAgreesWithList, PluginInformerStarted
<1> QED BY <1>1, <1>2

\* The inductive invariant holds in every reachable state.
THEOREM Invariance == Spec => []IInv
<1>1. Init => IInv
  BY InitIInv
<1>2. IInv /\ [Next]_vars => IInv'
  BY StepIInv
<1> QED BY <1>1, <1>2, PTL DEF Spec

\* Every reachable state is well typed: the server hands out no token that it does not
\* know, and a client never holds anything but blocks.
THEOREM TypeCorrect == Spec => []TypeOK
BY Invariance, PTL DEF IInv

\* What every client has received is an initial segment of the storage, and what its
\* last page said is left is what is left.
PagesAddUp ==
    \A c \in Clients : got[c] # <<>> =>
        /\ \A i \in 1 .. Len(got[c]) : got[c][i] = i - 1
        /\ Len(got[c]) + remaining[c] = Cardinality(Blocks)

\* For any number of clients, however their lists interleave, fail and start over: what
\* a client has received is an initial segment of the storage, and the remaining count
\* of its last page is right.
THEOREM Paging == Spec => []PagesAddUp
<1>1. IInv => PagesAddUp
  <2> SUFFICES ASSUME IInv, NEW c \in Clients, got[c] # <<>>
               PROVE  /\ \A i \in 1 .. Len(got[c]) : got[c][i] = i - 1
                      /\ Len(got[c]) + remaining[c] = Cardinality(Blocks)
    BY DEF PagesAddUp
  <2>1. PICK n \in {3, 6, 9} : got[c] = FirstPages(n) /\ remaining[c] = 9 - n
    BY DEF IInv, Position
  <2>2. Len(FirstPages(n)) = n /\ \A i \in 1 .. n : FirstPages(n)[i] = i - 1
    BY DEF FirstPages
  <2> QED BY <2>1, <2>2, NineBlocks
<1> QED BY <1>1, Invariance, PTL

\* An informer that has synced has every block.
THEOREM CompleteCaches == Spec => []SyncedIsComplete
BY Invariance, PTL DEF IInv

\* A get finds what a list has shown, on whichever of the pages it was.
THEOREM GetsWhatIsListed == Spec => []GetAgreesWithList
BY Invariance, PTL DEF IInv

\* The plugin has asked for its informer before the hook starts the factory, whichever
\* steps of the start-up fail, and whenever the signal arrives.
THEOREM InformerBeforeHook == Spec => []PluginInformerStarted
BY Invariance, PTL DEF IInv

-----------------------------------------------------------------------------
(* The abstract specification of paging *)

LEMMA StoredBlocks ==
    /\ InOrder = FirstPages(9) /\ Len(InOrder) = 9
    /\ Len(FirstPages(3)) = 3 /\ Pager!Prefix(3) = FirstPages(3)
    /\ Len(FirstPages(6)) = 6 /\ Pager!Prefix(6) = FirstPages(6)
    /\ Len(<<>>) = 0
<1>1. InOrder = FirstPages(9)
  BY NineBlocks, Zenon DEF InOrder, FirstPages
<1>2. /\ Len(FirstPages(9)) = 9 /\ Len(FirstPages(6)) = 6 /\ Len(FirstPages(3)) = 3
      /\ Len(<<>>) = 0
  BY DEF FirstPages
<1>3. Pager!Prefix(3) = FirstPages(3)
  BY <1>1 DEF FirstPages, Pager!Prefix
<1>4. Pager!Prefix(6) = FirstPages(6)
  BY <1>1 DEF FirstPages, Pager!Prefix
<1> QED BY <1>1, <1>2, <1>3, <1>4

\* What one request does to the list of c, seen from the position of c.
LEMMA RequestPages ==
    ASSUME TypeOK, NEW c \in Clients, Position(c), ListRequest(c)
    PROVE  \/ Pager!NextPage(c, 3) \/ Pager!NextPage(c, 6)
           \/ Pager!LastPage(c)
<1> DEFINE page == List(token[c])
           all  == got[c] \o page.items
<1>1. /\ listing[c] = "list"
      /\ got' = [got EXCEPT ![c] = all]
      /\ remaining' = [remaining EXCEPT ![c] = page.remaining]
      /\ IF page.continue = NoToken
            THEN /\ cache' = [cache EXCEPT ![c] = {all[i] : i \in DOMAIN all}]
                 /\ synced' = [synced EXCEPT ![c] = TRUE]
            ELSE UNCHANGED <<cache, synced>>
  BY DEF ListRequest
<1>2. CASE got[c] = <<>> /\ token[c] \in {NoToken, "token-00"}
  <2>1. all = FirstPages(3) /\ page.remaining = 6 /\ page.continue = "token-01"
    BY <1>2, ListPages, AddedUp DEF Page
  <2> HIDE DEF all, page
  <2>2. /\ Len(got[c]) < 3 /\ 3 < Len(InOrder) /\ Len(InOrder) - 3 = 6
        /\ Pager!Prefix(3) = FirstPages(3)
    <3>1. Len(got[c]) = 0 /\ Len(InOrder) = 9 /\ Pager!Prefix(3) = FirstPages(3)
      BY <1>2, StoredBlocks, Zenon
    <3> QED BY <3>1
  <2>3. UNCHANGED <<cache, synced>>
    BY <1>1, <2>1, NoTokenDiffers
  <2>4. Pager!NextPage(c, 3)
    BY <1>1, <2>1, <2>2, <2>3 DEF Pager!NextPage
  <2> QED BY <2>4
<1>3. CASE got[c] = FirstPages(3) /\ token[c] = "token-01"
  <2>1. all = FirstPages(6) /\ page.remaining = 3 /\ page.continue = "token-02"
    BY <1>3, ListPages, AddedUp DEF Page
  <2> HIDE DEF all, page
  <2>2. /\ Len(got[c]) < 6 /\ 6 < Len(InOrder) /\ Len(InOrder) - 6 = 3
        /\ Pager!Prefix(6) = FirstPages(6)
    <3>1. Len(got[c]) = 3 /\ Len(InOrder) = 9 /\ Pager!Prefix(6) = FirstPages(6)
      BY <1>3, StoredBlocks, Zenon
    <3> QED BY <3>1
  <2>3. UNCHANGED <<cache, synced>>
    BY <1>1, <2>1, NoTokenDiffers
  <2>4. Pager!NextPage(c, 6)
    BY <1>1, <2>1, <2>2, <2>3 DEF Pager!NextPage
  <2> QED BY <2>4
<1>4. CASE got[c] = FirstPages(6) /\ token[c] = "token-02"
  <2>1. all = InOrder /\ page.remaining = 0 /\ page.continue = NoToken
    <3>1. InOrder = FirstPages(9)
      BY StoredBlocks, Zenon
    <3>2. all = FirstPages(9) /\ page.remaining = 0 /\ page.continue = NoToken
      BY <1>4, ListPages, AddedUp DEF Page
    <3> HIDE DEF all, page
    <3> QED BY <3>1, <3>2, Zenon
  <2> HIDE DEF all, page
  <2>2. Len(got[c]) < Len(InOrder)
    <3>1. Len(got[c]) = 6 /\ Len(InOrder) = 9
      BY <1>4, StoredBlocks, Zenon
    <3> QED BY <3>1
  <2>3. DOMAIN all = 1 .. Len(InOrder)
    BY <2>1, StoredBlocks DEF FirstPages
  <2>4. {all[i] : i \in DOMAIN all} = {InOrder[i] : i \in 1 .. Len(InOrder)}
    BY <2>1, <2>3
  <2>5. Pager!LastPage(c)
    BY <1>1, <2>1, <2>2, <2>4 DEF Pager!LastPage
  <2> QED BY <2>5
<1> QED BY <1>1, <1>2, <1>3, <1>4 DEF Position

\* Every step is a step of Pager by one client, or leaves the lists alone.
LEMMA PagerStep ==
    ASSUME IInv, [Next]_vars
    PROVE  Pager!Next \/ UNCHANGED <<got, remaining, cache, synced>>
<1>1. CASE Elsewhere
  BY <1>1, ElsewhereKeeps DEF clientVars
<1>2. CASE PostStartHook \/ ReflectorStops \/ UNCHANGED vars
  BY <1>2 DEF PostStartHook, ReflectorStops, cacheVars, clientVars, vars
<1>3. ASSUME NEW c \in Clients, StartListing(c) \/ ListFails(c) \/ WatchEnds(c)
      PROVE  Pager!Restart(c)
  BY <1>3 DEF StartListing, ListFails, WatchEnds, FromTheStart, cacheVars, Pager!Restart
<1>4. ASSUME NEW c \in Clients, ListRequest(c)
      PROVE  Pager!Next
  <2>1. Pager!NextPage(c, 3) \/ Pager!NextPage(c, 6) \/ Pager!LastPage(c)
    BY <1>4, RequestPages DEF IInv
  <2>2. 3 \in 1 .. Len(InOrder) /\ 6 \in 1 .. Len(InOrder)
    <3>1. Len(InOrder) = 9
      BY StoredBlocks, Zenon
    <3> QED BY <3>1
  <2> QED BY <2>1, <2>2 DEF Pager!Next
<1>5. ASSUME NEW c \in Clients, Pager!Restart(c) PROVE Pager!Next
  BY <1>5 DEF Pager!Next
<1> QED BY <1>1, <1>2, <1>3, <1>4, <1>5, ElsewhereOrList

\* For any number of clients the server implements Pager: whatever is lost, repeated
\* or interleaved, every page brings its client on by what follows, tells it how much
\* is left, and only the last one completes its list.
THEOREM Implements == Spec => PagerSpec
<1>1. Init => Pager!Init
  BY DEF Init, Pager!Init
<1>2. IInv /\ [Next]_vars => [Pager!Next]_<<got, remaining, cache, synced>>
  BY PagerStep
<1> QED BY <1>1, <1>2, Invariance, PTL DEF Spec, PagerSpec, Pager!Spec, Pager!vars

-----------------------------------------------------------------------------
(* The plugin's informer *)

\* Nothing reaches the informer of the plugin: it has no block and has not synced.
PluginUninformed == ~synced[Reflector] /\ cache[Reflector] = {}

\* The name under which the reflector asks is not the one that is installed.
LEMMA ReflectorNotRouted == ~ListRequest(Reflector)
<1>1. "changedblocks" # "changedBlocks"
  OBVIOUS
<1> QED BY <1>1 DEF ListRequest, Routed, Resource, Installed

\* Whatever the clients, the flags and the failures, the informer of the admission
\* plugin never receives a block and never syncs: this does not depend on any
\* scheduling, as no request of it is ever routed to the storage.
THEOREM PluginNeverReady == Spec => []PluginUninformed
<1>0. Reflector \in Clients
  BY DEF Clients
<1>1. Init => PluginUninformed
  BY <1>0 DEF Init, PluginUninformed
<1>2. TypeOK /\ PluginUninformed /\ [Next]_vars => PluginUninformed'
  <2> SUFFICES ASSUME TypeOK, PluginUninformed, [Next]_vars PROVE PluginUninformed'
    OBVIOUS
  <2> USE DEF PluginUninformed
  <2>1. CASE Elsewhere
    BY <2>1, ElsewhereKeeps
  <2>2. CASE PostStartHook \/ ReflectorStops \/ UNCHANGED vars
    BY <2>2 DEF PostStartHook, ReflectorStops, cacheVars, vars
  <2>3. ASSUME NEW c \in Clients, StartListing(c) \/ ListFails(c) \/ WatchEnds(c)
        PROVE  PluginUninformed'
    BY <2>3 DEF StartListing, ListFails, WatchEnds, cacheVars
  <2>4. ASSUME NEW c \in Clients, ListRequest(c) PROVE PluginUninformed'
    <3>1. c # Reflector
      BY <2>4, ReflectorNotRouted
    <3>2. synced'[Reflector] = synced[Reflector] /\ cache'[Reflector] = cache[Reflector]
      BY <1>0, <2>4, <3>1 DEF ListRequest, TypeOK
    <3> QED BY <3>2
  <2> QED BY <2>1, <2>2, <2>3, <2>4, ElsewhereOrList
<1> QED BY <1>1, <1>2, TypeCorrect, PTL DEF Spec

=============================================================================
