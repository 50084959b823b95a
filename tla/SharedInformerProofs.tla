------------------------ MODULE SharedInformerProofs ------------------------
(***************************************************************************)
(* Proofs about SharedInformer, for any number of versions and of lookups: *)
(* nothing that is cached is ever written to, so the informer is a lagging *)
(* cache, and all goroutines share one informer.                           *)
(***************************************************************************)
EXTENDS SharedInformer, TLAPS

\* A factory creates one informer, when it is first asked for it.
OneCreated ==
    /\ factory.informer \in {0, 1} /\ factory.created = factory.informer
    /\ factory.running \in {0, factory.informer}
    /\ \A t \in Threads : looked[t] \in {0, factory.informer}

\* Nothing is looked up or announced before the factory is there.
BeforeStart ==
    /\ phase = "config" => factory = NewSharedInformerFactory
                           /\ looked = [t \in Threads |-> 0]
    /\ phase \in {"config", "new", "start"} => rpc = "off" /\ notes = <<>>

\* Each clientset is what NewForConfig makes of the config that main has kept.
MadeFromConfig ==
    /\ config = Config(kind)
    /\ DOMAIN clients = Clientsets
    /\ \A s \in Clientsets : clients[s] \in {Nil, NewForConfig(config, s, kind)}

\* The cache is behind, and nobody has written to it.
Behind == seen <= version /\ dirty = {}

\* The inductive invariant.
IInv == TypeOK /\ OneCreated /\ BeforeStart /\ MadeFromConfig /\ Behind

-----------------------------------------------------------------------------
(* Deep copies *)

LEMMA KindFields ==
    ASSUME NEW k \in Kinds
    PROVE  \/ k = "KubeletUpgrade" /\ Fields(k) = KubeletUpgradeFields
           \/ k = "Database" /\ Fields(k) = DatabaseFields
           \/ k = "StorageChangedBlock" /\ Fields(k) = StorageFields
           \/ k = "ChangedBlock" /\ Fields(k) = ChangedBlockFields
BY DEF Kinds, UpgradeTypes, AppTypes, StorageTypes, V1alpha1Types, Fields

\* A deep copy of an object of any type has no memory in common with the object.
LEMMA CopyOwns ==
    ASSUME NEW k \in Kinds, NEW o \in [Fields(k) -> Memory]
    PROVE  Copy(k, o) \in [Fields(k) -> {Nil, Own}]
<1>1. CASE k = "KubeletUpgrade" /\ Fields(k) = KubeletUpgradeFields
  BY <1>1 DEF Copy, KubeletUpgradeCopy, KubeletUpgradeStatusCopy, KubeletUpgradeSpecCopy,
     ObjectMetaCopy, Reallocate, KubeletUpgradeFields
<1>2. CASE k = "Database" /\ Fields(k) = DatabaseFields
  BY <1>2 DEF Copy, DatabaseCopy, DatabaseSpecCopy, ObjectMetaCopy, Reallocate,
     DatabaseFields
<1>3. CASE k = "StorageChangedBlock" /\ Fields(k) = StorageFields
  BY <1>3 DEF Copy, StorageCopy, StorageSpecCopy, ObjectMetaCopy, Reallocate, StorageFields
<1>4. CASE k = "ChangedBlock" /\ Fields(k) = ChangedBlockFields
  BY <1>4 DEF Copy, ChangedBlockCopy, ChangedBlockSpecCopy, ObjectMetaCopy, Reallocate,
     ChangedBlockFields
<1> QED BY <1>1, <1>2, <1>3, <1>4, KindFields

\* Nor has its copy as an item of a list.
LEMMA ListCopyOwns ==
    ASSUME NEW k \in Kinds, NEW o \in [Fields(k) -> Memory]
    PROVE  ListCopy(k, <<o>>)[1] = Copy(k, o)
<1>1. <<o>>[1] = o /\ 1 \in DOMAIN <<o>>
  OBVIOUS
<1> QED BY <1>1, KindFields DEF ListCopy, KubeletUpgradeListCopy, DatabaseListCopy,
        StorageListCopy, ChangedBlockListCopy, Copy

\* A write to such a copy reaches no cached object.
LEMMA WritesOwnMemory ==
    ASSUME NEW D, NEW o \in [D -> {Nil, Own}], NEW F \in SUBSET D
    PROVE  WrittenThrough(o, F) = {}
BY MemoryAssumption DEF WrittenThrough

-----------------------------------------------------------------------------
(* The factory *)

\* Every chain of accessors ends at the same factory.
LEMMA Chains ==
    ASSUME NEW k \in Kinds, NEW f
    PROVE  Informer(Chain(k, f)) = InformerFor(f)
BY DEF Kinds, UpgradeTypes, AppTypes, StorageTypes, V1alpha1Types, Chain, Informer,
   KubeletUpgrades, V1alpha1, Clusterop, Databases, AppV1alpha1, App, ChangedBlocks,
   StorageV1alpha1, Storage, InternalChangedBlocks, InternalVersion, InternalStorage

LEMMA KindType == ASSUME TypeOK PROVE kind \in Kinds
BY ClientsAssumption DEF TypeOK

\* The first call creates the informer, every later one finds it.
LEMMA LookUpFinds ==
    ASSUME TypeOK, OneCreated, factory.created < Lookups
    PROVE  LET f == InformerFor(factory) IN
           /\ f \in Factories /\ f.created <= Lookups
           /\ f.informer = 1 /\ f.created = 1 /\ f.running = factory.running
           /\ f.informer \in 0 .. Lookups
<1> DEFINE f == InformerFor(factory)
<1>1. factory \in Factories /\ factory.informer \in {0, 1}
      /\ factory.created = factory.informer /\ Lookups \in Nat
  BY BoundsAssumption DEF TypeOK, OneCreated
<1>2. CASE factory.informer = 0
  <2>1. f = [factory EXCEPT !.informer = 1, !.created = 1]
    BY <1>1, <1>2 DEF InformerFor, NewInformer, Factories
  <2> HIDE DEF f
  <2>2. /\ f \in Factories /\ f.informer = 1 /\ f.created = 1 /\ f.running = factory.running
    BY <1>1, <2>1 DEF Factories
  <2> QED BY <1>1, <1>2, <2>2 DEF f
<1>3. CASE factory.informer = 1
  <2>1. f = factory
    BY <1>3 DEF InformerFor
  <2> QED BY <1>1, <1>3, <2>1
<1> QED BY <1>1, <1>2, <1>3

\* The four things a step may do to the factory and to what was looked up.
FactoryStays == UNCHANGED <<factory, looked>>
FactoryMade  == phase = "config" /\ factory' = NewSharedInformerFactory /\ looked' = looked
Looks == /\ factory.created < Lookups /\ factory' = InformerFor(factory)
         /\ phase # "config"
         /\ \/ looked' = looked
            \/ \E t \in Threads : looked' = [looked EXCEPT ![t] = factory'.informer]
Starts == factory' = StartInformers(factory) /\ looked' = looked

\* An Add notification is not taken before the factory is there.
LEMMA FactoryStep ==
    ASSUME TypeOK, BeforeStart, Next
    PROVE  FactoryStays \/ FactoryMade \/ Looks \/ Starts
<1>k. kind \in Kinds
  BY KindType
<1> USE DEF FactoryStays, configVars, serverVars, cacheVars, factoryVars
<1>1. ASSUME NEW t \in Threads, LookUp(t), phase # "config" PROVE Looks
  BY <1>k, <1>1, Chains DEF LookUp, Looks
<1>2. ASSUME NEW s, NewClientset(s) PROVE FactoryStays
  BY <1>2 DEF NewClientset
<1>3. ClientsetFails \/ Create \/ Patch \/ Delete => FactoryStays
  BY DEF ClientsetFails, Create, Patch, Delete, Store
<1>4. NewFactory => FactoryMade
  BY DEF NewFactory, FactoryMade
<1>5. RegisterHandler \/ WaitForCacheSync \/ TickerLists \/ TickerGets => Looks
  BY <1>1 DEF RegisterHandler, WaitForCacheSync, TickerLists, TickerGets, Threads
<1>6. AddFunc => Looks
  BY <1>1 DEF AddFunc, Threads, BeforeStart
<1>7. Start => Starts
  BY DEF Start, Starts
<1>8. InformerStep => FactoryStays
  BY DEF InformerStep, ListFunc, WatchFunc, WatchExpires
<1>9. ASSUME NEW t \in Threads, UserStep(t) PROVE FactoryStays
  BY <1>9 DEF UserStep, Drop, SendNextTime, SendStarted, SendCompleted, ConvertCopy, UseCopy
<1>10. ASSUME NEW t \in Threads, LookUpGeneric(t) PROVE FactoryStays \/ Looks
  BY <1>k, <1>10, Chains DEF LookUpGeneric, ForResource, Looks
<1> QED BY <1>2, <1>3, <1>4, <1>5, <1>6, <1>7, <1>8, <1>9, <1>10 DEF Next

LEMMA OneCreatedStep ==
    ASSUME TypeOK, BeforeStart, OneCreated, Next
    PROVE  /\ OneCreated' /\ factory' \in Factories /\ factory'.created <= Lookups
           /\ looked' \in [Threads -> 0 .. Lookups]
<1>0. /\ factory \in Factories /\ factory.created <= Lookups /\ Lookups \in Nat
      /\ looked \in [Threads -> 0 .. Lookups]
  BY BoundsAssumption DEF TypeOK
<1>1. CASE FactoryStays
  BY <1>0, <1>1 DEF FactoryStays, OneCreated
<1>2. CASE FactoryMade
  <2>1. factory' = factory /\ looked' = looked
    BY <1>2 DEF FactoryMade, BeforeStart
  <2> QED BY <1>0, <2>1 DEF OneCreated
<1>3. CASE Looks
  <2>1. /\ factory' \in Factories /\ factory'.created <= Lookups
        /\ factory'.informer = 1 /\ factory'.created = 1
        /\ factory'.running = factory.running /\ 1 \in 0 .. Lookups
    BY <1>3, LookUpFinds DEF Looks
  <2>2. \A t \in Threads : looked'[t] \in {1, looked[t]}
    BY <1>0, <1>3, <2>1 DEF Looks
  <2>3. looked' \in [Threads -> 0 .. Lookups]
    BY <1>0, <1>3, <2>1 DEF Looks
  <2> QED BY <1>0, <2>1, <2>2, <2>3 DEF OneCreated
<1>4. CASE Starts
  <2>1. /\ factory' \in Factories /\ factory'.informer = factory.informer
        /\ factory'.created = factory.created /\ factory'.running = factory.informer
    BY <1>0, <1>4 DEF Starts, StartInformers, Factories
  <2> QED BY <1>0, <1>4, <2>1 DEF Starts, OneCreated
<1> QED BY <1>1, <1>2, <1>3, <1>4, FactoryStep

-----------------------------------------------------------------------------
(* The start-up *)

LEMMA BeforeStartStep ==
    ASSUME TypeOK, BeforeStart, Next
    PROVE  BeforeStart'
<1> USE DEF BeforeStart, configVars, serverVars, cacheVars, factoryVars
<1>1. ASSUME NEW s, NewClientset(s) PROVE BeforeStart'
  BY <1>1 DEF NewClientset
<1>2. CASE ClientsetFails \/ NewFactory \/ RegisterHandler \/ Start \/ WaitForCacheSync
  BY <1>2 DEF ClientsetFails, NewFactory, RegisterHandler, Start, WaitForCacheSync
<1>3. CASE Create \/ Patch \/ Delete
  BY <1>3 DEF Create, Patch, Delete, Store
<1>4. CASE InformerStep
  <2>1. phase \notin {"config", "new", "start"} /\ phase' = phase
    BY <1>4 DEF InformerStep, ListFunc, WatchFunc, WatchExpires
  <2> QED BY <2>1
<1>5. CASE TickerLists \/ TickerGets
  BY <1>5 DEF TickerLists, TickerGets
<1>6. CASE AddFunc
  BY <1>6 DEF AddFunc
<1>7. ASSUME NEW t, UserStep(t) PROVE BeforeStart'
  BY <1>7 DEF UserStep, Drop, SendNextTime, SendStarted, SendCompleted, ConvertCopy, UseCopy
<1>8. ASSUME NEW t, LookUpGeneric(t) PROVE BeforeStart'
  BY <1>8 DEF LookUpGeneric
<1> QED BY <1>1, <1>2, <1>3, <1>4, <1>5, <1>6, <1>7, <1>8 DEF Next

\* NewForConfig leaves the config as it was.
LEMMA MadeFromConfigStep ==
    ASSUME MadeFromConfig, Next
    PROVE  MadeFromConfig'
<1>1. ASSUME NEW s \in DOMAIN clients, NewClientset(s) PROVE MadeFromConfig'
  <2>1. kind' = kind /\ config' = config
        /\ clients' = [clients EXCEPT ![s] = NewForConfig(config, s, kind)]
    BY <1>1 DEF NewClientset, MakeClientset
  <2> QED BY <2>1 DEF MadeFromConfig, Clientsets
<1>2. CASE UNCHANGED configVars
  BY <1>2 DEF MadeFromConfig, Clientsets, configVars
<1>3. UNCHANGED configVars \/ \E s \in DOMAIN clients : NewClientset(s)
  BY DEF Next, ClientsetFails, NewFactory, RegisterHandler, Start, WaitForCacheSync, Create,
     Patch, Delete, Store, InformerStep, ListFunc, WatchFunc, WatchExpires, TickerLists,
     TickerGets, AddFunc, UserStep, Drop, SendNextTime, SendStarted, SendCompleted,
     ConvertCopy, UseCopy, LookUpGeneric
<1> QED BY <1>1, <1>2, <1>3

-----------------------------------------------------------------------------
(* The cache and the goroutines that are handed its objects *)

LEMMA CachedType == ASSUME TypeOK, NEW v \in Versions PROVE Cached(v) \in [Fields(kind) -> Memory]
BY DEF Cached, Memory

\* What a goroutine works on is an object of its own type.
LEMMA ListedType ==
    ASSUME TypeOK
    PROVE  /\ List \subseteq [Fields(kind) -> Memory]
           /\ Get \in {Nil} \cup [Fields(kind) -> Memory]
           /\ \A ns : GetIn(ns) \in {Nil} \cup [Fields(kind) -> Memory]
<1>1. Cached(seen) \in [Fields(kind) -> Memory]
  BY CachedType DEF TypeOK
<1> QED BY <1>1 DEF List, Get, GetIn, ListIn

LEMMA DecodedType == ASSUME NEW F PROVE Decoded(F) \in [Fields(kind) -> Memory]
BY DEF Decoded, Memory

\* The steps of a goroutine with its object write to memory of its own.
LEMMA UserKeeps ==
    ASSUME TypeOK, dirty = {}, NEW t \in Threads, UserStep(t)
    PROVE  /\ dirty' = {}
           /\ work' \in [Threads -> {Nil} \cup [Fields(kind) -> Memory]]
           /\ UNCHANGED <<configVars, serverVars, factoryVars, cacheVars, looked>>
<1>k. kind \in Kinds
  BY KindType
<1>w. work \in [Threads -> {Nil} \cup [Fields(kind) -> Memory]]
  BY DEF TypeOK
<1>c. ASSUME work[t] # Nil
      PROVE  /\ work[t] \in [Fields(kind) -> Memory]
             /\ Copy(kind, work[t]) \in [Fields(kind) -> {Nil, Own}]
  BY <1>k, <1>w, <1>c, CopyOwns
<1>1. CASE Drop(t)
  BY <1>1, <1>w DEF Drop
<1>2. CASE SendNextTime(t) \/ SendStarted(t) \/ SendCompleted(t)
  <2>1. PICK F \in SUBSET Fields(kind) : SendCopy(t, F)
    <3>1. kind = "KubeletUpgrade" => Fields(kind) = {"meta", "selector", "conditions"}
      BY DEF Fields, KubeletUpgradeFields
    <3> QED BY <1>2, <3>1 DEF SendNextTime, SendStarted, SendCompleted
  <2>2. work[t] # Nil
    BY <1>2 DEF SendNextTime, SendStarted, SendCompleted
  <2>3. dirty' = {}
    BY <1>c, <2>1, <2>2, WritesOwnMemory DEF SendCopy
  <2>4. Responds(t)
    BY <1>2 DEF SendNextTime, SendStarted, SendCompleted
  <2>5. work' \in [Threads -> {Nil} \cup [Fields(kind) -> Memory]]
    BY <1>w, <2>4, DecodedType DEF Responds
  <2> QED BY <1>2, <2>3, <2>5 DEF SendNextTime, SendStarted, SendCompleted
<1>3. CASE ConvertCopy(t)
  <2> DEFINE o == Copy(kind, work[t])
  <2>1. /\ work[t] # Nil /\ kind \in ServerScheme
        /\ \E c \in IF kind = "ChangedBlock"
                      THEN {ChangedBlockToStorage(o), ListToStorage(<<o>>)[1]}
                      ELSE {StorageToChangedBlock(o), ListToV1alpha1(<<o>>)[1]} :
              dirty' = dirty \cup WrittenThrough(c, {"meta"})
        /\ UNCHANGED <<configVars, serverVars, factoryVars, cacheVars, looked, work>>
    BY <1>3 DEF ConvertCopy
  <2>2. o \in [Fields(kind) -> {Nil, Own}]
    BY <1>c, <2>1
  <2>3. "meta" \in Fields(kind)
    BY <2>1 DEF ServerScheme, StorageTypes, V1alpha1Types, Fields, StorageFields,
       ChangedBlockFields
  <2> HIDE DEF o
  <2>4. <<o>>[1] = o /\ 1 \in DOMAIN <<o>>
    OBVIOUS
  <2>5. ChangedBlockToStorage(o)["meta"] = o["meta"]
        /\ StorageToChangedBlock(o)["meta"] = o["meta"]
    BY DEF ChangedBlockToStorage, StorageToChangedBlock, ConvertTo, StorageFields,
       ChangedBlockFields
  <2>6. ListToStorage(<<o>>)[1] = ChangedBlockToStorage(o)
        /\ ListToV1alpha1(<<o>>)[1] = StorageToChangedBlock(o)
    BY <2>4 DEF ListToStorage, ListToV1alpha1
  <2>7. PICK c : dirty' = dirty \cup WrittenThrough(c, {"meta"}) /\ c["meta"] = o["meta"]
    BY <2>1, <2>5, <2>6
  <2>8. c["meta"] \notin Versions
    BY <2>2, <2>3, <2>7, MemoryAssumption
  <2>9. WrittenThrough(c, {"meta"}) = {}
    BY <2>8 DEF WrittenThrough
  <2> QED BY <1>w, <2>1, <2>7, <2>9
<1>4. ASSUME NEW f \in Fields(kind), UseCopy(t, f)
      PROVE  /\ dirty' = {}
             /\ work' \in [Threads -> {Nil} \cup [Fields(kind) -> Memory]]
             /\ UNCHANGED <<configVars, serverVars, factoryVars, cacheVars, looked>>
  <2>1. work[t] # Nil
    BY <1>4 DEF UseCopy
  <2>2. PICK c \in {Copy(kind, work[t]), ListCopy(kind, <<work[t]>>)[1]} :
          /\ dirty' = dirty \cup WrittenThrough(c, {f})
          /\ work' = [work EXCEPT ![t] = Assigned(c, f)]
    BY <1>4 DEF UseCopy
  <2>3. c \in [Fields(kind) -> {Nil, Own}]
    BY <1>k, <1>c, <2>1, <2>2, ListCopyOwns
  <2>4. WrittenThrough(c, {f}) = {}
    BY <2>3, WritesOwnMemory
  <2>5. Assigned(c, f) \in [Fields(kind) -> Memory]
    BY <2>3 DEF Assigned, Memory
  <2> QED BY <1>4, <1>w, <2>2, <2>4, <2>5 DEF UseCopy
<1> QED BY <1>1, <1>2, <1>3, <1>4 DEF UserStep

-----------------------------------------------------------------------------
(* Type correctness *)

LEMMA ShowType ==
    ASSUME TypeOK, NEW v \in Versions, Show(v)
    PROVE  seen' \in Versions /\ notes' \in Seq(Versions) /\ seen <= seen' /\ seen' = v
<1>1. seen' = v /\ seen' \in Versions
  BY DEF Show
<1>2. seen <= seen'
  BY <1>1 DEF Show, TypeOK, Versions
<1>3. notes \in Seq(Versions)
  BY DEF TypeOK
<1>4. notes' \in Seq(Versions)
  BY <1>3 DEF Show
<1> QED BY <1>1, <1>2, <1>4

\* The server's versions stay below their bound, and the cache's below the server's.
LEMMA ServerStep ==
    ASSUME TypeOK, Create \/ Patch \/ Delete
    PROVE  /\ version' = version + 1 /\ version' \in Versions
           /\ shape' \in [Versions -> {Nil} \cup SUBSET Fields(kind)]
           /\ UNCHANGED <<configVars, factoryVars, cacheVars, looked, work, dirty>>
<1>1. PICK s \in {Nil} \cup SUBSET Fields(kind) : Store(s)
  BY DEF Create, Patch, Delete
<1>2. version + 1 \in Versions
  BY <1>1, BoundsAssumption DEF Store, Versions, TypeOK
<1>3. shape' \in [Versions -> {Nil} \cup SUBSET Fields(kind)]
  BY <1>1, <1>2 DEF Store, TypeOK
<1>4. version' = version + 1
  BY <1>1 DEF Store
<1>5. UNCHANGED <<configVars, factoryVars, cacheVars, looked, work, dirty>>
  BY <1>1 DEF Store
<1> QED BY <1>2, <1>3, <1>4, <1>5

LEMMA CacheStep ==
    ASSUME TypeOK, Behind, InformerStep
    PROVE  /\ seen' \in Versions /\ seen <= seen' /\ seen' <= version
           /\ notes' \in Seq(Versions)
           /\ rpc' \in {"list", "watch"} /\ synced' \in BOOLEAN
           /\ UNCHANGED <<configVars, serverVars, factoryVars, looked, work, dirty>>
<1>0. version \in Nat /\ seen \in Nat /\ Versions = 0 .. MaxVersion /\ MaxVersion \in Nat
      /\ version <= MaxVersion /\ seen <= version
  BY BoundsAssumption DEF TypeOK, Versions, Behind
<1>1. CASE ListFunc
  <2>1. PICK v \in 0 .. version : Show(v)
    BY <1>1 DEF ListFunc
  <2>2. v \in Versions /\ v <= version
    BY <1>0
  <2> QED BY <1>1, <2>1, <2>2, ShowType DEF ListFunc
<1>2. CASE WatchFunc
  <2>1. Show(seen + 1) /\ seen + 1 \in Versions /\ seen + 1 <= version
    BY <1>0, <1>2 DEF WatchFunc
  <2> QED BY <1>2, <2>1, ShowType DEF WatchFunc, TypeOK
<1>3. CASE WatchExpires
  BY <1>0, <1>3 DEF WatchExpires, TypeOK
<1> QED BY <1>1, <1>2, <1>3 DEF InformerStep

LEMMA TypeStep == ASSUME IInv, MadeFromConfig', Next PROVE TypeOK'
<1> USE DEF configVars, serverVars, cacheVars, factoryVars
<1>0. /\ TypeOK /\ Behind /\ MadeFromConfig /\ kind \in Kinds
      /\ factory' \in Factories /\ factory'.created <= Lookups
      /\ looked' \in [Threads -> 0 .. Lookups]
  BY OneCreatedStep, KindType DEF IInv
<1>1. kind' = kind /\ config' = config
  BY DEF Next, NewClientset, MakeClientset, ClientsetFails, NewFactory, RegisterHandler, Start,
     WaitForCacheSync, Create, Patch, Delete, Store, InformerStep, ListFunc, WatchFunc,
     WatchExpires, TickerLists, TickerGets, AddFunc, UserStep, Drop, SendNextTime,
     SendStarted, SendCompleted, ConvertCopy, UseCopy, LookUpGeneric
<1>2. \A s \in DOMAIN clients' \cap Clientsets' :
        clients'[s] # Nil => clients'[s].group.types \subseteq Kinds
  <2> SUFFICES ASSUME NEW s \in Clientsets, clients'[s] # Nil
               PROVE  clients'[s].group.types \subseteq Kinds
    BY <1>1 DEF Clientsets
  <2>1. clients'[s] = NewForConfig(config, s, kind) /\ config = Config(kind)
    BY <1>0, <1>1 DEF MadeFromConfig, Clientsets
  <2> DEFINE copy == WithBucket(Config(kind), s)
  <2>2. clients'[s].group.types = setConfigDefaults(copy, kind).types
    BY <2>1 DEF NewForConfig, GroupClient
  <2>3. copy = [qps |-> copy.qps, burst |-> copy.burst, bucket |-> copy.bucket,
                types |-> copy.types]
    BY DEF WithBucket, Config
  <2> HIDE DEF copy
  <2>4. setConfigDefaults(copy, kind).types \subseteq Kinds
    BY <1>0, <2>3 DEF setConfigDefaults, UpgradeDefaults, AppDefaults, V1alpha1Defaults,
       StorageDefaults, UpgradeScheme, AppScheme, V1alpha1Scheme, StorageScheme, Kinds
  <2> QED BY <2>2, <2>4
<1>3. CASE \E s \in DOMAIN clients : NewClientset(s)
  BY <1>0, <1>1, <1>2, <1>3 DEF NewClientset, TypeOK
<1>4. CASE ClientsetFails \/ NewFactory \/ RegisterHandler \/ Start \/ WaitForCacheSync
  BY <1>0, <1>1, <1>2, <1>4
  DEF ClientsetFails, NewFactory, RegisterHandler, Start, WaitForCacheSync, TypeOK
<1>5. CASE Create \/ Patch \/ Delete
  BY <1>0, <1>1, <1>2, <1>5, ServerStep DEF TypeOK
<1>6. CASE InformerStep
  BY <1>0, <1>1, <1>2, <1>6, CacheStep DEF TypeOK
<1>7. CASE TickerLists \/ TickerGets
  <2>1. work' \in [Threads -> {Nil} \cup [Fields(kind) -> Memory]]
    BY <1>0, <1>7, ListedType DEF TickerLists, TickerGets, TypeOK
  <2> QED BY <1>0, <1>1, <1>2, <1>7, <2>1 DEF TickerLists, TickerGets, TypeOK
<1>8. CASE AddFunc
  <2>1. Head(notes) \in Versions /\ Tail(notes) \in Seq(Versions)
    BY <1>0, <1>8 DEF AddFunc, TypeOK
  <2>2. Cached(Head(notes)) \in [Fields(kind) -> Memory]
    BY <1>0, <2>1, CachedType
  <2>3. work' \in [Threads -> {Nil} \cup [Fields(kind) -> Memory]]
    BY <1>0, <1>8, <2>2 DEF AddFunc, TypeOK
  <2> QED BY <1>0, <1>1, <1>2, <1>8, <2>1, <2>3 DEF AddFunc, TypeOK
<1>9. ASSUME NEW t \in Threads, UserStep(t) PROVE TypeOK'
  <2>1. dirty' = {} /\ work' \in [Threads -> {Nil} \cup [Fields(kind) -> Memory]]
        /\ UNCHANGED <<configVars, serverVars, factoryVars, cacheVars, looked>>
    BY <1>0, <1>9, UserKeeps DEF Behind
  <2> QED BY <1>0, <1>1, <1>2, <2>1 DEF TypeOK
<1>10. ASSUME NEW t \in Threads, LookUpGeneric(t) PROVE TypeOK'
  BY <1>0, <1>1, <1>2, <1>10 DEF LookUpGeneric, TypeOK
<1> QED BY <1>3, <1>4, <1>5, <1>6, <1>7, <1>8, <1>9, <1>10 DEF Next

-----------------------------------------------------------------------------
(* The cache is behind *)

\* Every step is, for the versions and the cache, one of LaggingCache or a stutter.
LEMMA LaggingStep ==
    ASSUME IInv, Next
    PROVE  /\ dirty' = {} /\ seen' <= version'
           /\ \/ version' = version + 1 /\ seen' = seen
              \/ seen' \in seen .. version /\ version' = version
<1>0. /\ TypeOK /\ Behind /\ dirty = {} /\ version \in Nat /\ seen \in Nat /\ seen <= version
      /\ seen \in seen .. version
  BY DEF IInv, TypeOK, Behind, Versions
<1> USE DEF serverVars, cacheVars
<1>1. CASE Create \/ Patch \/ Delete
  BY <1>0, <1>1, ServerStep
<1>2. CASE InformerStep
  <2>1. seen' \in Nat /\ seen <= seen' /\ seen' <= version
    BY <1>0, <1>2, CacheStep DEF Versions
  <2> QED BY <1>0, <1>2, <2>1, CacheStep
<1>3. ASSUME NEW t \in Threads, UserStep(t)
      PROVE  dirty' = {} /\ seen' = seen /\ version' = version
  BY <1>0, <1>3, UserKeeps
<1>4. ASSUME \/ \E s \in DOMAIN clients : NewClientset(s)
             \/ ClientsetFails \/ NewFactory \/ RegisterHandler \/ Start
             \/ WaitForCacheSync \/ TickerLists \/ TickerGets \/ AddFunc
             \/ \E t \in Threads : LookUpGeneric(t)
      PROVE  dirty' = dirty /\ seen' = seen /\ version' = version
  BY <1>4 DEF NewClientset, ClientsetFails, NewFactory, RegisterHandler, Start,
     WaitForCacheSync, TickerLists, TickerGets, AddFunc, LookUpGeneric
<1> QED BY <1>0, <1>1, <1>2, <1>3, <1>4 DEF Next

-----------------------------------------------------------------------------
(* The theorems *)

LEMMA InitIInv == ASSUME Init PROVE IInv
<1>1. kind \in Kinds /\ 0 \in Versions /\ 0 \in 0 .. Lookups /\ Lookups \in Nat
  BY ClientsAssumption, BoundsAssumption DEF Init, Versions
<1>2. MadeFromConfig
  BY DEF Init, MadeFromConfig, Clientsets
<1>3. factory \in Factories /\ factory.created <= Lookups
  BY <1>1 DEF Init, NewSharedInformerFactory, Factories
<1>4. config \in Configs
  BY <1>1 DEF Init, Config, Configs
<1>5. \A s \in DOMAIN clients \cap Clientsets : clients[s] = Nil
  BY DEF Init
<1>6. notes \in Seq(Versions)
  BY DEF Init
<1>7. TypeOK
  BY <1>1, <1>3, <1>4, <1>5, <1>6 DEF Init, TypeOK
<1>8. OneCreated /\ BeforeStart /\ Behind
  BY DEF Init, OneCreated, BeforeStart, Behind, NewSharedInformerFactory
<1> QED BY <1>2, <1>7, <1>8 DEF IInv

LEMMA StepIInv == ASSUME IInv, [Next]_vars PROVE IInv'
<1>1. CASE Next
  <2>1. OneCreated' /\ BeforeStart' /\ MadeFromConfig'
    BY <1>1, OneCreatedStep, BeforeStartStep, MadeFromConfigStep DEF IInv
  <2>2. Behind'
    BY <1>1, LaggingStep DEF Behind
  <2> QED BY <1>1, <2>1, <2>2, TypeStep DEF IInv
<1>2. CASE UNCHANGED vars
  <2>1. TypeOK' /\ OneCreated'
    BY <1>2 DEF vars, configVars, serverVars, factoryVars, cacheVars, IInv, TypeOK, OneCreated,
       Clientsets
  <2>2. BeforeStart' /\ MadeFromConfig' /\ Behind'
    BY <1>2 DEF vars, configVars, serverVars, factoryVars, cacheVars, IInv, BeforeStart,
       MadeFromConfig, Clientsets, Behind
  <2> QED BY <2>1, <2>2 DEF IInv
<1> QED BY <1>1, <1>2

\* The inductive invariant holds in every reachable state.
THEOREM Invariance == Spec => []IInv
<1>1. Init => IInv
  BY InitIInv
<1>2. IInv /\ [Next]_vars => IInv'
  BY StepIInv
<1> QED BY <1>1, <1>2, PTL DEF Spec

\* Every reachable state is well typed: what the lister, the notifications, the copies
\* and the responses hand to a goroutine is an object of the type it expects.
THEOREM TypeCorrect == Spec => []TypeOK
BY Invariance, PTL DEF IInv

\* Whatever chain of accessors, name of a resource, and goroutine asks the factory, in
\* whatever order: after Start, all have the informer that runs.
THEOREM SharesInformer == Spec => []OneInformer
<1>1. IInv => OneInformer
  BY DEF IInv, OneCreated, OneInformer
<1> QED BY <1>1, Invariance, PTL

\* The informer implements a lagging cache: it never goes back, is never ahead of the
\* API server, and no goroutine that was handed a cached object, of any of the four
\* types, ever alters it.
THEOREM Implements == Spec => LaggingSpec
<1>1. Init => Lagging!Init
  BY DEF Init, Lagging!Init
<1>2. IInv /\ [Next]_vars => [Lagging!Next]_<<version, seen, dirty # {}>>
  <2> SUFFICES ASSUME IInv, [Next]_vars
               PROVE  [Lagging!Next]_<<version, seen, dirty # {}>>
    OBVIOUS
  <2>1. CASE Next
    <3>1. dirty = {} /\ dirty' = {}
      BY <2>1, LaggingStep DEF IInv, Behind
    <3> QED BY <2>1, <3>1, LaggingStep DEF Lagging!Next, Lagging!Write, Lagging!CatchUp
  <2>2. CASE UNCHANGED vars
    BY <2>2 DEF vars, serverVars, cacheVars
  <2> QED BY <2>1, <2>2
<1> QED BY <1>1, <1>2, Invariance, PTL DEF Spec, LaggingSpec, Lagging!Spec

=============================================================================
