--------------------------- MODULE SharedInformer ---------------------------
(***************************************************************************)
(* The generated informer of one API type: the factory that creates and    *)
(* starts it, the list and watch calls of the generated client that fill   *)
(* its cache, and the goroutines of the program that are handed pointers   *)
(* to the cached objects by its lister and by its Add notifications (in    *)
(* upgrade/kubelet the ticker loop and the AddFunc handler), copy them and *)
(* write to the copies.  Reconcile.tla assumes of the cache what is shown  *)
(* here: that it lags behind the API server and does nothing else.         *)
(*                                                                         *)
(* One stored object is followed through its versions 1, 2, ...; version 0 *)
(* is the time before it exists.  The API server is taken to serve the     *)
(* type under the name that the client asks for; for ChangedBlock that is  *)
(* the subject of SnapdiffServer.tla.                                      *)
(***************************************************************************)
EXTENDS InformerFactory

CONSTANTS
    Ticker,      \* the goroutine of main: New, Reconcile, its loop
    Handler,     \* the goroutine that runs the Add notifications
    Clients,     \* kinds of objects that are followed
    MaxVersion,  \* bound on the versions of the stored object
    Lookups      \* bound on the informers the factory may create

ASSUME ThreadsAssumption == Ticker # Handler
Threads  == {Ticker, Handler}
Versions == 0 .. MaxVersion

ASSUME ClientsAssumption == Clients \subseteq Kinds
ASSUME BoundsAssumption == MaxVersion \in Nat /\ Lookups \in Nat
ASSUME MemoryAssumption == Nil # Own /\ {Nil, Own} \cap Versions = {}

VARIABLES
    kind,      \* the type the informer is for
    config,    \* main's rest.Config
    clients,   \* the clientsets made from it, Nil before
    version,   \* of the stored object
    shape,     \* shape[v]: the fields of version v that are not nil; Nil if deleted
    factory,   \* the informer factory
    phase,     \* where main is: "config", "new", "start", "sync", "loop", "exit"
    rpc,       \* the reflector's current call: "off", "list", "watch"
    seen,      \* resource version of the cache
    synced,    \* HasSynced
    notes,     \* versions whose Add notification the handler has not taken
    looked,    \* the informer each goroutine has looked up last, 0 if none
    work,      \* the object each goroutine works on, Nil if none
    dirty      \* <<v, f>>: somebody has written to field f of cached version v

configVars  == <<kind, config, clients>>
serverVars  == <<version, shape>>
factoryVars == <<factory, phase>>
cacheVars   == <<rpc, seen, synced, notes>>
vars == <<configVars, serverVars, factoryVars, cacheVars, looked, work, dirty>>

Memory == {Nil, Own} \cup Versions

\* The clientsets that a program makes from its config.
Clientsets == IF kind \in UpgradeTypes \cup AppTypes THEN {"kubernetes", "versioned"}
                                                     ELSE {"versioned"}

\* That of a kubeconfig has no rate, that of a test environment a large one, that
\* of the loopback a negative one.  (No program makes the internal version's client.)
Config(k) ==
    [qps    |-> CASE k \in AppTypes      -> 1000
                  [] k \in V1alpha1Types -> -1
                  [] OTHER               -> 0,
     burst  |-> IF k \in AppTypes THEN 2000 ELSE 0,
     bucket |-> Nil, types |-> {}]

TypeOK ==
    /\ kind \in Clients
    /\ config \in Configs
    /\ \A s \in DOMAIN clients \cap Clientsets :
        clients[s] # Nil => clients[s].group.types \subseteq Kinds
    /\ version \in Versions
    /\ shape \in [Versions -> {Nil} \cup SUBSET Fields(kind)]
    /\ factory \in Factories /\ factory.created <= Lookups
    /\ phase \in {"config", "new", "start", "sync", "loop", "exit"}
    /\ rpc \in {"off", "list", "watch"}
    /\ seen \in Versions /\ synced \in BOOLEAN
    /\ notes \in Seq(Versions)
    /\ looked \in [Threads -> 0 .. Lookups]
    /\ work \in [Threads -> {Nil} \cup [Fields(kind) -> Memory]]
    /\ dirty \subseteq Versions \X Fields(kind)

Init ==
    /\ kind \in Clients /\ config = Config(kind)
    /\ clients = [s \in Clientsets |-> Nil]
    /\ version = 0 /\ shape = [v \in Versions |-> Nil]
    /\ factory = NewSharedInformerFactory /\ phase = "config"
    /\ rpc = "off" /\ seen = 0 /\ synced = FALSE /\ notes = <<>>
    /\ looked = [t \in Threads |-> 0]
    /\ work = [t \in Threads |-> Nil]
    /\ dirty = {}

\* The cached object of version v.
Cached(v) == [f \in Fields(kind) |-> IF f \in shape[v] THEN v ELSE Nil]

\* Mutant of Decoded: the object has no place for a missing field.
DecodedFields(F) == [f \in F |-> Own]

\* An object decoded from a response; any field may be missing in it.
Decoded(F) == [f \in Fields(kind) |-> IF f \in F THEN Own ELSE Nil]

Exists(v) == shape[v] # Nil

-----------------------------------------------------------------------------
(* The API server *)

Store(s) ==
    /\ version < MaxVersion
    /\ version' = version + 1
    /\ shape' = [shape EXCEPT ![version + 1] = s]
    /\ UNCHANGED <<configVars, factoryVars, cacheVars, looked, work, dirty>>

\* The calls of other clients.
Create == ~Exists(version) /\ \E F \in {{}, Fields(kind)} : Store(F)
Patch  == Exists(version) /\ \E F \in {{}, Fields(kind)} : Store(F)
Delete == Exists(version) /\ Store(Nil)

-----------------------------------------------------------------------------
(* main: the clientsets and the factory *)

MakeClientset(s) ==
    /\ clients' = [clients EXCEPT ![s] = NewForConfig(config, s, kind)]
    /\ config' = config

NewClientset(s) ==
    /\ phase = "config" /\ clients[s] = Nil /\ ~Refused(config)
    /\ MakeClientset(s)
    /\ UNCHANGED <<kind, serverVars, factoryVars, cacheVars, looked, work, dirty>>

\* The config is refused: the program ends.
ClientsetFails ==
    /\ phase = "config" /\ \E s \in DOMAIN clients : clients[s] = Nil
    /\ phase' = "exit"
    /\ UNCHANGED <<configVars, serverVars, factory, cacheVars, looked, work, dirty>>

NewFactory ==
    /\ phase = "config" /\ \A s \in DOMAIN clients : clients[s] # Nil
    /\ factory' = NewSharedInformerFactory
    /\ phase' = "new"
    /\ UNCHANGED <<configVars, serverVars, cacheVars, looked, work, dirty>>

-----------------------------------------------------------------------------
(* The program's calls of the factory *)

\* Goroutine t calls Lister() or Informer() of the chain of its type.
LookUp(t) ==
    /\ factory.created < Lookups
    /\ factory' = Informer(Chain(kind, factory))
    /\ looked' = [looked EXCEPT ![t] = factory'.informer]

\* The same by the name of a resource, or an error.
LookUpGeneric(t) ==
    /\ phase \in {"start", "sync", "loop"} /\ factory.created < Lookups
    /\ \E r \in Resources :
        /\ factory' = ForResource(factory, kind, r)
        /\ looked' = IF r = KnownResource(kind)
                        THEN [looked EXCEPT ![t] = factory'.informer] ELSE looked
    /\ UNCHANGED <<configVars, serverVars, phase, cacheVars, work, dirty>>

\* New: Informer().AddEventHandler(...).
RegisterHandler ==
    /\ phase = "new" /\ LookUp(Ticker)
    /\ phase' = "start"
    /\ UNCHANGED <<configVars, serverVars, cacheVars, work, dirty>>

\* Mutant of Start: the informer is marked as started and not run.
StartMarks ==
    /\ phase = "start"
    /\ factory' = StartInformers(factory)
    /\ phase' = "sync"
    /\ UNCHANGED <<configVars, serverVars, cacheVars, looked, work, dirty>>

\* Start runs the informers that have been requested by now.
Start ==
    /\ phase = "start"
    /\ factory' = StartInformers(factory)
    /\ rpc' = IF factory'.running # 0 THEN "list" ELSE "off"
    /\ phase' = "sync"
    /\ UNCHANGED <<configVars, serverVars, seen, synced, notes, looked, work, dirty>>

\* syncCache, cache.WaitForCacheSync.
WaitForCacheSync ==
    /\ phase = "sync" /\ synced /\ LookUp(Ticker)
    /\ phase' = "loop"
    /\ UNCHANGED <<configVars, serverVars, cacheVars, work, dirty>>

-----------------------------------------------------------------------------
(* The informer: ListFunc and WatchFunc, called by client-go's reflector *)

\* The cache takes over version v; an object that was not there is announced.
Show(v) ==
    /\ v >= seen
    /\ seen' = v
    /\ notes' = IF Exists(v) /\ ~Exists(seen) THEN Append(notes, v) ELSE notes

\* The response, of a type that the client can decode, may show any version, but
\* one older than what has been asked for (the last one seen) is refused.
ListFunc ==
    /\ rpc = "list" /\ kind \in Group(clients["versioned"]).types
    /\ \E v \in 0 .. version : Show(v)
    /\ rpc' = "watch" /\ synced' = TRUE
    /\ UNCHANGED <<configVars, serverVars, factoryVars, looked, work, dirty>>

\* The watch delivers the next event after the last one seen.
WatchFunc ==
    /\ rpc = "watch" /\ seen < version
    /\ Show(seen + 1)
    /\ UNCHANGED <<configVars, serverVars, factoryVars, rpc, synced, looked, work, dirty>>

\* The server has forgotten the version to resume from: list again.  (A watch
\* that merely breaks is resumed where it was.)
WatchExpires ==
    /\ rpc = "watch" /\ seen < version
    /\ rpc' = "list"
    /\ UNCHANGED <<configVars, serverVars, factoryVars, seen, synced, notes, looked, work, dirty>>

-----------------------------------------------------------------------------
(* The goroutines that are handed cached objects *)

\* The lister: all objects of the cache, or those of one namespace (the object is in
\* "home", unless its type has no namespaces).
List       == IF Exists(seen) THEN {Cached(seen)} ELSE {}
ListIn(ns) == IF ns = "home" THEN List ELSE {}

\* One object by its name, or an error, which comes with no object.
Get       == IF List = {} THEN Nil ELSE Cached(seen)
GetIn(ns) == IF ListIn(ns) = {} THEN Nil ELSE Cached(seen)

\* pollSchedules, listDB: the lister returns pointers to the cached objects.
TickerLists ==
    /\ phase = "loop" /\ work[Ticker] = Nil /\ LookUp(Ticker)
    /\ \E o \in List : work' = [work EXCEPT ![Ticker] = o]
    /\ UNCHANGED <<configVars, serverVars, phase, cacheVars, dirty>>

TickerGets ==
    /\ phase = "loop" /\ work[Ticker] = Nil /\ LookUp(Ticker)
    /\ \/ kind \in UpgradeTypes /\ work' = [work EXCEPT ![Ticker] = Get]
       \/ /\ kind \notin UpgradeTypes
          /\ \E ns \in {"home", "other"} : work' = [work EXCEPT ![Ticker] = GetIn(ns)]
    /\ UNCHANGED <<configVars, serverVars, phase, cacheVars, dirty>>

\* AddFunc: the object of the notification, unless the cache is not synced yet.
AddFunc ==
    /\ notes # <<>> /\ work[Handler] = Nil /\ LookUp(Handler)
    /\ notes' = Tail(notes)
    /\ work' = [work EXCEPT ![Handler] = IF synced THEN Cached(Head(notes)) ELSE Nil]
    /\ UNCHANGED <<configVars, serverVars, phase, rpc, seen, synced, dirty>>

\* poll returns, or its goroutine panics.
Drop(t) ==
    /\ work[t] # Nil
    /\ work' = [work EXCEPT ![t] = Nil]
    /\ UNCHANGED <<configVars, serverVars, factoryVars, cacheVars, looked, dirty>>

\* A write to the fields F of object o: a nil map or slice is allocated first.
WrittenThrough(o, F) == {<<o[f], f>> : f \in {g \in F : o[g] \in Versions}}
Assigned(o, f) == [o EXCEPT ![f] = IF @ = Nil THEN Own ELSE @]

\* t copies its object, writes to the fields F of the copy, and sends it.
SendCopy(t, F) == dirty' = dirty \cup WrittenThrough(Copy(kind, work[t]), F)

\* The response of a call that succeeded takes the place of the copy.
Responds(t) == \E F \in {{}, Fields(kind)} : work' = [work EXCEPT ![t] = Decoded(F)]

\* updateNextScheduledTime sends a copy with a new time, which is held by value.
SendNextTime(t) ==
    /\ kind = "KubeletUpgrade" /\ work[t] # Nil
    /\ SendCopy(t, {}) /\ Responds(t)
    /\ UNCHANGED <<configVars, serverVars, factoryVars, cacheVars, looked>>

\* RecordUpgradeStarted: the map of labels is created if it is nil, the skip label
\* set, a condition appended; UpdateStatus returns a new object.
SendStarted(t) ==
    /\ kind = "KubeletUpgrade" /\ work[t] # Nil
    /\ SendCopy(t, {"meta", "conditions"}) /\ Responds(t)
    /\ UNCHANGED <<configVars, serverVars, factoryVars, cacheVars, looked>>

\* RecordUpgradeCompleted: the label is deleted if there are labels at all.
SendCompleted(t) ==
    /\ kind = "KubeletUpgrade" /\ work[t] # Nil
    /\ LET labels == IF work[t]["meta"] = Nil THEN {} ELSE {"meta"} IN
       SendCopy(t, labels \cup {"conditions"}) /\ Responds(t)
    /\ UNCHANGED <<configVars, serverVars, factoryVars, cacheVars, looked>>

\* The machinery that encodes, defaults or stores objects of the other types
\* copies them, alone or in a list, and may write to any field of its copy.
UseCopy(t, f) ==
    /\ kind # "KubeletUpgrade" /\ work[t] # Nil /\ f \in Fields(kind)
    /\ \E c \in {Copy(kind, work[t]), ListCopy(kind, <<work[t]>>)[1]} :
        /\ dirty' = dirty \cup WrittenThrough(c, {f})
        /\ work' = [work EXCEPT ![t] = Assigned(c, f)]
    /\ UNCHANGED <<configVars, serverVars, factoryVars, cacheVars, looked>>

\* The conversion of a ChangedBlock to the other version, alone or in a list, is
\* given a deep copy by the scheme: what it returns shares the copy's metadata.
ConvertCopy(t) ==
    /\ kind \in ServerScheme /\ work[t] # Nil
    /\ LET copy == Copy(kind, work[t]) IN
       \E c \in IF kind = "ChangedBlock"
                   THEN {ChangedBlockToStorage(copy), ListToStorage(<<copy>>)[1]}
                   ELSE {StorageToChangedBlock(copy), ListToV1alpha1(<<copy>>)[1]} :
           dirty' = dirty \cup WrittenThrough(c, {"meta"})
    /\ UNCHANGED <<configVars, serverVars, factoryVars, cacheVars, looked, work>>

-----------------------------------------------------------------------------
InformerStep == ListFunc \/ WatchFunc \/ WatchExpires

UserStep(t) ==
    \/ Drop(t) \/ SendNextTime(t) \/ SendStarted(t) \/ SendCompleted(t)
    \/ ConvertCopy(t)
    \/ \E f \in Fields(kind) : UseCopy(t, f)

Next ==
    \/ \E s \in DOMAIN clients : NewClientset(s)
    \/ ClientsetFails \/ NewFactory
    \/ Create \/ Patch \/ Delete \/ RegisterHandler \/ Start \/ WaitForCacheSync
    \/ InformerStep \/ TickerLists \/ TickerGets \/ AddFunc
    \/ \E t \in Threads : UserStep(t) \/ LookUpGeneric(t)

Spec == Init /\ [][Next]_vars

\* main runs, calls return, the watch delivers; it is not for ever expired.
Fairness ==
    /\ WF_vars(\E s \in DOMAIN clients : NewClientset(s))
    /\ WF_vars(NewFactory)
    /\ WF_vars(RegisterHandler) /\ WF_vars(Start) /\ WF_vars(WaitForCacheSync)
    /\ WF_vars(ListFunc) /\ SF_vars(WatchFunc)

FairSpec == Spec /\ Fairness

-----------------------------------------------------------------------------
(* Properties *)

\* "Objects returned here must be treated as read-only" (the generated lister):
\* together with the reflector's versions this makes the informer a lagging
\* cache.  A pointer kept from an old notification may be written to long after
\* the cache has moved on, and the deep copies decide what such a write reaches.
Lagging == INSTANCE LaggingCache WITH
    version <- version, seen <- seen, altered <- (dirty # {})
LaggingSpec == Lagging!Spec

\* All goroutines share one informer, the one that Start has started: nobody
\* waits for, or lists from, an informer that never runs.
OneInformer ==
    factory.running # 0 => \A t \in Threads : looked[t] \in {0, factory.running}

\* The program, unless its config is refused, gets through its start-up, and the
\* cache catches up with every version of the stored object, however often the watch
\* has to start over.
CatchesUp == \A v \in Versions : version = v ~> seen >= v \/ phase = "exit"

=============================================================================
