--------------------------- MODULE SnapdiffServer ---------------------------
(***************************************************************************)
(* The aggregated API server for changed blocks (snapdiff): its start-up,  *)
(* the storage behind its one resource, and the clients that list it page  *)
(* by page, as informers do.  One of them is the server itself: its        *)
(* admission plugin has an informer, which lists over the loopback         *)
(* connection with the generated client.                                   *)
(*                                                                         *)
(* The storage has no verb but get, list and watch, so no request reaches  *)
(* the plugin's Validate, which admits creates, updates and connects.      *)
(***************************************************************************)
EXTENDS Sequences, Naturals, FiniteSets

CONSTANTS
    Users,      \* clients outside of the server, which discover the resource
    Reflector   \* the client behind the plugin's informer

Clients == Users \cup {Reflector}
ASSUME ReflectorAssumption == Reflector \notin Users

\* The blocks delta-00 to delta-08, by number, under the token of their page.
mocks == [t \in {"token-00", "token-01", "token-02"} |->
            CASE t = "token-00" -> <<0, 1, 2>>
              [] t = "token-01" -> <<3, 4, 5>>
              [] t = "token-02" -> <<6, 7, 8>>]

Blocks  == 0 .. 8
Unknown == 9              \* any other name; also the object that has no name
Names   == Blocks \cup {Unknown}

NoToken == ""
Tokens  == {NoToken} \cup DOMAIN mocks

\* The methods that REST has, its own and those of Memory, decide on the verbs.
Verbs == {"get", "list", "watch"}

\* The name that the resource is installed under, the one that discovery shows, and
\* the one that the generated client asks for.  The paths of requests are compared
\* with those of the routes letter by letter.
Installed   == "changedBlocks"
Resource(c) == IF c = Reflector THEN "changedblocks" ELSE Installed

Routed(c, verb) == Resource(c) = Installed /\ verb \in Verbs

NoAnswer == [name |-> Unknown, block |-> Unknown, found |-> {}]

VARIABLES
    enabled,    \* the flags leave the ChangedBlocks plugin enabled
    stop,       \* stopCh is closed
    phase,      \* where main is
    registered, \* Complete has registered the plugin
    factory,    \* the plugin's informer factory: "none", "created", "started"
    requested,  \* the factory has an informer for ChangedBlock
    lister,     \* the plugin has its lister and its ready function
    hooked,     \* the post-start hook has run
    listing,    \* each client: not listing, listing, or watching
    token,      \* the continue token of its next request
    got,        \* the blocks of the pages it has received
    remaining,  \* RemainingItemCount of its last page
    cache,      \* the informer's store
    synced,     \* HasSynced
    refused,    \* it was told that there is no such resource or method
    answer      \* the last answer to a get

startVars  == <<enabled, phase, registered, factory, requested, lister, hooked>>
clientVars == <<listing, token, got, remaining>>
cacheVars  == <<cache, synced, refused>>
vars == <<stop, startVars, clientVars, cacheVars, answer>>

Phases == {"new", "completed", "validated", "configured", "installed",
           "serving", "ended", "fatal"}

TypeOK ==
    /\ {enabled, stop, registered, requested, lister, hooked} \subseteq BOOLEAN
    /\ phase \in Phases
    /\ factory \in {"none", "created", "started"}
    /\ listing \in [Clients -> {"no", "list", "watch"}]
    /\ token \in [Clients -> Tokens]
    /\ got \in [Clients -> Seq(Blocks)]
    /\ remaining \in [Clients -> Nat]
    /\ cache \in [Clients -> SUBSET Blocks] /\ synced \in [Clients -> BOOLEAN]
    /\ refused \subseteq Clients
    /\ answer \in [name : Names, block : Names, found : SUBSET Blocks]

Init ==
    /\ enabled \in BOOLEAN
    /\ stop = FALSE /\ phase = "new"
    /\ registered = FALSE /\ factory = "none"
    /\ requested = FALSE /\ lister = FALSE /\ hooked = FALSE
    /\ listing = [c \in Clients |-> "no"] /\ token = [c \in Clients |-> NoToken]
    /\ got = [c \in Clients |-> <<>>] /\ remaining = [c \in Clients |-> 0]
    /\ cache = [c \in Clients |-> {}] /\ synced = [c \in Clients |-> FALSE]
    /\ refused = {}
    /\ answer = NoAnswer

-----------------------------------------------------------------------------
(* main: Complete, Validate, Run *)

\* SetupSignalHandler.
Signal ==
    /\ ~stop /\ stop' = TRUE
    /\ UNCHANGED <<startVars, clientVars, cacheVars, answer>>

\* An error of any step: klog.Fatal.
Fails(from) ==
    /\ phase = from /\ phase' = "fatal"
    /\ UNCHANGED <<stop, enabled, registered, factory, requested, lister, hooked,
                   clientVars, cacheVars, answer>>

Complete ==
    /\ phase = "new" /\ phase' = "completed"
    /\ registered' = TRUE
    /\ UNCHANGED <<stop, enabled, factory, requested, lister, hooked,
                   clientVars, cacheVars, answer>>

Validate ==
    \/ /\ phase = "completed" /\ phase' = "validated"
       /\ UNCHANGED <<stop, enabled, registered, factory, requested, lister, hooked,
                      clientVars, cacheVars, answer>>
    \/ Fails("completed")

NewSharedInformerFactory == factory' = "created"

\* The informer of the type is created the first time it is asked for.
InformerFor == requested' = TRUE

\* Storage().V1alpha1().ChangedBlocks(), Lister() or Informer().
Informer == InformerFor

\* Mutant of SetStorageInformerFactory: the informer is left for later.
KeepFactory == lister' = TRUE /\ requested' = requested

\* Lister() and Informer() both ask the factory for the informer.
SetStorageInformerFactory == lister' = TRUE /\ Informer

\* The plugin is initialized, if it is enabled, and must then have its lister.
Initialize ==
    IF enabled /\ registered THEN SetStorageInformerFactory /\ lister'
                             ELSE UNCHANGED <<requested, lister>>

\* ApplyTo calls ExtraAdmissionInitializers, which creates the factory, and then
\* instantiates the plugins that are enabled, initializes and validates them.
RecommendedConfig ==
    \/ /\ phase = "validated" /\ phase' = "configured"
       /\ NewSharedInformerFactory
       /\ Initialize
       /\ UNCHANGED <<stop, enabled, registered, hooked, clientVars, cacheVars, answer>>
    \/ Fails("validated")

\* CompletedConfig.New: the server, with the storage installed in it.
New ==
    \/ /\ phase = "configured" /\ phase' = "installed"
       /\ UNCHANGED <<stop, enabled, registered, factory, requested, lister, hooked,
                      clientVars, cacheVars, answer>>
    \/ Fails("configured")

\* PrepareRun().Run: the server listens; the hook follows in its own goroutine.
Run ==
    \/ /\ phase = "installed" /\ phase' = "serving"
       /\ UNCHANGED <<stop, enabled, registered, factory, requested, lister, hooked,
                      clientVars, cacheVars, answer>>
    \/ Fails("installed")

\* factory.Start: run what has been requested, unless stopCh is closed already.
StartFactory ==
    /\ factory' = "started"
    /\ listing' = IF requested /\ ~stop THEN [listing EXCEPT ![Reflector] = "list"]
                                        ELSE listing

\* The post-start hook "snapdiff-apiserver-informers".
PostStartHook ==
    /\ phase = "serving" /\ ~hooked
    /\ hooked' = TRUE
    /\ StartFactory
    /\ UNCHANGED <<stop, enabled, phase, registered, requested, lister,
                   token, got, remaining, cacheVars, answer>>

\* Mutant of Shutdown: the server waits for its own watch to end.
ShutdownAfterWatch ==
    /\ phase = "serving" /\ stop /\ listing[Reflector] = "no"
    /\ phase' = "ended"
    /\ UNCHANGED <<stop, enabled, registered, factory, requested, lister, hooked,
                   clientVars, cacheVars, answer>>

\* Run returns, and with it the process.
Shutdown ==
    /\ phase = "serving" /\ stop
    /\ phase' = "ended"
    /\ UNCHANGED <<stop, enabled, registered, factory, requested, lister, hooked,
                   clientVars, cacheVars, answer>>

-----------------------------------------------------------------------------
(* Storage: Memory *)

\* Mutant of Get: the search ends with the first page.
GetFirstPage(name) ==
    IF \E i \in 1 .. 3 : mocks["token-00"][i] = name THEN name ELSE Unknown

\* The block of that name; an empty object, and no error, if there is none.
Get(name) ==
    IF \E t \in DOMAIN mocks, i \in 1 .. 3 : mocks[t][i] = name THEN name ELSE Unknown

Page(t, left, next) == [items |-> mocks[t], remaining |-> left, continue |-> next]

\* Mutant of List: the case of the last token is missing.
ListTwoPages(t) ==
    IF t = "token-01" THEN Page("token-01", 3, "token-02")
                      ELSE Page("token-00", 6, "token-01")

\* Mutant of List: the first page points to the last one.
ListSkips(t) ==
    CASE t = "token-01" -> Page("token-01", 3, "token-02")
      [] t = "token-02" -> Page("token-02", 0, NoToken)
      [] OTHER          -> Page("token-00", 6, "token-02")

\* Mutant of List: what remains is counted with the page itself.
ListInclusive(t) ==
    CASE t = "token-01" -> Page("token-01", 6, "token-02")
      [] t = "token-02" -> Page("token-02", 0, NoToken)
      [] OTHER          -> Page("token-00", 9, "token-01")

\* Mutant of List: a page has a token also when nothing remains.
ListNextPage(t) ==
    CASE t = "token-01" -> Page("token-01", 3, "token-02")
      [] t = "token-02" -> Page("token-02", 0, "token-03")
      [] OTHER          -> Page("token-00", 6, "token-01")

\* Any token but the two that List hands out is for the first page.
List(t) ==
    CASE t = "token-01" -> Page("token-01", 3, "token-02")
      [] t = "token-02" -> Page("token-02", 0, NoToken)
      [] OTHER          -> Page("token-00", 6, "token-01")

-----------------------------------------------------------------------------
(* The clients *)

\* Each back-off begins with the first page, the first list also with a token of
\* the client's making.
FromTheStart(c, t) ==
    /\ token' = [token EXCEPT ![c] = t] /\ got' = [got EXCEPT ![c] = <<>>]

StartListing(c) ==
    /\ phase = "serving" /\ listing[c] = "no" /\ c # Reflector
    /\ listing' = [listing EXCEPT ![c] = "list"]
    /\ \E t \in {NoToken, "token-00"} : FromTheStart(c, t)
    /\ UNCHANGED <<stop, startVars, remaining, cacheVars, answer>>

\* One request, answered.  A client follows the tokens until there is none, and then
\* replaces its store and watches.
ListRequest(c) ==
    /\ phase = "serving" /\ listing[c] = "list" /\ Routed(c, "list")
    /\ LET page == List(token[c])
           all  == got[c] \o page.items
           last == page.continue = NoToken
       IN  /\ token' = [token EXCEPT ![c] = page.continue]
           /\ got' = [got EXCEPT ![c] = all]
           /\ remaining' = [remaining EXCEPT ![c] = page.remaining]
           /\ listing' = [listing EXCEPT ![c] = IF last THEN "watch" ELSE "list"]
           /\ IF last
                 THEN /\ cache' = [cache EXCEPT ![c] = {all[i] : i \in DOMAIN all}]
                      /\ synced' = [synced EXCEPT ![c] = TRUE]
                 ELSE UNCHANGED <<cache, synced>>
    /\ UNCHANGED <<stop, startVars, refused, answer>>

\* A page that is lost: the client drops the ones it has and begins again.
ListFails(c) ==
    /\ listing[c] = "list"
    /\ FromTheStart(c, NoToken)
    /\ UNCHANGED <<stop, startVars, listing, remaining, cacheVars, answer>>

\* There is no route: the request, whatever its verb, does not reach the storage,
\* nor the plugin; a client that lists tries again.
NotRouted(c, verb) ==
    /\ phase = "serving" /\ ~Routed(c, verb)
    /\ verb = "list" => listing[c] = "list"
    /\ refused' = refused \cup {c}
    /\ UNCHANGED <<stop, startVars, clientVars, cache, synced, answer>>

\* Watch returns a watcher on which nothing is ever sent.  When a timeout closes it
\* the client watches again, and after an error it lists again, or leaves it.
WatchEnds(c) ==
    /\ listing[c] = "watch"
    /\ \/ listing' = [listing EXCEPT ![c] = "list"]
       \/ c # Reflector /\ listing' = [listing EXCEPT ![c] = "no"]
    /\ FromTheStart(c, NoToken)
    /\ UNCHANGED <<stop, startVars, remaining, cacheVars, answer>>

\* stopCh ends the informer, wherever it is.
ReflectorStops ==
    /\ stop /\ listing[Reflector] # "no"
    /\ listing' = [listing EXCEPT ![Reflector] = "no"]
    /\ UNCHANGED <<stop, startVars, token, got, remaining, cacheVars, answer>>

\* A get, of any name, by a client that has in its store what found holds.
GetRequest(c) ==
    /\ phase = "serving" /\ Routed(c, "get")
    /\ \E name \in Names :
        answer' = [name |-> name, block |-> Get(name), found |-> cache[c]]
    /\ UNCHANGED <<stop, startVars, clientVars, cacheVars>>

-----------------------------------------------------------------------------
MainStep == Complete \/ Validate \/ RecommendedConfig \/ New \/ Run \/ Shutdown

\* The client has methods for the verbs that the server does not have, too.
ClientStep(c) ==
    \/ StartListing(c) \/ ListRequest(c) \/ ListFails(c) \/ WatchEnds(c)
    \/ GetRequest(c)
    \/ \E verb \in {"list", "create"} : NotRouted(c, verb)

Next ==
    \/ Signal \/ MainStep \/ PostStartHook \/ ReflectorStops
    \/ \E c \in Clients : ClientStep(c)

Spec == Init /\ [][Next]_vars

\* main and the hook run, and of a request that is repeated for ever some attempt
\* gets through, whichever page it is for.
Fairness ==
    /\ WF_vars(MainStep) /\ WF_vars(PostStartHook)
    /\ \A c \in Clients, t \in Tokens : SF_vars(token[c] = t /\ ListRequest(c))

FairSpec == Spec /\ Fairness

-----------------------------------------------------------------------------
(* Properties *)

\* An informer that says it has synced holds every block, however often its list
\* was interrupted or repeated.
SyncedIsComplete == \A c \in Clients : synced[c] => cache[c] = Blocks

\* What a client has been told of by a list, on whichever page, a get finds.  (Of other
\* names nothing is promised here: Get has no error for them.)
GetAgreesWithList == answer.name \in answer.found => answer.block = answer.name

\* The order of the start-up: the admission plugin has asked for its informer
\* before the hook starts the factory, so the plugin never waits for an informer
\* that nobody has started.
PluginInformerStarted ==
    enabled /\ hooked /\ ~stop => lister /\ listing[Reflector] # "no"

\* The pages come to an end: a client that goes on listing gets its answer.
ListingEnds ==
    \A c \in Users : listing[c] = "list" ~> listing[c] # "list" \/ phase # "serving"

\* "List takes label and field selectors, and returns the list of ChangedBlocks that
\* match those selectors" (the generated client): the plugin of a server that goes on
\* serving becomes ready.  It does not: the client asks for another resource.
PluginBecomesReady == enabled /\ phase = "serving" ~> synced[Reflector] \/ stop

\* A signal ends the process, in whatever state it arrives.
SignalEndsServer == stop ~> phase \in {"ended", "fatal"}

\* Page after page, and however often it begins again, a client that follows the
\* tokens gets the blocks in the order of their numbers, none of them twice, is told
\* how many are left, and takes them for the whole when it has them all.
InOrder == [i \in 1 .. Cardinality(Blocks) |-> i - 1]
Pager == INSTANCE Pager WITH
    Stored <- InOrder,
    store  <- cache
PagerSpec == Pager!Spec

=============================================================================
