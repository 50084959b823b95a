----------------------------- MODULE CrdExamples -----------------------------
(***************************************************************************)
(* The two programs of crd, "typed" and "dynamic": each starts a test      *)
(* environment (an API server and etcd), creates the resources of a        *)
(* directory file by file, lists the databases, and waits for a signal.    *)
(* They differ in what follows an error, in when the context of a request  *)
(* is released, and in where the list comes from: the typed program lists  *)
(* the cache of an informer, the dynamic one the API server.               *)
(***************************************************************************)
EXTENDS Naturals, Sequences

CONSTANTS
    Nil,
    Directories,  \* sequences of files, in the order of their names
    NamespaceOf,  \* the namespace of each database
    Demo,         \* the namespace that the dynamic program lists
    Default       \* a namespace that every API server has

VARIABLES
    program,  \* "typed" or "dynamic"
    dir,      \* the files of the resource directory
    phase,    \* where main is
    code,     \* exit code
    exit,     \* the buffered channel exit holds a signal
    env,      \* the test environment; "stopFailed": Stop returned an error
    informer, \* the typed program's: "none", "created", "started", "synced", "stopped"
    cache,    \* the databases in its cache
    file,     \* the file the loop is at
    calling,  \* its request is under way
    live,     \* files whose request context is not released
    failed,   \* files with an error
    created,  \* the objects whose creation was confirmed
    late,     \* objects of requests given up, which may yet be stored
    stored,   \* the objects in the API server
    listed    \* the databases found, Nil before

mainVars   == <<program, dir, phase, code, exit>>
loopVars   == <<file, calling, live, failed, created>>
serverVars == <<late, stored>>
vars == <<mainVars, env, informer, cache, loopVars, serverVars, listed>>

\* Of a file: whether its suffix is that of a manifest, whether createFuncs has its
\* name, and the object in it.
Files     == UNION {DOMAIN d : d \in Directories}
Objects   == UNION {{d[i].object : i \in DOMAIN d} : d \in Directories}
Databases == Objects \cap DOMAIN NamespaceOf

ASSUME DirectoriesAssumption ==
    Directories \subseteq Seq([manifest : BOOLEAN, known : BOOLEAN, object : Objects])

Phases == {"start", "init", "sync", "readdir", "loop", "list", "wait",
           "stop", "envstop", "ended"}

TypeOK ==
    /\ program \in {"typed", "dynamic"} /\ dir \in Directories
    /\ phase \in Phases /\ code \in 0 .. 2 /\ exit \in BOOLEAN
    /\ env \in {"none", "running", "stopped", "stopFailed"}
    /\ informer \in {"none", "created", "started", "synced", "stopped"}
    /\ cache \subseteq Databases
    /\ file \in 1 .. Len(dir) + 1 /\ calling \in BOOLEAN
    /\ live \subseteq DOMAIN dir /\ failed \subseteq DOMAIN dir
    /\ created \subseteq Objects /\ late \subseteq Objects
    /\ stored \subseteq Objects
    /\ listed \in {Nil} \cup SUBSET Databases

Init ==
    /\ program \in {"typed", "dynamic"} /\ dir \in Directories
    /\ phase = "start" /\ code = 0 /\ exit = FALSE
    /\ env = "none" /\ informer = "none" /\ cache = {}
    /\ file = 1 /\ calling = FALSE /\ live = {} /\ failed = {} /\ created = {}
    /\ late = {} /\ stored = {} /\ listed = Nil

Typed == program = "typed"

\* main goes on to phase p, or ends there.
GoTo(p, c) == phase' = p /\ code' = c /\ UNCHANGED <<program, dir, exit>>

-----------------------------------------------------------------------------
(* main *)

\* signal.Notify: a signal waits in the channel until main receives it.
Interrupt ==
    /\ ~exit /\ phase # "ended"
    /\ exit' = TRUE
    /\ UNCHANGED <<program, dir, phase, code, env, informer, cache, loopVars,
                   serverVars, listed>>

\* exitWithErr ends the process at once: no deferred function runs.
ExitWithErr(from) ==
    /\ phase = from /\ GoTo("ended", 1)
    /\ UNCHANGED <<env, informer, cache, loopVars, serverVars, listed>>

\* What is running when env.Start fails (the CRDs are last) stays.
StartEnv ==
    /\ phase = "start"
    /\ \/ env' = "running" /\ GoTo(IF Typed THEN "init" ELSE "readdir", 0)
       \/ env' \in {"none", "running"} /\ GoTo("ended", 1)
    /\ UNCHANGED <<informer, cache, loopVars, serverVars, listed>>

\* The factory creates the informer when it is asked for, and Start starts those
\* that have been created by then.
InformerFor(i)  == IF i = "none" THEN "created" ELSE i
StartFactory(i) == IF i = "created" THEN "started" ELSE i

\* client.Init: the clients, the factory, the informer's handler, Start.
InitClient ==
    /\ phase = "init" /\ GoTo("sync", 0)
    /\ informer' = StartFactory(InformerFor(informer))
    /\ UNCHANGED <<env, cache, loopVars, serverVars, listed>>

WaitForCacheSync ==
    /\ phase = "sync" /\ informer = "synced" /\ GoTo("readdir", 0)
    /\ UNCHANGED <<env, informer, cache, loopVars, serverVars, listed>>

ReadDir ==
    /\ phase = "readdir" /\ GoTo("loop", 0)
    /\ UNCHANGED <<env, informer, cache, loopVars, serverVars, listed>>

\* Mutant of CreateErrors: createResources returns err, which is nil.
ReturnErr == {}

\* The errors of the files: the typed program gives up, the dynamic one logs them.
CreateErrors == IF Typed THEN failed ELSE {}

LoopEnds ==
    /\ phase = "loop" /\ file > Len(dir)
    /\ IF CreateErrors # {} THEN GoTo("ended", 1) ELSE GoTo("list", 0)
    /\ UNCHANGED <<env, informer, cache, loopVars, serverVars, listed>>

StoredDatabases == stored \cap Databases
InNamespace(n)  == {o \in StoredDatabases : NamespaceOf[o] = n}

\* Typed: the informer's lister, of every namespace, after a second.
listDatabases == cache

\* Mutant of Found: the namespace is that of the object of the last file.
FoundInLastNamespace ==
    LET last == dir[Len(dir)].object IN
    IF Typed THEN listDatabases
    ELSE InNamespace(IF last \in Databases THEN NamespaceOf[last] ELSE Demo)

\* Dynamic: a request for one namespace, wherever the objects were created.
Found == IF Typed THEN listDatabases ELSE InNamespace(Demo)

List ==
    /\ phase = "list" /\ GoTo("wait", 0)
    /\ listed' = Found
    /\ UNCHANGED <<env, informer, cache, loopVars, serverVars>>

Deferred == IF Typed THEN "stop" ELSE "envstop"

ReceiveExit ==
    /\ phase = "wait" /\ exit
    /\ phase' = Deferred /\ exit' = FALSE
    /\ UNCHANGED <<program, dir, code, env, informer, cache, loopVars, serverVars,
                   listed>>

\* Deferred: stop <- struct{}{}, received by a goroutine of the informer.
StopInformer ==
    /\ phase = "stop" /\ informer = "synced" /\ GoTo("envstop", code)
    /\ informer' = "stopped"
    /\ UNCHANGED <<env, cache, loopVars, serverVars, listed>>

\* Mutant of StopEnv: Stop is not deferred.
ReturnFromMain ==
    /\ phase = "envstop" /\ GoTo("ended", code)
    /\ UNCHANGED <<env, informer, cache, loopVars, serverVars, listed>>

\* Deferred: env.Stop().  Its error is logged or dropped, and the exit code stays.
StopEnv ==
    /\ phase = "envstop" /\ GoTo("ended", code)
    /\ env' \in {"stopped", "stopFailed"}
    /\ UNCHANGED <<informer, cache, loopVars, serverVars, listed>>

-----------------------------------------------------------------------------
(* The loop over the files *)

AtFile == phase = "loop" /\ ~calling /\ file <= Len(dir)

\* Mutant of NextFile: the loop's increment comes on top of an explicit one.
NextButOne(f) == f + 2

NextFile(f) == f + 1

SkipFile ==
    /\ AtFile /\ ~dir[file].manifest
    /\ file' = NextFile(file)
    /\ UNCHANGED <<mainVars, env, informer, cache, calling, live, failed, created,
                   serverVars, listed>>

\* The file cannot be read or decoded.
DecodeFails == AtFile /\ dir[file].manifest

\* Dynamic: the discovered resources have no place for its kind.
gvrAndScopeFails == AtFile /\ dir[file].manifest /\ ~Typed

RejectFile ==
    /\ DecodeFails \/ gvrAndScopeFails
    /\ failed' = failed \cup {file} /\ file' = NextFile(file)
    /\ UNCHANGED <<mainVars, env, informer, cache, calling, live, created,
                   serverVars, listed>>

\* The name of the file is one of the table's.
createFunc(f) == dir[f].known

\* Typed: there is no function, and calling nil panics, with the context made and
\* cancel() not deferred; the deferred functions of main run.
CallNilFunc ==
    /\ AtFile /\ dir[file].manifest /\ Typed /\ ~createFunc(file)
    /\ live' = live \cup {file}
    /\ GoTo(Deferred, 2)
    /\ UNCHANGED <<env, informer, cache, file, calling, failed, created, serverVars,
                   listed>>

\* Dynamic: the constructor of a client panics, the first before the loop, another
\* for each manifest; the deferred functions run.
NewForConfigOrDie ==
    /\ ~Typed
    /\ phase = "readdir" \/ (AtFile /\ dir[file].manifest)
    /\ GoTo(Deferred, 2)
    /\ UNCHANGED <<env, informer, cache, loopVars, serverVars, listed>>

\* The request is sent, with a context of its own.
Create ==
    /\ AtFile /\ dir[file].manifest /\ (Typed => createFunc(file))
    /\ calling' = TRUE /\ live' = live \cup {file}
    /\ UNCHANGED <<mainVars, env, informer, cache, file, failed, created,
                   serverVars, listed>>

\* The API server stores a new object, a database only in a namespace it has.
Accepts(o) ==
    o \notin stored /\ (o \in Databases => NamespaceOf[o] \in stored \cup {Default})

CreateSucceeds ==
    /\ calling /\ file \in live /\ Accepts(dir[file].object)
    /\ stored' = stored \cup {dir[file].object}
    /\ created' = created \cup {dir[file].object}
    /\ calling' = FALSE /\ live' = live \ {file} /\ file' = NextFile(file)
    /\ UNCHANGED <<mainVars, env, informer, cache, failed, late, listed>>

\* Mutant of AfterError: the typed program forgets to cancel.
NeverCancels(f) == live

\* Typed: cancel().  Dynamic: the continue is taken before cancel.
AfterError(f) == IF Typed THEN live \ {f} ELSE live

\* An error, or no answer in time: what was asked for may be stored all the same.
CreateFails ==
    /\ calling
    /\ failed' = failed \cup {file}
    /\ calling' = FALSE /\ live' = AfterError(file) /\ file' = NextFile(file)
    /\ late' \in {late, late \cup {dir[file].object}}
    /\ UNCHANGED <<mainVars, env, informer, cache, created, stored, listed>>

\* Mutant of Deadline: the timer is that of the whole program.
DeadlineOfProgram(f) ==
    /\ f \in live /\ phase = "wait"
    /\ live' = live \ {f}
    /\ UNCHANGED <<mainVars, env, informer, cache, file, calling, failed, created,
                   serverVars, listed>>

\* context.WithTimeout: the timer releases a context that nobody has cancelled.
Deadline(f) ==
    /\ f \in live /\ phase # "ended"
    /\ live' = live \ {f}
    /\ UNCHANGED <<mainVars, env, informer, cache, file, calling, failed, created,
                   serverVars, listed>>

-----------------------------------------------------------------------------
(* The API server and the informer *)

StoreLate(o) ==
    /\ env \in {"running", "stopFailed"} /\ o \in late
    /\ late' = late \ {o}
    /\ stored' = IF Accepts(o) THEN stored \cup {o} ELSE stored
    /\ UNCHANGED <<mainVars, env, informer, cache, loopVars, listed>>

\* The informer's first list fills its cache.
ListDatabases ==
    /\ informer = "started" /\ phase # "ended"
    /\ informer' = "synced" /\ cache' = StoredDatabases
    /\ UNCHANGED <<mainVars, env, loopVars, serverVars, listed>>

\* Its watch brings a database into the cache.
WatchDatabases(o) ==
    /\ informer = "synced" /\ phase # "ended" /\ o \in StoredDatabases \ cache
    /\ cache' = cache \cup {o}
    /\ UNCHANGED <<mainVars, env, informer, loopVars, serverVars, listed>>

-----------------------------------------------------------------------------
MainStep ==
    \/ StartEnv \/ InitClient \/ WaitForCacheSync \/ ReadDir \/ LoopEnds \/ List
    \/ ReceiveExit \/ StopInformer \/ StopEnv
    \/ SkipFile \/ RejectFile \/ CallNilFunc \/ NewForConfigOrDie \/ Create

CreateReturns == CreateSucceeds \/ CreateFails

Next ==
    \/ Interrupt \/ MainStep \/ CreateReturns
    \/ ExitWithErr("init") \/ ExitWithErr("readdir")
    \/ ~Typed /\ ExitWithErr("list")
    \/ \E f \in DOMAIN dir : Deadline(f)
    \/ ListDatabases
    \/ \E o \in Objects : StoreLate(o) \/ WatchDatabases(o)

Spec == Init /\ [][Next]_vars

\* main runs, timers fire, and a call returns once its context is done; a server
\* need not answer a create, but it does answer the informer's list, or the program
\* would wait for ever.
Fairness ==
    /\ WF_vars(MainStep) /\ WF_vars(ListDatabases)
    /\ WF_vars(file \notin live /\ CreateReturns)
    /\ \A f \in Files : WF_vars(f \in DOMAIN dir /\ Deadline(f))

FairSpec == Spec /\ Fairness

-----------------------------------------------------------------------------
(* Properties *)

\* createResources keeps only the text of the last error, but it keeps one: the
\* typed program lists databases only when every manifest is in the API server.
ListsOnlyWhenAllStored ==
    Typed /\ listed # Nil =>
        \A i \in DOMAIN dir : dir[i].manifest => dir[i].object \in stored

\* Neither program reports a database that is not there, whatever was given up or
\* stored late; the dynamic one reports every database of namespace demo that it
\* was told is created, whatever other namespaces the files name.
ListingIsTruthful ==
    listed # Nil =>
        /\ listed \subseteq stored
        /\ ~Typed => {o \in created \cap Databases : NamespaceOf[o] = Demo} \subseteq listed

\* The contexts that outlive their request are those of creates that failed in the
\* dynamic program; the typed one has at most the context of the call it is in, or
\* of the call of nil that made it panic.
LeakedContexts ==
    live \subseteq (IF calling \/ (Typed /\ code = 2) THEN {file} ELSE {})
                   \cup (IF Typed THEN {} ELSE failed)

\* Unless it exits on an error, a program does not end without having called Stop
\* of the test environment, also when it panics; and it does so only after its
\* informer has taken the stop signal, so that nobody is left watching.
EnvironmentStopped ==
    /\ phase = "ended" /\ code # 1 => env \in {"stopped", "stopFailed"}
    /\ env \in {"stopped", "stopFailed"} => informer \in {"none", "stopped"}

\* An interrupt that arrives at any time, also while main is in a call that gets
\* no answer, ends the program.
InterruptEnds == exit ~> phase = "ended"

=============================================================================
