-------------------------- MODULE CrdExamplesProofs --------------------------
(***************************************************************************)
(* Proofs about CrdExamples, for every directory: the type invariant and   *)
(* the four safety invariants that the run checks on three directories.    *)
(***************************************************************************)
EXTENDS CrdExamples, TLAPS

\* A request is under way only in the loop, for a manifest of the directory.
CallsInLoop == calling => phase = "loop" /\ file \in DOMAIN dir

\* What the typed loop has behind it has failed or is stored.
Behind ==
    Typed => \A i \in DOMAIN dir :
        i < file /\ dir[i].manifest => i \in failed \/ dir[i].object \in stored

\* From the listing on the loop is over, in the typed program without an error.
LoopIsOver ==
    phase \in {"list", "wait"} \/ listed # Nil =>
        ~calling /\ file > Len(dir) /\ (Typed => failed = {})

\* What was confirmed, and what an informer has seen, is in the API server.
Known == created \subseteq stored /\ cache \subseteq stored

\* The code is set by the step that makes main end.
ExitCode == code # 0 => phase \in {"stop", "envstop", "ended"}

\* Only the typed program has an informer, which is stopped before the environment.
Order ==
    /\ phase \in {"init", "sync", "stop"} => Typed
    /\ ~Typed => informer = "none"
    /\ phase = "envstop" => informer \in {"none", "stopped"}
    /\ env \in {"stopped", "stopFailed"} => phase = "ended"

\* The inductive invariant.
IInv ==
    /\ TypeOK
    /\ CallsInLoop /\ Behind /\ LoopIsOver /\ Known /\ ExitCode /\ Order
    /\ ListingIsTruthful /\ LeakedContexts /\ EnvironmentStopped

-----------------------------------------------------------------------------
(* The directory *)

LEMMA DirFacts ==
    ASSUME NEW d \in Directories
    PROVE  /\ Len(d) \in Nat /\ DOMAIN d = 1 .. Len(d)
           /\ \A i \in DOMAIN d : d[i].object \in Objects
BY DirectoriesAssumption DEF Objects

\* The file that the loop is at exists.
LEMMA FileAt ==
    ASSUME TypeOK, file <= Len(dir)
    PROVE  /\ file \in DOMAIN dir /\ dir[file].object \in Objects
           /\ NextFile(file) \in 1 .. Len(dir) + 1
BY DirFacts DEF TypeOK, NextFile

\* A call is for a file of the directory.
LEMMA FileCalled ==
    ASSUME TypeOK, CallsInLoop, calling
    PROVE  /\ file \in DOMAIN dir /\ dir[file].object \in Objects
           /\ file <= Len(dir) /\ NextFile(file) \in 1 .. Len(dir) + 1
<1>1. dir \in Directories /\ file \in DOMAIN dir
  BY DEF TypeOK, CallsInLoop
<1>2. Len(dir) \in Nat /\ DOMAIN dir = 1 .. Len(dir)
  BY <1>1, DirFacts
<1> QED BY <1>1, <1>2, FileAt

LEMMA StoredDatabasesType ==
    ASSUME TypeOK
    PROVE  StoredDatabases \subseteq Databases /\ StoredDatabases \subseteq stored
BY DEF TypeOK, StoredDatabases, Databases

-----------------------------------------------------------------------------
LEMMA InitIInv == ASSUME Init PROVE IInv
<1>1. Len(dir) \in Nat /\ DOMAIN dir = 1 .. Len(dir)
  BY DirFacts DEF Init
<1>2. TypeOK
  <2>1. file \in 1 .. Len(dir) + 1 /\ code \in 0 .. 2
    BY <1>1 DEF Init
  <2> QED BY <2>1 DEF Init, TypeOK, Phases
<1>3. CallsInLoop /\ Behind /\ LoopIsOver /\ Known
  BY <1>1 DEF Init, CallsInLoop, Behind, LoopIsOver, Known
<1>4. ListingIsTruthful /\ LeakedContexts /\ EnvironmentStopped
  BY DEF Init, ListingIsTruthful, LeakedContexts, EnvironmentStopped
<1>5. ExitCode /\ Order
  BY DEF Init, ExitCode, Order, Typed
<1> QED BY <1>2, <1>3, <1>4, <1>5 DEF IInv

\* The program and its directory are chosen once.
LEMMA SameProgram == ASSUME Next PROVE program' = program /\ dir' = dir
<1>1. ASSUME MainStep PROVE program' = program /\ dir' = dir
  BY <1>1 DEF MainStep, StartEnv, InitClient, WaitForCacheSync, ReadDir, LoopEnds, List,
     ReceiveExit, StopInformer, StopEnv, SkipFile, RejectFile, CallNilFunc,
     NewForConfigOrDie, Create, GoTo, mainVars
<1>2. ASSUME CreateReturns PROVE program' = program /\ dir' = dir
  BY <1>2 DEF CreateReturns, CreateSucceeds, CreateFails, mainVars
<1>3. ASSUME NEW from, ExitWithErr(from) PROVE program' = program /\ dir' = dir
  BY <1>3 DEF ExitWithErr, GoTo
<1>4. ASSUME NEW f, Deadline(f) PROVE program' = program /\ dir' = dir
  BY <1>4 DEF Deadline, mainVars
<1>5. ASSUME NEW o, StoreLate(o) \/ WatchDatabases(o) PROVE program' = program /\ dir' = dir
  BY <1>5 DEF StoreLate, WatchDatabases, mainVars
<1>6. Interrupt \/ ListDatabases => program' = program /\ dir' = dir
  BY DEF Interrupt, ListDatabases, mainVars
<1> QED BY <1>1, <1>2, <1>3, <1>4, <1>5, <1>6 DEF Next

-----------------------------------------------------------------------------
(* Type correctness *)

LEMMA TypeStep == ASSUME TypeOK, CallsInLoop, Next PROVE TypeOK'
<1> USE DEF GoTo, mainVars, loopVars, serverVars, Phases
<1>d. /\ Len(dir) \in Nat /\ DOMAIN dir = 1 .. Len(dir)
      /\ program' = program /\ dir' = dir /\ dir \in Directories
  BY DirFacts, SameProgram DEF TypeOK
<1>1. CASE Interrupt
  BY <1>d, <1>1 DEF Interrupt, TypeOK
<1>2. CASE StartEnv
  BY <1>d, <1>2 DEF StartEnv, TypeOK
<1>3. CASE InitClient
  BY <1>d, <1>3 DEF InitClient, StartFactory, InformerFor, TypeOK
<1>4. CASE WaitForCacheSync \/ ReadDir \/ LoopEnds
  BY <1>d, <1>4 DEF WaitForCacheSync, ReadDir, LoopEnds, TypeOK
<1>5. CASE List
  <2>1. Found \subseteq Databases
    BY StoredDatabasesType DEF Found, InNamespace, listDatabases, TypeOK
  <2> QED BY <1>d, <1>5, <2>1 DEF List, TypeOK
<1>6. CASE ReceiveExit \/ StopInformer \/ StopEnv
  BY <1>d, <1>6 DEF ReceiveExit, StopInformer, StopEnv, Deferred, TypeOK
<1>7. CASE SkipFile \/ RejectFile
  <2>1. AtFile /\ file \in DOMAIN dir /\ NextFile(file) \in 1 .. Len(dir) + 1
    BY <1>7, FileAt DEF SkipFile, RejectFile, DecodeFails, gvrAndScopeFails, AtFile
  <2> QED BY <1>d, <1>7, <2>1 DEF SkipFile, RejectFile, TypeOK
<1>8. CASE CallNilFunc \/ NewForConfigOrDie
  <2>1. CallNilFunc => file \in DOMAIN dir
    BY FileAt DEF CallNilFunc, AtFile
  <2> QED BY <1>d, <1>8, <2>1 DEF CallNilFunc, NewForConfigOrDie, Deferred, TypeOK
<1>9. CASE Create
  <2>1. file \in DOMAIN dir
    BY <1>9, FileAt DEF Create, AtFile
  <2> QED BY <1>d, <1>9, <2>1 DEF Create, TypeOK
<1>10. CASE CreateSucceeds
  <2>1. /\ dir[file].object \in Objects /\ NextFile(file) \in 1 .. Len(dir) + 1
    BY <1>10, FileCalled DEF CreateSucceeds
  <2> QED BY <1>d, <1>10, <2>1 DEF CreateSucceeds, TypeOK
<1>11. CASE CreateFails
  <2>1. /\ file \in DOMAIN dir /\ dir[file].object \in Objects
        /\ NextFile(file) \in 1 .. Len(dir) + 1
    BY <1>11, FileCalled DEF CreateFails
  <2> QED BY <1>d, <1>11, <2>1 DEF CreateFails, AfterError, TypeOK
<1>12. ASSUME NEW from, ExitWithErr(from) PROVE TypeOK'
  BY <1>d, <1>12 DEF ExitWithErr, TypeOK
<1>13. ASSUME NEW f, Deadline(f) PROVE TypeOK'
  BY <1>d, <1>13 DEF Deadline, TypeOK
<1>14. CASE ListDatabases
  BY <1>d, <1>14, StoredDatabasesType DEF ListDatabases, TypeOK
<1>15. ASSUME NEW o, StoreLate(o) PROVE TypeOK'
  BY <1>d, <1>15 DEF StoreLate, TypeOK
<1>16. ASSUME NEW o, WatchDatabases(o) PROVE TypeOK'
  BY <1>d, <1>16, StoredDatabasesType DEF WatchDatabases, TypeOK
<1> QED BY <1>1, <1>2, <1>3, <1>4, <1>5, <1>6, <1>7, <1>8, <1>9, <1>10, <1>11, <1>12,
  <1>13, <1>14, <1>15, <1>16 DEF Next, MainStep, CreateReturns

-----------------------------------------------------------------------------
(* The loop *)

LEMMA CallsStep == ASSUME TypeOK, CallsInLoop, Next PROVE CallsInLoop'
<1> USE DEF GoTo, mainVars, loopVars, serverVars, CallsInLoop
<1>d. /\ Len(dir) \in Nat /\ DOMAIN dir = 1 .. Len(dir) /\ file \in Nat
      /\ dir' = dir /\ calling \in BOOLEAN
  BY DirFacts, SameProgram DEF TypeOK
<1>1. CASE Interrupt \/ ListDatabases
  BY <1>d, <1>1 DEF Interrupt, ListDatabases
<1>2. CASE StartEnv \/ InitClient \/ WaitForCacheSync \/ ReadDir
  BY <1>d, <1>2 DEF StartEnv, InitClient, WaitForCacheSync, ReadDir
<1>3. CASE LoopEnds \/ List \/ ReceiveExit \/ StopInformer \/ StopEnv
  <2>1. calling = FALSE
    BY <1>d, <1>3 DEF LoopEnds, List, ReceiveExit, StopInformer, StopEnv
  <2>2. calling' = calling
    BY <1>3 DEF LoopEnds, List, ReceiveExit, StopInformer, StopEnv
  <2> QED BY <2>1, <2>2
<1>4. CASE SkipFile \/ RejectFile \/ CallNilFunc \/ NewForConfigOrDie
  <2>1. calling = FALSE /\ calling' = FALSE
    BY <1>d, <1>4
    DEF SkipFile, RejectFile, DecodeFails, gvrAndScopeFails, CallNilFunc, NewForConfigOrDie,
        AtFile
  <2> QED BY <2>1
<1>5. CASE Create
  BY <1>d, <1>5, FileAt DEF Create, AtFile
<1>6. CASE CreateReturns
  BY <1>6 DEF CreateReturns, CreateSucceeds, CreateFails
<1>7. ASSUME NEW from \in {"init", "readdir", "list"}, ExitWithErr(from) PROVE CallsInLoop'
  BY <1>d, <1>7 DEF ExitWithErr
<1>8. ASSUME NEW f, Deadline(f) PROVE CallsInLoop'
  BY <1>d, <1>8 DEF Deadline
<1>9. ASSUME NEW o, StoreLate(o) \/ WatchDatabases(o) PROVE CallsInLoop'
  BY <1>d, <1>9 DEF StoreLate, WatchDatabases
<1> QED BY <1>1, <1>2, <1>3, <1>4, <1>5, <1>6, <1>7, <1>8, <1>9 DEF Next, MainStep

-----------------------------------------------------------------------------
(* The loop over the files *)

\* What one step does to the loop: it leaves the counter and the errors alone, or
\* passes a file, which is no manifest, has failed, or is stored.
PassesFile ==
    /\ phase = "loop" /\ phase' = "loop" /\ file \in DOMAIN dir
    /\ file' = file + 1 /\ calling' = FALSE
    /\ failed \subseteq failed'
    /\ dir[file].manifest => file \in failed' \/ dir[file].object \in stored'

StaysAtFile == file' = file /\ failed' = failed

LEMMA LoopStep ==
    ASSUME TypeOK, CallsInLoop, Next
    PROVE  (PassesFile \/ StaysAtFile) /\ stored \subseteq stored'
<1> USE DEF GoTo, mainVars, loopVars, serverVars, StaysAtFile
<1>1. CASE Interrupt \/ ListDatabases
  BY <1>1 DEF Interrupt, ListDatabases
<1>2. CASE StartEnv \/ InitClient \/ WaitForCacheSync \/ ReadDir
  BY <1>2 DEF StartEnv, InitClient, WaitForCacheSync, ReadDir
<1>3. CASE LoopEnds \/ List \/ ReceiveExit \/ StopInformer \/ StopEnv \/ CallNilFunc
           \/ NewForConfigOrDie
  BY <1>3 DEF LoopEnds, List, ReceiveExit, StopInformer, StopEnv, CallNilFunc,
              NewForConfigOrDie
<1>4. CASE SkipFile \/ RejectFile
  <2>1. AtFile /\ file \in DOMAIN dir /\ calling = FALSE
    BY <1>4, FileAt DEF SkipFile, RejectFile, DecodeFails, gvrAndScopeFails, AtFile, TypeOK
  <2> QED BY <1>4, <2>1 DEF SkipFile, RejectFile, AtFile, NextFile, PassesFile
<1>5. CASE Create
  BY <1>5 DEF Create
<1>6. CASE CreateSucceeds
  <2>1. phase = "loop" /\ file \in DOMAIN dir
    BY <1>6 DEF CreateSucceeds, CallsInLoop
  <2> QED BY <1>6, <2>1 DEF CreateSucceeds, NextFile, PassesFile
<1>7. CASE CreateFails
  <2>1. phase = "loop" /\ file \in DOMAIN dir
    BY <1>7 DEF CreateFails, CallsInLoop
  <2> QED BY <1>7, <2>1 DEF CreateFails, NextFile, PassesFile
<1>8. ASSUME NEW from, ExitWithErr(from) PROVE StaysAtFile /\ stored \subseteq stored'
  BY <1>8 DEF ExitWithErr
<1>9. ASSUME NEW f, Deadline(f) PROVE StaysAtFile /\ stored \subseteq stored'
  BY <1>9 DEF Deadline
<1>10. ASSUME NEW o, StoreLate(o) \/ WatchDatabases(o)
       PROVE  StaysAtFile /\ stored \subseteq stored'
  BY <1>10 DEF StoreLate, WatchDatabases
<1> QED BY <1>1, <1>2, <1>3, <1>4, <1>5, <1>6, <1>7, <1>8, <1>9, <1>10
    DEF Next, MainStep, CreateReturns

LEMMA BehindStep == ASSUME TypeOK, CallsInLoop, Behind, Next PROVE Behind'
<1>d. /\ Len(dir) \in Nat /\ DOMAIN dir = 1 .. Len(dir) /\ file \in Nat
      /\ dir' = dir /\ program' = program
  BY DirFacts, SameProgram DEF TypeOK
<1>1. stored \subseteq stored'
  BY LoopStep
<1>2. CASE StaysAtFile
  BY <1>d, <1>1, <1>2 DEF StaysAtFile, Behind, Typed
<1>3. CASE PassesFile
  <2> SUFFICES ASSUME Typed, NEW i \in DOMAIN dir, i < file', dir[i].manifest
               PROVE  i \in failed' \/ dir[i].object \in stored'
    BY <1>d DEF Behind, Typed
  <2>1. CASE i = file
    BY <1>3, <2>1 DEF PassesFile
  <2>2. CASE i < file
    BY <1>1, <1>3, <2>2 DEF PassesFile, Behind
  <2> QED BY <1>d, <1>3, <2>1, <2>2 DEF PassesFile
<1> QED BY <1>2, <1>3, LoopStep

\* The loop is left when it is over.
LEMMA OverStep == ASSUME TypeOK, CallsInLoop, LoopIsOver, Next PROVE LoopIsOver'
<1>d. /\ Len(dir) \in Nat /\ DOMAIN dir = 1 .. Len(dir) /\ file \in Nat
      /\ dir' = dir /\ program' = program /\ calling \in BOOLEAN
  BY DirFacts, SameProgram DEF TypeOK
<1> USE DEF GoTo, mainVars, loopVars, serverVars, LoopIsOver, Typed
<1>1. CASE Interrupt \/ ListDatabases
  BY <1>d, <1>1 DEF Interrupt, ListDatabases
<1>2. CASE StartEnv \/ InitClient \/ WaitForCacheSync \/ ReadDir
  BY <1>d, <1>2 DEF StartEnv, InitClient, WaitForCacheSync, ReadDir
<1>3. CASE LoopEnds
  <2>1. calling = FALSE
    BY <1>d, <1>3 DEF LoopEnds, CallsInLoop
  <2> QED BY <1>d, <1>3, <2>1 DEF LoopEnds, CreateErrors
<1>4. CASE List
  BY <1>d, <1>4 DEF List
<1>5. CASE ReceiveExit \/ StopInformer \/ StopEnv
  BY <1>d, <1>5 DEF ReceiveExit, StopInformer, StopEnv, Deferred
<1>6. CASE SkipFile \/ RejectFile \/ CallNilFunc \/ NewForConfigOrDie \/ Create
  BY <1>d, <1>6 DEF SkipFile, RejectFile, DecodeFails, gvrAndScopeFails, CallNilFunc,
     NewForConfigOrDie, Create, AtFile, Deferred
<1>7. CASE CreateReturns
  BY <1>d, <1>7 DEF CreateReturns, CreateSucceeds, CreateFails, CallsInLoop
<1>8. ASSUME NEW from, ExitWithErr(from) PROVE LoopIsOver'
  BY <1>d, <1>8 DEF ExitWithErr
<1>9. ASSUME NEW f, Deadline(f) PROVE LoopIsOver'
  BY <1>d, <1>9 DEF Deadline
<1>10. ASSUME NEW o, StoreLate(o) \/ WatchDatabases(o) PROVE LoopIsOver'
  BY <1>d, <1>10 DEF StoreLate, WatchDatabases
<1> QED BY <1>1, <1>2, <1>3, <1>4, <1>5, <1>6, <1>7, <1>8, <1>9, <1>10 DEF Next, MainStep

-----------------------------------------------------------------------------
(* What is stored, and what is reported *)

\* A listing follows the loop, so nothing is confirmed after it.
LEMMA StoredStep ==
    ASSUME TypeOK, CallsInLoop, LoopIsOver, Known, ListingIsTruthful, Next
    PROVE  Known' /\ ListingIsTruthful'
<1>d. program' = program /\ calling \in BOOLEAN
  BY SameProgram DEF TypeOK
<1> USE DEF GoTo, mainVars, loopVars, serverVars, Known, ListingIsTruthful, Typed
<1>1. CASE Interrupt
  BY <1>d, <1>1 DEF Interrupt
<1>2. CASE StartEnv \/ InitClient \/ WaitForCacheSync \/ ReadDir \/ LoopEnds
  BY <1>d, <1>2 DEF StartEnv, InitClient, WaitForCacheSync, ReadDir, LoopEnds
<1>3. CASE List
  <2>1. /\ Found \subseteq stored
        /\ ~Typed => {o \in created \cap Databases : NamespaceOf[o] = Demo} \subseteq Found
    BY DEF Found, InNamespace, listDatabases, StoredDatabases
  <2> QED BY <1>d, <1>3, <2>1 DEF List
<1>4. CASE ReceiveExit \/ StopInformer \/ StopEnv
  BY <1>d, <1>4 DEF ReceiveExit, StopInformer, StopEnv
<1>5. CASE SkipFile \/ RejectFile \/ CallNilFunc \/ NewForConfigOrDie \/ Create
  BY <1>d, <1>5 DEF SkipFile, RejectFile, CallNilFunc, NewForConfigOrDie, Create
<1>6. CASE CreateSucceeds
  <2>1. listed = Nil
    BY <1>6 DEF CreateSucceeds, LoopIsOver
  <2> QED BY <1>d, <1>6, <2>1 DEF CreateSucceeds
<1>7. CASE CreateFails
  BY <1>d, <1>7 DEF CreateFails
<1>8. ASSUME NEW from, ExitWithErr(from) PROVE Known' /\ ListingIsTruthful'
  BY <1>d, <1>8 DEF ExitWithErr
<1>9. ASSUME NEW f, Deadline(f) PROVE Known' /\ ListingIsTruthful'
  BY <1>d, <1>9 DEF Deadline
<1>10. CASE ListDatabases
  BY <1>d, <1>10, StoredDatabasesType DEF ListDatabases
<1>11. ASSUME NEW o, StoreLate(o) PROVE Known' /\ ListingIsTruthful'
  BY <1>d, <1>11 DEF StoreLate
<1>12. ASSUME NEW o, WatchDatabases(o) PROVE Known' /\ ListingIsTruthful'
  BY <1>d, <1>12, StoredDatabasesType DEF WatchDatabases
<1> QED BY <1>1, <1>2, <1>3, <1>4, <1>5, <1>6, <1>7, <1>8, <1>9, <1>10, <1>11, <1>12
    DEF Next, MainStep, CreateReturns

-----------------------------------------------------------------------------
(* What is left behind *)

\* The steps of main that end it, and those that cannot follow.
LEMMA EndStep ==
    ASSUME TypeOK, CallsInLoop, ExitCode, Order, Next
    PROVE  ExitCode' /\ Order'
<1>d. program' = program
  BY SameProgram
<1> USE DEF GoTo, mainVars, loopVars, serverVars, ExitCode, Order, Typed
<1>1. CASE Interrupt \/ ListDatabases
  BY <1>d, <1>1 DEF Interrupt, ListDatabases
<1>2. CASE StartEnv
  BY <1>d, <1>2 DEF StartEnv
<1>3. CASE InitClient \/ WaitForCacheSync \/ ReadDir \/ LoopEnds \/ List
  BY <1>d, <1>3 DEF InitClient, WaitForCacheSync, ReadDir, LoopEnds, List
<1>4. CASE ReceiveExit \/ StopInformer \/ StopEnv
  BY <1>d, <1>4 DEF ReceiveExit, StopInformer, StopEnv, Deferred
<1>5. CASE SkipFile \/ RejectFile \/ Create
  BY <1>d, <1>5 DEF SkipFile, RejectFile, Create
<1>6. CASE CallNilFunc \/ NewForConfigOrDie
  BY <1>d, <1>6 DEF CallNilFunc, NewForConfigOrDie, AtFile, Deferred
<1>7. CASE CreateReturns
  BY <1>d, <1>7 DEF CreateReturns, CreateSucceeds, CreateFails
<1>8. ASSUME NEW from, ExitWithErr(from) PROVE ExitCode' /\ Order'
  BY <1>d, <1>8 DEF ExitWithErr
<1>9. ASSUME NEW f, Deadline(f) PROVE ExitCode' /\ Order'
  BY <1>d, <1>9 DEF Deadline
<1>10. ASSUME NEW o, StoreLate(o) \/ WatchDatabases(o) PROVE ExitCode' /\ Order'
  BY <1>d, <1>10 DEF StoreLate, WatchDatabases
<1> QED BY <1>1, <1>2, <1>3, <1>4, <1>5, <1>6, <1>7, <1>8, <1>9, <1>10 DEF Next, MainStep

LEMMA ContextStep ==
    ASSUME TypeOK, CallsInLoop, ExitCode, LeakedContexts, Next
    PROVE  LeakedContexts'
<1>d. program' = program /\ calling \in BOOLEAN
  BY SameProgram DEF TypeOK
<1> USE DEF GoTo, mainVars, loopVars, serverVars, LeakedContexts, Typed, ExitCode
<1>1. CASE Interrupt \/ ListDatabases
  BY <1>d, <1>1 DEF Interrupt, ListDatabases
<1>2. CASE StartEnv \/ InitClient \/ WaitForCacheSync \/ ReadDir \/ LoopEnds
  BY <1>d, <1>2 DEF StartEnv, InitClient, WaitForCacheSync, ReadDir, LoopEnds
<1>3. CASE List \/ ReceiveExit \/ StopInformer \/ StopEnv \/ CallNilFunc \/ NewForConfigOrDie
  BY <1>d, <1>3 DEF List, ReceiveExit, StopInformer, StopEnv, CallNilFunc, NewForConfigOrDie
<1>4. CASE SkipFile \/ RejectFile
  <2>1. calling = FALSE /\ code = 0
    BY <1>d, <1>4 DEF SkipFile, RejectFile, DecodeFails, gvrAndScopeFails, AtFile
  <2>2. live \subseteq (IF Typed THEN {} ELSE failed) /\ code' # 2 /\ failed \subseteq failed'
    BY <1>4, <2>1 DEF SkipFile, RejectFile
  <2> QED BY <1>d, <1>4, <2>2 DEF SkipFile, RejectFile
<1>5. CASE Create
  BY <1>d, <1>5 DEF Create, AtFile
<1>6. CASE CreateReturns
  <2>1. calling /\ code = 0 /\ code' = 0
    BY <1>6 DEF CreateReturns, CreateSucceeds, CreateFails, CallsInLoop
  <2>2. CASE CreateSucceeds
    BY <1>d, <2>1, <2>2 DEF CreateSucceeds
  <2>3. CASE CreateFails
    BY <1>d, <2>1, <2>3 DEF CreateFails, AfterError
  <2> QED BY <1>6, <2>2, <2>3 DEF CreateReturns
<1>7. ASSUME NEW from \in {"init", "readdir", "list"}, ExitWithErr(from) PROVE LeakedContexts'
  BY <1>d, <1>7 DEF ExitWithErr
<1>8. ASSUME NEW f, Deadline(f) PROVE LeakedContexts'
  BY <1>d, <1>8 DEF Deadline
<1>9. ASSUME NEW o, StoreLate(o) \/ WatchDatabases(o) PROVE LeakedContexts'
  BY <1>d, <1>9 DEF StoreLate, WatchDatabases
<1> QED BY <1>1, <1>2, <1>3, <1>4, <1>5, <1>6, <1>7, <1>8, <1>9 DEF Next, MainStep

LEMMA EnvironmentStep ==
    ASSUME TypeOK, CallsInLoop, Order, EnvironmentStopped, Next
    PROVE  EnvironmentStopped'
<1> USE DEF GoTo, mainVars, loopVars, serverVars, EnvironmentStopped, Order
<1>1. CASE Interrupt \/ ListDatabases
  BY <1>1 DEF Interrupt, ListDatabases
<1>2. CASE StartEnv \/ InitClient \/ WaitForCacheSync \/ ReadDir \/ LoopEnds
  BY <1>2 DEF StartEnv, InitClient, WaitForCacheSync, ReadDir, LoopEnds
<1>3. CASE List \/ ReceiveExit \/ StopInformer \/ CallNilFunc \/ NewForConfigOrDie
  BY <1>3 DEF List, ReceiveExit, StopInformer, CallNilFunc, NewForConfigOrDie, Deferred
<1>4. CASE StopEnv
  BY <1>4 DEF StopEnv
<1>5. CASE SkipFile \/ RejectFile \/ Create
  BY <1>5 DEF SkipFile, RejectFile, Create
<1>6. CASE CreateReturns
  BY <1>6 DEF CreateReturns, CreateSucceeds, CreateFails
<1>7. ASSUME NEW from, ExitWithErr(from) PROVE EnvironmentStopped'
  BY <1>7 DEF ExitWithErr
<1>8. ASSUME NEW f, Deadline(f) PROVE EnvironmentStopped'
  BY <1>8 DEF Deadline
<1>9. ASSUME NEW o, StoreLate(o) \/ WatchDatabases(o) PROVE EnvironmentStopped'
  BY <1>9 DEF StoreLate, WatchDatabases
<1> QED BY <1>1, <1>2, <1>3, <1>4, <1>5, <1>6, <1>7, <1>8, <1>9 DEF Next, MainStep

-----------------------------------------------------------------------------
(* The theorems *)

LEMMA StepIInv == ASSUME IInv, [Next]_vars PROVE IInv'
<1>1. CASE Next
  BY <1>1, TypeStep, CallsStep, BehindStep, OverStep, StoredStep, EndStep, ContextStep,
     EnvironmentStep DEF IInv
<1>2. CASE UNCHANGED vars
  BY <1>2 DEF vars, mainVars, loopVars, serverVars, IInv, TypeOK, CallsInLoop, Behind,
     LoopIsOver, Known, ExitCode, Order, ListingIsTruthful, LeakedContexts,
     EnvironmentStopped, Typed
<1> QED BY <1>1, <1>2

\* The inductive invariant holds in every reachable state.
THEOREM Invariance == Spec => []IInv
<1>1. Init => IInv
  BY InitIInv
<1>2. IInv /\ [Next]_vars => IInv'
  BY StepIInv
<1> QED BY <1>1, <1>2, PTL DEF Spec

\* Every reachable state is well typed: the loop, which creates a file per step, never
\* runs past the end of the directory, also when it skips, fails and gives up files.
THEOREM TypeCorrect == Spec => []TypeOK
BY Invariance, PTL DEF IInv

\* createResources loses the texts of all errors but the last, and no error: whatever
\* the directory, the typed program lists databases only after every manifest is stored.
THEOREM ListsAfterAll == Spec => []ListsOnlyWhenAllStored
<1>1. IInv => ListsOnlyWhenAllStored
  <2> SUFFICES ASSUME IInv, Typed, listed # Nil, NEW i \in DOMAIN dir, dir[i].manifest
               PROVE  dir[i].object \in stored
    BY DEF ListsOnlyWhenAllStored
  <2>1. i < file /\ failed = {}
    BY DirFacts DEF IInv, TypeOK, LoopIsOver
  <2> QED BY <2>1 DEF IInv, Behind
<1> QED BY <1>1, Invariance, PTL

\* Neither program reports a database that is not stored, and the dynamic one reports
\* all those of namespace demo whose creation was confirmed, whatever else the
\* directory names.
THEOREM TruthfulListing == Spec => []ListingIsTruthful
BY Invariance, PTL DEF IInv

\* cancel() is missed only where the dynamic loop continues after an error, and for
\* the call that makes the typed program panic.
THEOREM FewLeaks == Spec => []LeakedContexts
BY Invariance, PTL DEF IInv

\* Only exitWithErr ends a program that has not called Stop, at whatever step it or a
\* panic comes; and Stop is called with no informer left watching.
THEOREM StopsEnvironment == Spec => []EnvironmentStopped
BY Invariance, PTL DEF IInv

=============================================================================
