# A verification project for ihcsim/controllers

The repository is a collection of Kubernetes controllers and API servers
written in Go. The one with a protocol of its own is the **kubelet upgrade
controller** (`src/upgrade/kubelet`): on a cron schedule it cordons, drains and
uncordons the nodes that a `KubeletUpgrade` object selects, with several
goroutines, a shared work queue, an informer cache and optimistic concurrency
against the API server. The other programs are the **pod lister**, the
**snapdiff** aggregated API server, and two **crd** examples; behind three of
the four are generated clients, informers and deep copies. This project models
all of them in TLA+, checks them with TLC on small instances, and proves their
safety properties with TLAPS.

Contents: [inventory](#1-inventory), [modules](#2-modules-and-code),
[abstractions](#3-abstractions), [runs](#4-runs),
[fairness](#5-fairness), [proofs](#6-proofs),
[where comments and code disagree](#7-where-comments-and-code-disagree),
[what is not modelled](#8-what-is-not-modelled), [plan](#9-plan).

## 1. Inventory

### Kubelet upgrade controller (`upgrade/kubelet`)

| part | state | operations |
|---|---|---|
| `Controller` (`pkg/controller/controller.go`) | `workqueues` (one queue per object name), the shared `drainer`, the ticker | `Reconcile`, `pollSchedules`, `poll`, `updateNextScheduledTime`, `canUpgrade`, `enqueueMatchingNodes`, `startUpgrade`, `runWorker`, `upgradeKubelet`, `recordUpgradeStatus` |
| `KubeletUpgrade` (`pkg/apis/.../types.go`) | spec (schedule, selector, maxUnavailable), label `skip`, status (next scheduled time, conditions) | `UpdateNextScheduledTime`, `RecordUpgradeStarted`, `RecordUpgradeCompleted`, each on a deep copy |
| label selectors (`pkg/controller/labels/selector.go`) | none | `ExcludedNodes`, `ExcludedKubeletUpgrade` |
| `main` (`main.go`) | the clientsets, the stop channel | `handleSignal` (only `os.Interrupt`), `Reconcile`, exit |
| work queue (client-go) | `queue`, `dirty`, `processing`, `shuttingDown` | `Add`, `Len`, `Get`, `Done`, `ShutDown` |
| kubectl's drain package, the API server | the nodes, HTTP | used, not part of the repository's own code |

*Interaction.* Two kinds of goroutine call `poll`: the loop of `Reconcile`, on
every tick for every cached object without the skip label, and the informer's
`AddFunc`, once for every object it sees for the first time. A poll first renews
the next scheduled time if it is missing or five minutes old, then decides
whether the upgrade is due, queues the matching nodes and, in a goroutine it
waits for, runs `startUpgrade`: record "started" (`UpdateStatus`, then
`Update`), start workers while `i < queue.Len()`, wait for them, record the
outcome, and set a new time. Each worker takes one node from the queue and
cordons, drains and uncordons it, with one `drain.Helper` shared by all workers.
An error goes through a channel to a collector goroutine.

*What is hard.* Nothing is locked: the queue's own mutex and the API server's
resource versions are all that keeps the pollers apart. The loop that starts
workers reads a length that its own workers change. `errs`, `drainer.Ctx` and
the map of queues are shared without synchronisation. Decisions are taken on
cached copies (of the objects, and of the nodes: the drainer is given the lister's
`*Node`), with a time that was read before a list of blocking calls. A
process can end between any two requests, and a request that timed out may have
been carried out.

*What makes it correct.* No node is worked on twice at a time and no queued node
is forgotten; a node is drained only while cordoned, as far as the cached copy allows,
and left schedulable after a success; control-plane nodes are never touched; every failure reaches the
recorded outcome; every run ends and `stop` ends `Reconcile`; an upgrade starts
only when the *stored* object is enabled and due, an outcome is recorded only
for a started upgrade, and a missed schedule is always renewed.

### Generated clients, informers, listers and deep copies

Three programs use code made by the Kubernetes generators, for four types:
`KubeletUpgrade`, `Database`, and `ChangedBlock` in its version `v1alpha1` and
in its internal version.

| part | state | operations |
|---|---|---|
| clientset | a client for the group, one for discovery, the rate of their requests | `NewForConfig`, `setConfigDefaults`, the accessors |
| informer factory | the informers by type, which of them run | `InformerFor`, `Start`, the chains of accessors, `ForResource` |
| informer and lister | a cache that the reflector fills by list and watch | `ListFunc`, `WatchFunc`, `List`, `Get`, the notifications |
| `zz_generated.deepcopy.go`, `conversion.go` | none | `DeepCopyInto` of every type, the conversion between the `ChangedBlock`s |

*What is hard.* The lister and the notifications hand out pointers into the
cache, to be "treated as read-only"; the controller keeps them for as long as an
upgrade takes and writes labels, conditions and times to copies of them. A watch
may expire, and the list that follows may come from an older state. `Start` runs
only what has been requested by then.

*What makes it correct.* The cache lags behind the API server and does nothing
else; all goroutines have the informer that runs; the cache catches up.

### Pod lister (`podlister/main.go`)

State: two unbuffered channels, the buffered signal channel, a context, the
metrics server, the ticker goroutine. A list goroutine per tick sends its result
to `main`. Hard: the `break`s leave a `select` and not the loop around it, so
after a signal both loops go on; a call without a deadline ends only with the
context. Correct: no list goroutine stays blocked, and a signal ends the calls.

### Snapdiff server (`snapdiff`)

State: the storage's constant map of pages, the admission plugin's factory,
informer and lister, the steps of the start-up. Operations: `Complete`,
`Validate`, `Config`, `Run` with its post-start hook; `Get`, `List` and `Watch`
of the storage; the clients that follow the continue tokens, one of which is the
server itself over its loopback connection. Hard: the order of registration,
initialization and hook; tokens, pages and counts that are separate constants;
lists that break between two pages. Correct: the pages add up to the storage,
an informer that says it has synced has everything, the plugin's informer is
started before anybody waits for it, and a signal ends the server at any time.

### CRD examples (`crd/typed`, `crd/dynamic`)

State: a test environment (an API server and etcd, started by the program), the
files of a directory, a context per request, the typed program's informer.
Operations: create a resource per file, aggregate or log the errors, list the
databases, wait for a signal, and stop what was started, in deferred functions.
Hard: creates that time out and are carried out later; objects of other namespaces
than the one that is listed; `continue` before `cancel()`; exits that skip the
deferred functions; panics; a table of functions that does not have every name. Correct: what is listed is stored; an interrupt at any time
ends the program; what is left running is what the exit path leaves.

### Everything else

`cbt-aggapi` is documentation. The rest of the 4953 files is vendored code,
fake clientsets, OpenAPI tables, manifests and build files.

## 2. Modules and code

An arrow points to the module that is extended; "implements" is an `INSTANCE`
with a refinement mapping and its abstract specification as a property.

```
Workqueue <-- UpgradeRun <-- MCUpgradeRun              one upgrade run
    ^             |  ^------ UpgradeRunProofs <-- RunWorkersProofs
    |             `--- implements NodeRollout
    `-- WorkqueueProofs

KubeletUpgrade <-- Reconcile <-- MCReconcile           scheduling
                       |  ^----- ReconcileProofs
                       `--- implements UpgradeLifecycle

DeepCopy <-- Clientset <-- InformerFactory <-- SharedInformer <-- MCSharedInformer
                                                   |  ^---------- SharedInformerProofs
                                                   `--- implements LaggingCache

SnapdiffServer <-- MCSnapdiffServer, SnapdiffServerProofs
    `--- implements Pager
CrdExamples    <-- MCCrdExamples,    CrdExamplesProofs
PodLister      <-- MCPodLister,      PodListerProofs
```

**Workqueue** holds the methods of client-go's queue as operators on a record
with the Go fields. Each method holds the queue's lock throughout, so each is
one step. `Get` blocks by not being enabled. The library is vendored under
`src/snapdiff/vendor`, which is the text the operators translate. `Consistent`
states the contract the comment at the field `queue` gives, with its converse.

**UpgradeRun** is a run of `startUpgrade` with everything around it in the
process. `pc[p]` is where poller `p` is: `idle`, `enqueue`
(`enqueueMatchingNodes` and the test `queue.Len() == 0`), `record` (the started
condition), `spawn` (the loop), `wait` (`wg.Wait`), `complete` (the deferred
function). Worker `<<p, i>>` is the goroutine with `workerID` `i`: `get`,
`cordon` (before `cordonNode` has stored its context), `cordoning` (in the
library's call), `drain`, `uncordoning`, `done` (the deferred `queue.Done`),
`send` (`errChan <-`), `exit`. `node[w]` is what the `*Node` says that worker `w` got
from the lister, and `marked` the nodes of which an unschedulable version has
existed. `notice` is the notification that `AddFunc` gets once per object and
process: the object of the informer's first list, fresh until a run stores
something. Panics, `os.Interrupt`, a kill and a restart are actions; a restart keeps
only the cluster's state (`unsched`, `marked`, `condition`).

| action | code (`controller.go` unless named) |
|---|---|
| `StartPoll`, `EnqueueNode`, `CheckQueue` | `poll` 211-249, `enqueueMatchingNodes` 291-345; `Matching` is `labels/selector.go` |
| `RecordStarted` | 442-449 |
| `SpawnWorker`, `SpawnedAll`, `WaitReturns` | 464-475 |
| `CollectorReceives`, `CollectorAppends` | 433-440 |
| `RecordCompleted`, `CompletePanics` | 451-462 |
| `WorkerGets`, `WorkerShutDown`, `WorkerPanics`, `WorkerDone`, `WorkerSends` | `runWorker` 488-523, the goroutine 467-470 |
| `Cordon`, `Listed`, `CallDrainer`, `CordonReturns`, `DrainReturns`, `UncordonReturns` | `upgradeKubelet` 525-557, `cordonNode`, `uncordonNode` 559-573 |
| `Interrupt`, `ReconcileReturns`, `Exit`, `Kill`, `Restart` | `main.go` 25-59, `Reconcile` 126-160 |

**NodeRollout** is what a user of the nodes relies on: somebody claims a node for
an upgrade that manages it, nobody else has it for that upgrade, and a node is
cordoned or uncordoned only by a claimant. `UpgradeRun` implements it
(`RolloutSpec`): a claim is a worker between `Get` and `Done`.

**KubeletUpgrade** is the object and the pure functions on it: the three methods
of `types.go`, and the conditions in `updateNextScheduledTime` and `canUpgrade`.

**Reconcile** is the scheduling half: the stored objects (`api`), the informer's
copies (`cache`), its notifications (`announce`, `pending`), the list a tick
works through (`batch`), and for each poller its position, object, copy and the
value of `now` it was called with. Every request to the API server is a step of
its own: `SetNextTime`, `RecordStarted` and `StartedSpec` (the two requests of
`recordUpgradeStatus`), `RecordCompleted`, `CompletedSpec`, `ForceNextTime`.
Where the code goes on with a nil object after an error, the poller's `pc` is
`nil` and its next step is `Panic`. What the workers do to the nodes is one step
with either result, `RunWorkers`.

*How the two halves fit.* `Reconcile`'s `RunWorkers` takes any time and may have
either result; `UpgradeRun`'s `StartPoll` may find an upgrade due at any time.
Each half therefore allows whatever the other one really does, and what is
shown of it holds of the whole controller. What neither shows is how the
errors of the workers become the recorded result across both; within
`UpgradeRun` that is `ErrorsAccounted` and the run `UpgradeRun_errors`.

**UpgradeLifecycle** is what a user of the controller relies on: the life of a
stored object. The next time only moves forward; an upgrade starts when due and
enabled according to the stored object; an outcome is recorded only for a
started one. `Reconcile` implements it (`LifecycleSpec`), under the identity
mapping on `api` and `clock`; all other variables are internal.

**DeepCopy** translates the generated `DeepCopyInto` functions and the
conversions. An object is a function from its fields that refer to memory to
what they refer to: `Nil`, memory of its own, or that of a cached version. A
copy shares a field until the generated code gives it memory.

**Clientset** is `NewForConfig` with the clients it makes: which config each
works on, the checks on its rate that make it fail, which types the codec knows.
**InformerFactory** is the generated factory for one type: `InformerFor`, `Start`,
the chains `Clusterop().V1alpha1().KubeletUpgrades()` and their like, `ForResource`.

**SharedInformer** puts them together in the program that uses them: main makes
its clientsets and the factory, registers a handler, starts the factory, waits
for the cache; the reflector lists and watches through the generated `ListFunc`
and `WatchFunc`; the ticker loop and the handler get pointers from the lister and
from notifications, and send copies they have written to. A write is recorded
in `dirty` when it reaches a cached object.

| action | code |
|---|---|
| `NewClientset`, `ClientsetFails`, `NewFactory` | the programs' `main`, `clientset.go` |
| `RegisterHandler`, `Start`, `WaitForCacheSync` | `New`, `Reconcile`, `syncCache`, `factory.go` |
| `ListFunc`, `WatchFunc`, `WatchExpires` | the informers' constructors, `List` and `Watch` of the typed clients |
| `TickerLists`, `TickerGets`, `AddFunc`, `LookUpGeneric` | the listers, the handler, `generic.go` |
| `SendNextTime`, `SendStarted`, `SendCompleted`, `UseCopy`, `ConvertCopy` | `types.go`, the deep copies, the conversions |

**LaggingCache** is what `Reconcile` assumes of its cache: some past version,
never an older one than before, and never altered. `SharedInformer` implements it
(`LaggingSpec`), with `altered` mapped to `dirty # {}`.

**SnapdiffServer** is the server from `main` to its end, its storage and its
clients. `Complete` to `Shutdown` are the steps of `main`; `RecommendedConfig`
contains `ApplyTo`, which initializes the enabled plugins; `PostStartHook` starts
the factory. `Get` and `List` are the storage's methods; `ListRequest` is a
page for a client, which follows the tokens and fills its store with the last one;
`ListFails` and `WatchEnds` make it begin again. `NotRouted` is the answer to a
path or a method that is not installed.

**Pager** is what the clients of a paged list may expect: page after page more of
what is stored, from the start, in order, without a gap or a repetition; the
right number of what is left on every page; and a whole that is complete, taken
for it only with the last page. `SnapdiffServer` implements it (`PagerSpec`) with
the blocks of `data.go` in their order as `Stored` and the client's `cache` as its
`store`; tokens, pages, the server's start-up and its end are internal.

**CrdExamples** is both programs; they differ in `CreateErrors`, `AfterError`,
`Found`, `Deferred` and in who asks `createFunc`: the typed program lists its
informer's cache, the dynamic one the namespace `demo` of the API server, wherever
its files have put their objects. A request that is given up may be stored later
(`late`, `StoreLate`). `CallNilFunc` and `NewForConfigOrDie` are the panics, and
`StopEnv` has both results of `Stop`.

**PodLister** is `podlister/main.go`: the steps of the start-up, any of which may
end the program, the metrics server, the ticker goroutine's `select` (`StartList`,
`ContextDone`, with `TimerFires` for the timer each iteration makes), the list
goroutines (`ListReturns`, a call that ends by itself or with its context), and
main's `select` (`Receive`, `ReceiveExit`). The `break` of both selects leaves the
`select` and not the loop, so there is no action that ends a loop. The two
settings read from the environment are chosen in `Init`.

## 3. Abstractions

Of the controller:

- **Resource versions.** The code never looks at a resource version, the API
  server only compares it with the stored one. A copy of an object carries a flag
  `fresh` instead; every write of the stored object clears it on all other
  copies. A write from a copy that is not fresh is a conflict. A write that
  changes nothing keeps the version, as in the API server. In `UpgradeRun`, which
  has no objects, the flag alone is kept (`stale`), for the writes of other runs;
  a conflict with a write from outside a run (a user's edit, a poll that only
  renews the time) has the outcomes of a failed call and belongs to `"error"`.
- **Subresource.** `crd.yaml` enables the status subresource: `StatusOf` ignores
  labels and spec of the request, `SpecOf` ignores its status.
- **Failures of a request.** An error is a conflict or a missing object (nothing
  is stored), or a timeout (`"error" \in Faults`), after which the write may or may
  not have taken place. `updateNextScheduledTime` uses a context without a
  timeout; for it the error stands for a lost connection.
- **Time** is counted in minutes, the ticker's unit, and `LookBack` stands for the
  five minutes of the code. Durations are not bounded: `clock` may advance between
  any two steps. A cron schedule is any function that returns a later time
  (`CronAssumption`); one that does not parse is `BadSchedule`.
- **Conditions.** Of the list of conditions the status of the last one is kept;
  nothing in the controller reads the earlier ones.
- **Nodes.** Which nodes the lister returns is any subset of the matching ones.
  A node that disappears shows as the outcome `notFound` of a call. Nobody but
  the controller changes `Spec.Unschedulable`.
- **Copies of nodes.** `upgradeKubelet` gets a `*Node` from the lister and hands it to
  both calls of the drainer. `Listed` says what it may say: schedulable always (the
  cache lags behind a cordon), unschedulable if an unschedulable version has existed.
  `"outdated"` is such a copy of a node that is schedulable in the API server; the
  code cannot tell it from `"unschedulable"`. Two workers may have been given the
  same object (`WriteNode`).
- **The drainer.** kubectl's drain package is not in the repository (`go.mod` asks for
  v0.21.2). `RunCordonOrUncordon` decides on the object it is given: if that says what
  is desired there is no request, and no error; otherwise it writes the desired value
  into the object, shared with the cache, and then sends the difference. With a
  cancelled context the request fails; a drain may fail because the context of
  `cordonNode` is cancelled by the time it starts, unless another worker's context
  has taken its place; any call may fail (`Faults`), and a failed request may have been
  carried out. The context in the shared `drainer` is the worker that stored it. It is
  not asked which pods a drain evicts.
- **The racy read of `errs`** is an interleaving: the collector's receive and its
  append are steps of their own, and `startUpgrade` may read `errs` before them.
- **The process.** `handleSignal` handles `os.Interrupt` alone, so SIGTERM is a
  `Kill`. A panic of any goroutine ends the process. The loop of `Reconcile`
  after `stop`, the deferred `ShutDown` of the queues and the return of `main`
  are separate steps: the handler's goroutines go on in between.
- **The queues** exist from the start of the process. The map that holds them is
  written without a lock by several goroutines, which is a data race the model
  does not contain (see section 8).

Of the other programs:

- **Memory** (`DeepCopy`). Of an object only the fields that refer to memory are
  kept (maps, slices, pointers); the rest is copied by `*out = *in` and cannot
  be shared. Memory is not addressed: it is nil, nobody else's, or a cached
  version's. That is all that decides whether a write can be seen in the cache.
- **Flow control** (`Clientset`): a token bucket is named by the clientset and the
  client it was made for, and decides only whether `NewForConfig` refuses the config.
- **One object** (`SharedInformer`) is followed through its versions, with the
  fields that are nil in each. The reflector is client-go's; it is modelled by
  the calls it makes: a list that returns no older version than the one asked for,
  a watch that delivers the next event, an expiry.
- **The storage** (`SnapdiffServer`) has the nine blocks of `data.go` as numbers;
  the pages are constants of the code and stay constants. Flags and certificates
  are steps that may fail. Paths are compared letter by letter.
- **The test environment** (`CrdExamples`) either starts or does not, and either stops
  or does not (`stopFailed`, after which it may still be there). A file has
  a manifest's suffix or not, a name the table has or not, and an object; an
  undecodable file is any file at the time it is read. A database has a namespace
  (`NamespaceOf`), and is only accepted where that namespace exists.
- **The calls of the pod lister** end with an error, with pods, or not at all. The
  values of its counter are not kept.

Bounds on what the programs do not limit: `MaxTime` (guard of `ClockAdvances`);
the guard `pending[u] = None` of `CreateUpgrade`, by which at most one notification
per name waits for the handler; `MaxVersion` (guard of `Store` in
`SharedInformer`); `Lookups`, the informers that a factory may create, which the
code never reaches because it creates one; and `Lists`, the number of list
goroutines of the pod lister at a time. `UpgradeRun` needs none: a run starts at
most one worker per queued node. The theorems hold for every value of them.

## 4. Runs

All runs finish; the longest takes about three and a half minutes.

| run | instance | question |
|---|---|---|
| `UpgradeRun_single` | the ticker alone; `u1` selects two nodes and has `maxUnavailable` 0 (unbuffered channel), `u2` selects one of them and a control-plane node, buffer 1; errors, vanishing nodes and kills | what holds of a run without a competing poller |
| `UpgradeRun_shared` | ticker and handler, one upgrade, two nodes, an unbuffered error channel; kills, and calls that fail because a context is cancelled | what the work queue guarantees when one upgrade is run twice at once |
| `Reconcile_faults` | ticker and handler, one upgrade, timeouts, kills, users who edit, label and delete at any moment; two minutes, window of one, a schedule every two minutes | the life of the stored object |
| `Reconcile_live` | the ticker, two upgrades, four minutes, window of two, fairness | overlap of runs, starts at the ends of the window, renewal of times |
| `SharedInformer_copies` | all four types, two goroutines, three versions, a look-up by every accessor | what the programs may expect of their caches |
| `SnapdiffServer_paging` | one client and the server's own, lost pages, plugin enabled or not, a start-up that may fail, a signal at any moment | pages, order of the start-up, end |
| `CrdExamples_both` | both programs over four directories (the example's own; one with a file that is no manifest and one the table does not have; one whose namespace comes after a database; one whose last database is of the namespace `default`) | errors, late creates, exits |
| `PodLister_live` | three list goroutines, both settings of either environment variable, signals at any moment | does every list goroutine end |
| `UpgradeRun_errors`, `_stuck`, `Reconcile_label`, `SnapdiffServer_ready` | the smallest instance that shows it | section 7 |

What each property says, and what would break it.

*One upgrade run.*

- `QueueContract` — every queue is consistent, and its `processing` set is
  exactly what its workers hold, under any interleaving of two pollers, their
  workers, shutdown, crash and restart. A forgotten `Done` breaks it.
- `NodeExclusive` — two workers never hold the same node for the same upgrade.
  It is the reason `Add` does not queue an item that is being processed: the mutant
  that does is caught.
- `RolloutSpec` — `UpgradeRun` implements `NodeRollout`. It says of steps what
  `NodeExclusive` says of states, and that nobody without a claim changes a node.
- `ControlPlaneUntouched` — the exclusion in the selector reaches to the cluster.
- `DrainOnlyCordoned`, `SuccessUncordons` — the node's state in the API server and the
  worker's position agree, although the drainer decides on copies that lag, that
  another worker has been given too, and that a failed call has written into, and
  although each worker's calls may fail because of another's context. There is one
  exception, and `DrainOnlyCordoned` names it: a copy that says unschedulable already
  when the worker gets it, of a node that is schedulable (section 7). That an
  uncordon is always sent, so that `SuccessUncordons` needs no exception, follows
  from `cordonNode` having been given the same copy. Of a node that two upgrades
  select both are false, because every upgrade has a queue of its own; they are
  stated for a node that one upgrade selects, also while others run.
- `WorkersHaveKeys` — with one poller, a worker never blocks in `Get`
  (`KeyForEach`), and a run leaves at most as many nodes in the queue as it has
  started workers (`AtMostHalfLeft`: "all kubelets are upgraded" it does not
  promise, see section 7, but never less than half). Nothing in the loop says so:
  it follows from `i < queue.Len()` and from the fact that a worker takes only one
  node and puts none back.
- `ErrorsAccounted` — failures sent equal errors accumulated, in the
  collector's hand, or buffered.
- `OwnContext` — a worker that is the only one of its run calls `cordonNode` and
  `uncordonNode` with its own live context. With more workers it is false, by
  `drainer.Ctx`.
- `RunReturns`, `StopHonoured` — liveness of a run and of shutdown, with one poller.

*Scheduling.*

- `FreshCopiesAgree` — optimistic concurrency as the code uses it: whatever copy
  carries the current version is the stored object (`CopiesAgree`), and of
  overlapping runs of one upgrade only one carries it and can have its outcome
  stored (`OneOwner`). It depends on the code continuing with the object a request
  *returns*.
- `StartsDue` — when "started" is stored, the stored object is enabled and in the
  window of the poll that took the decision, several requests earlier, on a copy.
  The window's last instant belongs to `canUpgrade` and to
  `updateNextScheduledTime` at once: an upgrade starts there only if its schedule
  does not parse, since otherwise a later time has just been stored.
- `LifecycleSpec` — `Reconcile` implements `UpgradeLifecycle`.
- `NoOverlap` — with the ticker alone and no lost process, an upgrade is not started
  again before its outcome is recorded.
- `EventuallyRescheduled` — an enabled upgrade with a valid schedule and a
  missing or expired time gets a new one. In this run stale copies lead to
  conflicts, conflicts inside a run to panics, and panics to restarts; none of
  them prevents the renewal. Under a process that is killed again and again it
  does not hold, so kills are not part of this run.

*Caches.*

- `LaggingSpec` — `SharedInformer` implements `LaggingCache`: no write of a
  goroutine to what it made of a cached object is seen in the cache. A deep copy
  that leaves out one slice breaks it, and so would a list that goes back.
- `OneInformer` — whoever asks the factory, by whichever accessor and at whatever
  time, gets the informer that runs.
- `CatchesUp` — liveness of the start-up and of the watch.

*Snapdiff server.*

- `PagerSpec`, `SyncedIsComplete`, `ListingEnds` — the three constants of a page
  (token, items, remaining count) fit together: following the tokens gives every
  block once, in order, with the right count, and comes to an end. `PagerSpec`
  says it of steps, as a refinement: a page that repeats a block, skips one, or
  ends a list early is no step of `Pager`.
- `GetAgreesWithList` — the two methods search the same pages: a get finds every block
  that a list has shown to a client. Of names that no list shows it says nothing,
  because there the code does not do what its comment says (section 7).
- `PluginInformerStarted` — registration, initialization and the hook come in the
  order in which the plugin's informer is there to be started.
- `SignalEndsServer` — at any step of the start-up, and while watches are open.

*CRD examples.*

- `ListsOnlyWhenAllStored` — only the text of the last error is kept, but one is:
  the typed program goes on only when every manifest is stored.
- `ListingIsTruthful` — what is listed is stored, although the typed program
  lists a cache and creates that timed out are stored late; and the dynamic program
  lists every database of `demo` that it was told is created. Databases that the
  files put into other namespaces it never lists.
- `LeakedContexts` — the contexts that outlive their request are those of failed
  creates of the dynamic program, where `continue` comes before `cancel()`, and the
  one that the typed program has made when the table has no function for a file.
- `EnvironmentStopped` — only an exit on an error skips `Stop`, a panic does not; and
  `Stop` is called after the informer has taken its stop signal. Whether `Stop`
  succeeds the programs do not look at, and the property does not claim it.
- `InterruptEnds` — also when it arrives during a create that gets no answer.

*Pod lister.*

- `ResultsReceived` — no list goroutine blocks for ever on an
  unbuffered channel, also after a signal. It holds *because* main's `break`
  does not leave its loop: the mutant in which it does is caught.
- `SignalEndsLists` — a call without a deadline ends after a signal.

`TypeOK` of each module is checked in one of its runs. In `Reconcile`,
`SharedInformer` and `SnapdiffServer` it also excludes dereferencing an object
that is not there, an object with memory of unknown origin, and a token that the
storage does not know.

*Why the bounds suffice.* Two pollers are all the kinds there are (a handler is
one goroutine), and two of them on one object already show every conflict; a
third object or poller adds no new kind of step. Two nodes make two workers of
one run or one of each run meet at a queue and at the drainer, and the
re-queueing of a node in `Done`. In `Reconcile_faults` the clock goes up to the
first activation, where an upgrade starts with a copy that users and timeouts
have made old; that a window expires and a time is missed is reached in
`Reconcile_live`, whose clock passes the window of the first activation and whose
`LookBack` of 2 has a first, an inner and a last instant; the theorems cover all
combinations. Three versions of an object are enough to create, change and
delete it, and to keep an old notification meanwhile. One client of the
storage next to the server's own meets every page with and without a failure;
clients do not influence each other. The four directories contain each kind of
file and databases of two namespaces, in an order that fails and in ones that do
not. The passing runs between them take every action. `PairSymmetry` exchanges the
two worker nodes, which no definition distinguishes, and is used only in runs without
liveness properties.

`CHECK_DEADLOCK FALSE` is set where the program may really stop: the pod lister
and the snapdiff server after a fatal error, the CRD examples when they end,
`SharedInformer` when its config is refused or its bounds are reached.

## 5. Fairness

`UpgradeRun`: weak fairness on each poller's, collector's and
worker's steps — the Go scheduler runs every goroutine that can run, and every
call to the API server and the drainer has a timeout. Strong fairness on
`ReconcileReturns`: the loop comes back to its `select` again and again, and
Go chooses at random among the ready cases, so a closed `stop` is not passed
over for ever. Not assumed: that a poll starts, that the user interrupts, that a
process that ended is restarted.

`Reconcile`: weak fairness on the tick, on the informer's delivery,
on the pollers' steps and on the restart of a process that has ended (the
deployment's restart policy). Not assumed: that objects are created, that time
advances, that a call succeeds.

`SharedInformer`: weak fairness on main's steps and on the list; strong fairness
on `WatchFunc`, which says that the server does not forget the version of every
single watch before its first event. Not assumed: that anybody writes.

`SnapdiffServer`: weak fairness on main and on the hook; strong fairness on
`ListRequest` for each client and page, which says that of a request that is
repeated for ever some attempt gets through. Not assumed: that a page gets
through the first time, that a watch ends, that a signal comes.

`CrdExamples`: weak fairness on main, on timers and on the informer's first list;
a create returns once its context is released. Not assumed: that a server answers
a create, that the watch delivers, that an abandoned create is stored.

`PodLister`: weak fairness on main's steps and receives (its `select` chooses at
random among the ready cases and goroutines wait in order), and on the return of a call
whose context is done. A call without a deadline need not return, and neither
ticks nor signals are forced.

## 6. Proofs

All theorems hold for every value of the constants: every number of pollers,
upgrades, nodes, clients, goroutines and versions, all selectors,
all values of `maxUnavailable`, `LookBack` and `MaxTime`, all schedules, all
directories and all sets of faults. They rest on the named assumptions of the
modules, which TLC evaluates in the runs:

| module | assumptions |
|---|---|
| `UpgradeRun` | the ticker is one of the pollers; the set of nodes is finite; selectors and `maxUnavailable` have their types; `None` is none of the other values; `Faults` are among the three kinds |
| `KubeletUpgrade`, `Reconcile` | `LookBack` and `MaxTime` are positive; a schedule's next activation is later than now; `BadSchedule` is no schedule; `None` as above |
| `SharedInformer` | the two goroutines differ; the types are the four known ones; bounds are numbers; `Nil`, `Own` and the versions are different (`MemoryAssumption`) |
| `SnapdiffServer` | the server's own client is none of the users |
| `CrdExamples` | a directory is a sequence of files |

Five theorems have a further hypothesis, written in their statement.
`KeysForWorkers` and `RunNeverStuck` assume `[]Apart`: at no time do two pollers
run the same upgrade (they may run different ones, at the same time).
`LoneWorkerHasContext` and `KeysForTicker`, the case of `Reconcile`'s loop without
the handler, assume `Alone` (the ticker is the only poller); `Alone` implies
`Apart`. `RunsDoNotOverlap` assumes `Undisturbed` (also no timeouts, kills and
edits). Without it they are false, and the code allows what it excludes.

**WorkqueueProofs** — `AddKeeps`, `GetKeeps`, `DoneKeeps`, `ShutDownKeeps`,
`EmptyQueueContract`: each method keeps a queue's type and its contract, if
`Done` is called for an item that is being processed. They are stated for any
queue and cited by the proofs below. `QueueBound`: a consistent queue is no
longer than the set of items it is made of.

**UpgradeRunProofs** — the inductive invariant `IInv` adds to `TypeOK`,
`QueueContract`, `NodeExclusive` and `ControlPlaneUntouched` three facts that
none of them says:

- `RunShape`: a poller that is past `idle` has an upgrade, only pollers in
  `spawn` or `wait` have workers at work, and slots from `spawned` on are unused
  — without it a worker's key could not be attributed to a queue;
- `QueueKeys`: only nodes that match the upgrade are queued, hence
  `Len(queue) <= |Nodes|` and the next worker's slot exists (a queue without
  duplicates is no longer than the set of its items);
- `HeldKeys`: a worker holds a matching node exactly between `Get` and `Done`.

From it: `TypeCorrect`, `QueuesKeepContract`, `OneWorkerPerNode`,
`ControlPlaneSafe`, and `ImplementsRollout`: a step changes the set of claims by
the worker that takes it, `QueueContract` shows that what it takes was nobody's,
and `HeldKeys` that who changes a node has it. `DrainInv` relates the copy that a
worker was given to its node, if no other upgrade selects the node (`CopyFits`):
before the cordon the copy is schedulable, outdated, or right; in `drain` it says
unschedulable, and then the node is cordoned or the copy was outdated; before the
uncordon it says unschedulable, so that a request is made; after a success the node
is schedulable. It is inductive because a step that changes the node, or writes into
a copy of it, is a step of the worker that holds it (`OneWorkerMoves`), and by
`NodeExclusive` no other worker of the upgrade does (`OwnNode`). From it:
`DrainsCordonedNodes`, which shows that an outdated copy is the *only* way in which
a schedulable node is drained, with any number of runs, failures, crashes and
cancelled contexts; and `SuccessLeavesSchedulable`.

**RunWorkersProofs** — what is counted, and where a run can stop.

- `NoErrorLost` follows failures from the worker through the channel to `errs`; its
  lemmas say how appending and taking the first element change the number of
  `TRUE`s in a sequence. `HonestOutcomes` draws the conclusion for what is recorded:
  never "failed" without a failed worker, and exactly the truth whenever the
  collector has appended what it was sent. What is left of the hazard is the
  window that `UpgradeRun_errors` shows, and nothing else.
- `OneWorkerPerMatch`: with any number of concurrent runs, also of one upgrade, a
  run starts at most one worker per matching node. This is the bound the code
  has in place of `maxUnavailable`; `QueueKeys` and `QueueBound` give it.
- `KeysForWorkers`: the number of workers before `Get` stays within the length of
  the queue (`KeyForEach`). It needs that a worker ends after one key, that nobody
  else takes keys, and `NoneRequeued`: while a run lasts no node is added, so none
  is put back by `Done`. The same facts bound what is left in the queue.
- `RunIsBounded`, `OnlyGetBlocks` and `RunNeverStuck` are the safety part of
  `RunReturns`. Ranks of the positions of a poller and a worker show that each step
  of a run takes one part of it forward and that nobody sets it back, so that a
  run has finitely many steps. `OnlyGetBlocks` shows, for any number of runs of the
  same upgrade and any `maxUnavailable` (0 included), that a run without a possible
  step has a worker in `Get` of an empty queue: the channel, its collector and
  `wg.Wait` never block each other. `RunNeverStuck` excludes that case while the
  pollers are apart. What fairness adds, that a possible step is taken, stays
  with TLC.
- `LoneWorkerHasContext` shows that no other worker can store its context in the
  drainer while a lone worker is in a call.

**ReconcileProofs** — `IInv` is `TypeOK`, `FreshCopiesAgree` and `PollerKnows`:
what a poller knows at each position (outside `idle` and `nil` it has
a copy of the object; `now[p] <= clock`; at `start` its copy is due and enabled;
from there on the copy's next time is not later than `now[p]`; from the moment
"started" is stored until the outcome is, its copy says "started").
`PollerKnows` talks about the poller's copy, `FreshCopiesAgree` carries it over
to the stored object at the moment a request is accepted. From the two:
`TypeCorrect`, `FreshCopies`, `StartsWhenDue`, and `Implements`, whose proof maps
every action to an action of `UpgradeLifecycle` or to a stuttering step.
`RunsDoNotOverlap` needs `OneRun` on top: an object is stored as started only
while the ticker runs it *with a current copy*, so that the write of the outcome
is accepted and the run cannot end in a panic that leaves "started" behind.
`ControllerWrites` says of every step of a poll that it stores at most the status
of one request; from it `LabelNeverStored`: no step of the controller changes the
label or the schedule of a stored object, in any order of requests and failures.
`FreshCopies` includes `OneOwner`: a run that stores "started" takes the current
version away from every other.

**SharedInformerProofs** — `OneCreated` (the factory has created at most one
informer, and all who have looked it up have it), `BeforeStart` (nothing is looked
up or announced before the factory is there), `MadeFromConfig` (every clientset is
what `NewForConfig` makes of main's config) and `Behind` (the cache is behind and
nobody has written to it). The lemma `CopyOwns` is the heart of `Implements`:
whatever the object refers to, its copy refers to nil or to memory of its own, in
every type.

**SnapdiffServerProofs** — `Position` (what a client has received is determined by
the token it holds), `ReflectorWaits` (the server's own client asks for nothing
before the hook) and `StartUp` (what the start-up of an enabled plugin has behind
it). From them `Paging` (what has been received is an initial segment, with the
right count), `CompleteCaches`, `GetsWhatIsListed` and `InformerBeforeHook`.
`Implements` shows that the server implements `Pager`: a request is a next page or
the last one, a lost page or a repeated list is a restart, and every other step
leaves the lists alone. `PluginNeverReady`: the informer of the plugin has not
synced and holds nothing, in every reachable state of every execution, because
no request of it is routed.

**CrdExamplesProofs** — `CallsInLoop` (a request is under way only in the loop),
`Behind` (every manifest that the typed loop has behind it is stored or has
failed), `LoopIsOver` (a list comes after the last file, in the typed program
without a failure), `Known` (what was confirmed, and what an informer has seen,
is stored), `ExitCode` (it is set by the step that makes main end, so that the
context of a panic is the only one of its call) and `Order` (the informer is
stopped before the environment).

**PodListerProofs** — its type invariant, and `ListsWhileMainReceives`: a list
goroutine, a timer that has fired and a cancelled context exist only while main is
in its loop. It is the safety part of `ResultsReceived`.

Every invariant and every safety property of the passing runs is proved.
*Only model-checked* is what needs fairness, because liveness and `ENABLED` are
out of the prover's reach: `RunReturns`, `StopHonoured`, `EventuallyRescheduled`,
`CatchesUp`, `ListingEnds`, `SignalEndsServer`, `InterruptEnds`,
`ResultsReceived`, `SignalEndsLists`.

## 7. Where comments and code disagree

Each of these is a run that stops with a counterexample.

| comment | what the run shows |
|---|---|
| "gather errors from all the workers" (`controller.go` 433) | `UpgradeRun_errors`: `errs` is read while the collector still has an error to append; a failed run is recorded as completed |
| "It will block until stop is closed" (124) | `UpgradeRun_stuck` (`StopIsNoticed`): two runs of one upgrade over two nodes start two workers each; each run gets one of the nodes, and its other worker waits in `Get`, its poller in `wg.Wait`. With `stop` closed no goroutine has a step to take, and `Reconcile` does not return: only `Reconcile` itself would shut the queue down |
| "add new label to show upgrade has started" (`types.go` 102) | `Reconcile_label`: the label goes with `UpdateStatus`, which ignores it, and the object it returns replaces the one with the label |
| "List takes label and field selectors, and returns the list of ChangedBlocks that match those selectors" (the generated `changedblock.go` 77) | `SnapdiffServer_ready`: the server installs the resource as `changedBlocks` (`config.go` 44), the client asks for `changedblocks`; the server's own informer never gets its list, and the plugin never becomes ready |

How the code gets there in the second: a process is restarted while an upgrade is
due. `AddFunc` is given the object of the first list and starts the upgrade, which
stores "started". The next tick comes within the five minutes of the window, its
cached copy has caught up with that write, and nothing in `canUpgrade` looks at the
condition: it starts the same upgrade, over the same queue. The other order is not
possible: a write of the ticker leaves the handler's object behind (`notice`), whose
own write is then a conflict and ends the process in a panic. It takes two nodes for
both runs to be short of one: with a single node one of the two always comes to its
end, the ticker's by returning to `Reconcile`, the handler's in a panic, because the
ticker's write has outdated its copy (the invariant holds of that
instance). It is stated as an invariant, without fairness: the state is a deadlock
of the process.

Three of them are also theorems, which say how far the disagreement goes: the
label is stored in no execution (`LabelNeverStored`); the plugin's informer syncs in
no execution, with any scheduling (`PluginNeverReady`); and a wrong outcome is
always "completed", never "failed", and only while the collector still has an error
in hand or in the buffer (`HonestOutcomes`). For the fourth, `OnlyGetBlocks` shows
that there is no other way for a run to be stuck.

The following are facts of the code that need no run of their own; the models
contain them.

- "we want number of workers to be min(maxUnavailable, len(queue))"
  (`controller.go` 426): `numWorkers` is computed and never used; there are as many
  workers as the loop finds keys, whatever `maxUnavailable` says, and at most one
  for every matching node (`OneWorkerPerMatch`).
- "It remained blocked until all the kubelets are upgraded" (417): a worker that
  takes its key while the loop is still starting others ends the loop, and
  `startUpgrade` returns with nodes in the queue; with one run at a time, with at most
  as many as it has started workers.
- "the current system time is equal to or 5 minutes after the next scheduled time"
  (269): `now` is read once per tick; after the first upgrade of the list the
  second starts on the old time. `StartsDue` therefore speaks of the poll's time.
- "ok to continue" (447), after which the nil `updatedClone` is dereferenced:
  `WorkerPanics` and `CompletePanics` in `UpgradeRun`, `Panic` in `Reconcile`.
- "expected node %s to be cordoned" (`controller_test.go` 634, where the node comes
  from the API server): `upgradeKubelet` gives `cordonNode` a copy from the lister. If
  that says unschedulable already, because the cache is behind the uncordon of an
  earlier run, or because a cordon that failed has written into the cached object,
  `cordonNode` makes no request and returns no error, and a schedulable node is
  drained, to which evicted pods may come back. `DrainOnlyCordoned` excepts exactly
  this, the ghost value `"outdated"`; without the exception TLC finds the trace with
  one node and two pollers, and `DrainsCordonedNodes` shows that there is no other.
- "IsNotFound(err) is true for the returned error value err when the specified
  resource is not found" (`memory.go` 32-33): `Get` returns an empty object and no
  error for a name that does not exist. `Get` of the model does so for `Unknown`.
- `crd/dynamic/main.go` 50-54 logs the error of `env.Stop`, `crd/typed/main.go` 45 drops
  it: the exit code is 0 with the environment still running (`stopFailed`).
- `crd/dynamic/main.go` 149 lists the namespace `demo`, 116 creates in the namespace of
  the object: a database of another namespace is created and never shown.
- `crd/typed/resource.go` 45-46: the context is made before the function is looked up;
  when there is none, the panic leaves it to its timer.
- `crd/typed/resource.go` 57: `err` is wrapped where `errs` should be, so of several
  errors the last is kept.
- `snapdiff/pkg/.../validation.go`: its condition is inverted, and nothing calls it.

## 8. What is not modelled

- `Controller.workqueues` itself, a Go map with unsynchronised writers: the Go
  runtime ends the process when it notices; two queues created for one name would
  lose the nodes in the first. The queues of the model are there from the start.
- The rate limiter and `AddRateLimited`: `Result.Retry` is never set.
- Data races on the memory of a cached `*Node`: the drainer reads and writes the field
  `Unschedulable` of a shared object without a lock; the model has the values, each
  read and write at once.
- Events, logging, flag parsing, reading a kubeconfig: I/O without an effect on
  the modelled state.
- The type assertions and `MetaNamespaceKeyFunc` errors of `enqueueNode`,
  `runWorker` and `poll`: informers deliver objects of one type.
- `syncCache` returning an error because `stop` closed first: `Reconcile` returns,
  as in `ReconcileReturns` of an idle ticker.
- Of the generated packages, what no program calls: their `NewForConfigOrDie` and `New`,
  `DeleteCollection` and the other unused verbs, the options of a factory, the
  expansion interfaces, the `doc.go` files. `ForResource`, the lister's `Get` and
  the client of the internal version are modelled although no program uses them,
  because they share the state of those that are used.
- The fake clientsets, which only tests use, and `zz_generated.openapi.go`, 2522
  lines of schema data that no program imports.
- `Validate` of the admission plugin: the storage has no verb that reaches it.
- The library code behind the programs (client-go's reflector, the generic API
  server, envtest), except as the models use it.

## 9. Plan

Done: all programs of the repository; abstract specifications for the nodes, the
stored objects, the cache and the pager, each with the detailed specification shown to
implement it by TLC and by proof; liveness for every program.

What is left, in this order:

1. `UpgradeRun` and `Reconcile` composed for one object, so that the outcome that
   is stored is related to the workers of the same run. The instance has to be one
   poller, one object and one node to stay within minutes.
2. The map `workqueues` as a variable of `UpgradeRun`, with the lazy creation in
   `queue` as a read and a write.
3. Proofs: the safety part of `EventuallyRescheduled` and `StopHonoured`, in the
   manner of `RunIsBounded` and `RunNeverStuck`, and the theorems of the composition
   of 1.
