# LogPilot: a verification development

TLA+ modules, TLC configurations and TLAPS proofs for the log collector in this
repository. Paths below are relative to the repository root; the agent's packages are
under `internal/log-pilot-agent/`, abbreviated `agent/`.

## 1. The system

Users write policies (`LogPilotPolicy`, `ClusterLogPilotPolicy`). The *API webhook*
copies the policies that match a pod into an annotation and gives its containers a log
volume. The *agent*, one per node, watches the pods of its node and runs one *pipeline*
for each container and log type: Input, Transforms, Output, Clean. Policies of cluster
scope are collected by one agent, which holds a Lease. The *operator* deploys all this
and writes the status of policies.

| Part | State | Operations | Interacts with |
|---|---|---|---|
| Runner, `agent/runner` | `cancel`, `done`, `sent`, the batch in hand, the contexts of Run and of the drain | Run, Stop, shutdown, Lag, Sent | calls Input, Transforms, Output, Clean; stopped by the watcher |
| Clean strategies, `agent/clean` | none; acts on the log directory | Clean (never, afterCollected, retain) | called at the end of shutdown; deletes what the directory input reads |
| Directory input, `agent/input/dir.go` | current file, inode, offset, reader; done inodes; state file | ReadBatch, Commit, Close, Lag | the application rotates, truncates, appends; Clean and the watcher delete |
| Kubernetes event input, `agent/input/k8sevent.go` | queue of 1000, last and read resource version, version file | one list-and-watch goroutine per namespace; ReadBatch, Commit, Close | API server |
| Object state input, `agent/input/k8sobjectstate.go` | queue of 1000 | list-and-watch per resource; ReadBatch, Close | API server |
| Pod watcher, `agent/watcher` | `seen`, `runners` | Start, syncPods, consumePodWatch, OnPodAdd, onPodDeleted, StopAll | API server; starts and stops Runners; removes log directories; writes the status map |
| Cluster collector lease, `agent/watcher` | the Lease object; `clusterSeen`, `runners` | reconcileClusterPolicies, acquireClusterPolicyLease, stopRunner | agents of other nodes, through the API server |
| Status server, `agent/status` | map of runners | UpdateRunner, RemoveRunner, IsDone | written by the goroutines of the runners |
| Transforms, outputs, `agent/transform`, `agent/output` | an open file or an HTTP client | Transform, WriteBatch, Close | called by the Runner |
| Log path, `agent/watcher/symlink.go`, `internal/log-pilot-api` | symlinks; injected volumes | ensureLogPath; the webhook's injection | must agree on the directory |
| Operator, `internal/log-pilot-operator` | a cache and a work queue for each of three kinds | Reconcile of the LogPilot (finalizer, the objects that run the system), Reconcile and validation of the policies | API server; the webhook's own process, which writes its certificate into an object of the operator |

What is hard here: Stop may meet a pipeline in any of its waits; a failed or ambiguous
write is repeated; crashes fall between a write and its commit; files are rotated,
truncated and deleted under the reader; agents race for a Lease whose renewal period is
its lifetime; runners are started and stopped by goroutines that share only a map. The
list `hazards` of `PROJECT.json` names each place by line, with the properties that
watch it.

What makes each part correct:

* Runner: the durable offset passes only what was sent, filtered, or given up on
  purpose; nothing behind it is sent again; files go only behind a complete drain;
  Run returns after Stop; every record is settled in the end.
* Lease: a foreign Lease is taken only when expired; collectors overlap only as far as
  an expired Lease permits; a dead collector is replaced.
* Directory input: every complete line is read once, in order, over rotations and
  restarts; what was read is committed as such.
* Event input: no event is passed over but where the code goes on from a version that is
  not the goroutine's own; every goroutine ends at Close.
* Object state input: the records end with the state of each object, never with an older one.
* Pod watcher: the runners are those of the pods; a deleted pod's runner drains before
  its directory goes.
* Operator: retries reach the desired objects; the finalizer goes last; the webhook's
  certificate survives.
* Policies: what is accepted can be built, for the version that was judged; a Runner reads
  the place its container writes to.

## 2. Modules

| Module | Role |
|---|---|
| `AtLeastOnce` | abstract specification: delivery behind a durable checkpoint |
| `Runner` | one pipeline of the agent (`agent/runner/runner.go`), with its environment |
| `RunnerProofs` | theorems about `Runner`, and that it implements `AtLeastOnce` |
| `ClusterLease` | the agents of several nodes and the Lease of one cluster policy (`agent/watcher/watcher.go`) |
| `MCClusterLease` | `ClusterLease` with the symmetry of the nodes, for TLC |
| `ClusterLeaseProofs` | theorems about `ClusterLease` |
| `DirInput` | one log directory, the application that writes it, and its Input (`agent/input/dir.go`) |
| `MCDirInput` | `DirInput` with the symmetry of inodes and names, for TLC |
| `DirInputProofs` | theorems about `DirInput`: its types |
| `DirReadingProofs` | theorems about what the reader of `DirInput` reads and what its state file covers; extends `DirInputProofs` |
| `PodWatcher` | the pods of a node, the agent's watcher and the goroutines it starts (`agent/watcher/watcher.go`, `agent/status`) |
| `MCPodWatcher` | `PodWatcher` with the policies of its pods, for TLC |
| `PodWatcherProofs` | theorems about `PodWatcher` |
| `ListWatch` | what both Kubernetes inputs share: the API server and its versions, the queue, the ends of a goroutine |
| `K8sEventInput` | the event input (`agent/input/k8sevent.go`); extends `ListWatch` |
| `K8sObjectStateInput` | the object state input (`agent/input/k8sobjectstate.go`); extends `ListWatch` |
| `KubeInput` | the input of a cluster policy's Runner, of one kind or the other; composes the two |
| `MCKubeInput` | `KubeInput` with objects and collectors, for TLC |
| `KubeInputProofs` | theorems about `KubeInput`, that is about both Kubernetes inputs |
| `Operator` | the LogPilot controller, its cache and the objects it manages (`log-pilot-operator/logpilot_controller.go`, `deploy.go`) |
| `OperatorProofs` | theorems about `Operator` |
| `Policies` | a policy's way: the operator's validation, the webhook's injection, the agent's Runners and log paths |
| `MCPolicies` | `Policies` with two policies' specifications and two kinds of pod, for TLC |
| `PoliciesProofs` | theorems about `Policies` |

`Runner` and `Operator` have their bounds as constants and are checked as they are, under
their own configurations.

### Runner

Records are the numbers `1..appended`. `pos` is the Input's read position, `saved` the
offset on disk, `hand` the batch between ReadBatch and Commit. `pc` is the next step of
Run, and `phase` says whether Run's own loop or shutdown's runs it: the two loops share
applyTransforms and writeBatch under different contexts (`CtxDone`). `cancelFn` is the
field `cancel` with its three values: unset, the stub that an early Stop leaves, or the
cancel function of runCtx.

| Code | Action |
|---|---|
| prologue of Run | `Run` |
| condition of the loop | `CheckLoop` |
| ReadBatch, its three outcomes | `ReadRecords`, `ReadNothing`, `ReadFails` |
| the 200 ms pause | `Idle` |
| applyTransforms | `ApplyTransforms` |
| writeBatch: success, error, next try, context done | `WriteOk`, `WriteFails`, `Retry`, `GiveUp` |
| Commit and `sent` | `Commit` |
| entry and exit of shutdown's loop | `BeginDrain`, `EndDrain` (operators of the actions above) |
| Input.Close | `CloseInput` |
| Output.Close, Clean, `close(done)` | `Finish` |
| Stop; the 5 s timer | `Stop`, `DrainExpires` |
| application, crash, next start of the agent | `Append`, `Crash`, `Restart` |

An empty ReadBatch is possible at any time, because an Input returns one when its
context is done and when it keeps a read error to itself (`dir.go:111-115`); a drain may
therefore end with records unread. A failed WriteBatch may have stored any first part of
the batch, or all of it with the answer lost. Commit may leave the old offset behind,
since its errors are ignored; the state file itself is replaced by a rename, so it is
never torn. `delivered`, `dropped`, `gaveUp`, `drainCut`, `wiped` and `stopAsked` are
history, read by the properties only.

### ClusterLease

One policy, several agents. `holder` and `age` are the Lease; `fresh[n]` says that the
object node n has read is still the stored one, which is what the resourceVersion in its
Update tests. Time is kept as ages that saturate above the TTL, so the clock itself has
no bound. `nowAge[n]` is how long ago the current try took its `now`: a stored Lease gets
that age, as in the code, where RenewTime is taken before the Get and the Update.

| Code | Action |
|---|---|
| Start up to the first reconcile | `Start` |
| the 30 s ticker, whose channel holds one tick | `Tick`, `TakeTick` |
| List of the policies, and the loop over those that are gone | `List` |
| the three tries of acquireClusterPolicyLease | `Get`, `Create`, `Update` with `BeginTry`, `EndTry`, `TryAgain`, `Store`, `CallFails` |
| startClusterPolicyRunner | `Granted` |
| a refused Lease, stopRunner and its 30 s | `Refused`, `StopReturns` |
| the runner of the policy returns from Run | `RunnerDone` |
| SIGTERM and StopAll; a crash | `Exit`, `Crash` |
| users | `EditPolicy` |

`Prompt` and `MaxLate` bound, when asked for, how long an agent may be at work: with
`Prompt` FALSE an agent may be arbitrarily slow. `renewed` is history. `Exit` takes the
agent's goroutines away at once and leaves the runner draining; a reconcile that would
still be under way during StopAll is cut, as its context is cancelled.

### DirInput

A record is one line, numbered in the order of writing; an offset counts lines. A file is
an inode (`content`), reached by name (`link`); `older` is the order of modification.
`fd` is the open file, that is `currentF` and `currentInode`; `buffer` is what the
buffered reader holds; `disk` is the state file. `pc` is where ReadBatch is: each label is
a place where the file system may have changed since the last look at it.

| Code | Action |
|---|---|
| entry of ReadBatch; its loop ends by deadline, size or context | `ReadBatch`, `Return` |
| openFile | `OpenFile` |
| detectRotation and what readLine does about it | `DetectRotation` |
| readLine: a line, the end of the file | `ReadLine`, `ReadEOF` |
| advanceFile with listFiles | `AdvanceFile` |
| Commit, Close, with commitState and pruneStaleInodes | `Commit`, `Close` |
| NewDirInput, loadState | `NewDirInput` |
| application and file system | `Write`, `OpenNext`, `Rename`, `Truncate`, `Unlink` |
| death of the agent | `Crash` |

`Habits` says what the application does besides writing: go on to other names, rename,
truncate (copytruncate), remove. A `Careful` application does the last three only to what
is collected, and renames only a file it has closed and the reader has open. `handled`
counts them, `hand` and `taken` are the batch of the Runner and what it has committed, and
`late` is history: lines written to a file whose end the reader had met before it
went on, or to a renamed file it had left. No reader that leaves a file can have
those, so the properties except them, and only them.

### PodWatcher

A key is a pod with one of its containers (and log type). `pc` is the goroutine of Start;
`adding`, `todo`, `newKey`, `ready` are the locals of OnPodAdd, and `resume` its caller.
`runners` and `status` are the two maps. `runner[k]` is the life of the Runner of k with
the goroutine around it, `ticking` the tickers that are about to update the status,
`reaper[k]` the goroutine that onPodDeleted started for k. `main` is the main goroutine.

| Code | Action |
|---|---|
| the List of syncPods; its failure, at the start and later | `List`, `ListFails` |
| the two loops of syncPods | `SyncAdd`, `SyncDelete`, `SyncEnds` |
| Watch, its events, its end | `OpenWatch`, `AddEvent`, `SkipEvent`, `DeleteEvent`, `CloseWatch` |
| the context of Start is done | `StartReturns` |
| OnPodAdd: a Runner that exists, a failure, a Runner that starts, UpdateRunner, return | `HasRunner`, `PathFails`, `StartRunner`, `FirstStatus`, `EndAdd` |
| onPodDeleted and its goroutines | `OnPodDeleted` (an operator), `Reaped`, `Overdue` |
| the goroutine of a Runner and its ticker | `RunReturns`, `RunnerOver`, `Tick`, `TickUpdates` |
| SIGTERM, StopAll | `Terminate`, `StopRunners`, `StopAllReturns` |
| end of the process, next process | `Die`, `NewAgent` |
| API server | `CreatePod`, `ModifyPod`, `DeletePod` |

ensureLogPath may fail before or behind its one change: for a symlink, forceSymlink removes
the old link and then makes the new one (`symlink.go:49-52`), so `PathFails` leaves the log
path as it was, there, or gone. After a restart of the agent a live pod has its old link; when
the new one cannot be made it has none, until OnPodAdd is called for the pod again.
`LivePodsUndisturbed` says that this is the only way for a live pod to lose a log path, that
no Runner reads behind it then, and that the pod does not count as done.

A pod's UID is used once. The watch names no resource version, so it opens with an Added
event for every pod that is there; when it ends, what was still to come is lost. That
a Runner returns once it is stopped, and not before, is `StopTerminates` of `Runner` and the
fact that `ReadBatch` of the directory input returns no error.

### ListWatch, K8sEventInput, K8sObjectStateInput, KubeInput

`log` is the history of the API server; an index in it is a resourceVersion, and 0 is the
empty version. A List at a version shows the last change of each object up to it, a watch
delivers the changes behind its version in order. `oldest` moves up when the server compacts:
a call that names a version below it is expired. A record is the version it shows; what is
written of an object at that version (`podState` and the others) is data.

| Code | Action |
|---|---|
| the call of List, its answers | `ReadVersion`; `ListAll`, `ListResumes`, `ListExpires`, `CallFails` |
| the call of Watch, its answers | `ReadVersion`; `OpenWatch`, `OpenWatchOfAll`, `WatchExpires`, `CallFails` |
| a Watch that opens, brings an ERROR event and is closed | `WatchErrors` |
| consumeWatch | `WatchEvent`, `CloseWatch` |
| enqueue, in the loop of a List and for one event | `Put` (with `Enqueue`) |
| ReadBatch, Commit, Close, a new process | `ReadBatch`, `Commit`, `Close`, `Restart` |
| the six loops of the object state input | `ListObjects`, `WatchObjects`, `ObjectWatchExpires`, `WatchFails`, `EndObjectWatch` |
| handleObject and its enqueue | `HandleObject`, `PutObject` |

Reading the shared version and the call that uses it are two steps: another goroutine may
write it in between. The answer of a List and the assignment behind it are one, as the
version is only an input to later calls. `done` holds the versions that were put into the
queue *or left out for a reason the code has*: a resumed List is not enqueued, a watch
opens at the version of another goroutine (`writer`), a watch without a version ends
amid its first events, or a List shows only the last change of an object. `NoEventMissed`
says there is no other way to miss an event, so every entry of `done` is a
statement about the code as well. A server that answers a resumed List never does so from
a version below `oldest`. An expired version may be reported by the call of Watch
(`WatchExpires`) or, as API servers do, by an ERROR event in the stream (`WatchErrors`):
consumeWatch skips that event (`k8sevent.go:147-150`), and the watch is opened again at the same
version. Which of the two comes is open each time, so it may be the second for ever. The
object state input lists again whatever ends its watch, so the two are one for it
(`ObjectWatchExpires`). Each object has one goroutine that collects it: policies that name a
namespace or a resource twice, for which records could come twice and out of order, are not
covered.

### Operator

One LogPilot at a time; `uid` tells a later one from an earlier. `cached` is what the
informer has; `view`, `at` and `held` are the locals of Reconcile: the LogPilot it has read,
the object it is at, and that object as it has read it. An object has the specification it
was built from and, of the webhook, its certificate authority. Every write names the version it has
read (or is a Create), which is `lp = view` and `objects[...] = held`.

| Code | Action |
|---|---|
| the key is taken; Reconcile's Get and its early returns | `Begin` |
| AddFinalizer and its Update | `Adopt` |
| Get of an object; Create or Update | `Read`; `Write` |
| cleanupLogPilot, an object at a time; RemoveFinalizer | `Cleanup`; `Release` |
| an error of any call | `Fail` |
| informer | `CacheSync`, `Resync` |
| restart or another leader | `Restart` |
| users, the webhook's process | `CreateLogPilot`, `EditLogPilot`, `DeleteLogPilot`, `Damage`, `IssueCert` |

Three objects stand for ten: one that has nothing to preserve, the webhook, and a workload.
A stale read of an object from the cache makes the write fail, which is `Fail`.

### Policies

`NamespacedSpec` and `ClusterSpec` are what the API server lets into the two kinds of policy
(`PoliciesAssumption`). The operator's side is one policy's Reconcile: `Begin` reads it from the cache,
`UpdateStatus` writes the condition over that version, `ReconcileFails` queues the name
again. `CreatePod` is mutatePod, with what injectPod makes of the pod, or without an answer
of the webhook (its failurePolicy is Ignore). `OnPodAdd` gives for each container and kind of log the
place its Runner reads. Places are pairs: a volume (a directory of the host, the empty directory,
standard output, the pod's own) and a path below it. The directory of the host is named twice in the
code: `LogHostPath` is the webhook's constant (`injector.go:16`), `logDir` the agent's
own, from the LogPilot (`deploy.go:73-76`, `watcher.go:287-290`).

A config has a value of some type for each of its keys. The validation looks for the keys
(`ValidOutput`, `ValidTransform`), the two factories for the types (`BuildsOutput`,
`BuildsTransform`): a missing key, a value of another type and a certificate that is none are
different things. `AcceptedCanRun` excepts a policy with a value of another type than its key asks
for (`Malformed`), and nothing else: it fails as well when `ValidTransform` asks for the first key of a
drop only. `ReadsWhatIsWritten` speaks of container policies that nothing
*disturbs*. What can, in the code as it is, is the list in `Undisturbed`: for guaranteed
delivery, a `logDir` that is not the webhook's directory; a mount, a volume
named `log-pilot-logs` or a variable of the pod's own; an earlier policy with the same
path; a guaranteed policy beside a best-effort one (`injector.go:141`: the volume becomes a
host path for both, while `symlink.go:29` links to the empty directory); two policies of
different kinds for one container and kind of log.

## 3. Runs

| Run | Bounds | Shows |
|---|---|---|
| `runner` | 3 records, batches of 2, 1 restart, retain, failing reads | types; the offset passes only accounted records; nothing behind it is sent again; `Sent` never overstates; Clean spares what a failed drain left; `AtLeastOnce` is implemented; Run returns after Stop; every record is settled in the end |
| `runner_offset` | 2 records, 1 restart | *violation*: see Findings |
| `lease_safety` | 2 nodes, TTL and period 2, 1 restart, failing calls, hanging runners | types; only an expired Lease is taken over; collectors overlap only after a lapse |
| `lease_live` | 2 nodes, TTL and period 1, 1 restart, failing calls and lost answers | the policy is collected again and again; a loser stops |
| `lease_overlap` | 2 nodes, TTL and period 2, agents at most one unit late | *violation*: see Findings |
| `dir_safety` | 3 names, 3 inodes, 4 records, 2 restarts, new names, 1 careful rename | types; nothing is skipped; the state file covers only what was taken; reading in order; nothing behind the state is read again |
| `dir_live` | 2 names, 2 inodes, 2 records, 1 restart, all habits, 1 rename, truncation or removal | every record is taken in the end; ReadBatch ends without its deadline |
| `dir_rotate` | 2 names, 2 inodes, 2 records, no restart | *violation*: see Findings |
| `pods` | 1 pod of 2 policies, 1 update, 1 restart, failing Lists, paths and watches, hanging Runners | types; one Runner per policy; a drain keeps its log path and status; live pods are left alone, but for a link that is being replaced; each policy is collected; the Runners of gone pods end |
| `kube` | 2 goroutines with an object each, a queue of 1, 3 changes (2 for the event input), 1 restart, 1 failed call or ended watch, any compaction | types; no event is missed but where the code goes on from another's version; the records end with the state of each object, and never go backwards; every change comes in the end, unless an event goroutine watches at an expired version for ever; every goroutine ends after Close |
| `operator` | 2 LogPilots one after the other, 2 specifications, 2 certificates, 1 object deleted by others; any failures and restarts | types; no object without a LogPilot that has its finalizer; no certificate is taken out or put back; the objects follow the LogPilot, or it goes |
| `policies` | 2 policies, 4 specifications, 2 log directories, 1 edit or deletion, 2 kinds of pod | types; what is accepted can be built unless malformed; a Runner reads what its container writes; every version is judged |

Why the bounds are enough. Three records in batches of two give a full batch, a short
one, and a record before and behind both. The retain strategy may delete any part of what
afterCollected deletes, and `never` is its empty choice. A TTL of 2 has an age strictly
between fresh and expired. Two nodes give every race over one Lease. Three files give one that is done, one that is
read and one ahead, and four records leave a file with two lines in each position; two
restarts use a state saved by a reader that had itself started from a state. What the
runs show of safety, all their invariants and action properties, is also proved without
these bounds (section 4). The `dir` runs do not check deadlock: with the Input closed and the
application quiet the system really stops; nor do the `pods` runs, as an agent that has
been stopped, and is not started again, stops too; nor do `kube` and `policies`, where a closed
input, or users who have changed all they may, leave nothing to do. Pods do not share keys, and no step of
the watcher relates two pods, so one pod is enough; its two policies may be in any two
states. In `kube` two goroutines are enough for one to move the version of another, a queue of one
makes each wait for room, and three changes give an object that was added, changed and
deleted, or deleted and added. In `operator` the second LogPilot meets what a stale cache
still shows of the first. One change of a policy is enough to fall between any two steps of a
Reconcile; the four specifications pair the kinds of delivery, in one policy and over two, and
their configs lack a key, have a wrong value (a certificate that is none) or are good. A `logDir` that is not the
webhook's directory is one as good as any other.

Every property is broken by a plausible fault in the code: the mutated actions `Mut...`
stand before the actions they replace, and `PROJECT.json` pairs them with properties.

### Fairness

`Runner!FairSpec`: the goroutine of Run is scheduled, and drainCtx's timer fires. Go's
scheduler and timers give both. Of Input and Output it is assumed
that each of their calls returns, with whatever result (HTTP calls have a context and a timeout,
what files take is up to the kernel), so `StopTerminates` covers an output that fails for ever,
not one that hangs. `Runner!Obliging`, the premise of
`EveryRecordSettled`, is what delivery cannot do without: an Input that hands out what it has, an Output that accepts a batch which is
tried for ever (strong fairness: each try may fail, not all of them), and an agent that
is started again after a crash, as a DaemonSet's pod is. Where Clean removes files when StopAll
ends a Runner, while the application lives and goes on writing to a file that has lost its name,
`EveryRecordSettled` is optimistic: in `Runner` what is appended later is there to be read.
`ClusterLease!FairSpec`: time
passes, goroutines of live agents are scheduled, stopped runners return (their drain is
bounded by 5 s and the waits of one call), and of the List, the Get and the write of an agent each
gets through and is answered now and then (strong fairness), with failures and lost answers
in between. Without it neither property holds: `reconcileClusterPolicies` returns when its
List fails (`watcher.go:350`), so an agent that can list no more collects on after it has lost
the Lease. No agent is certain to come back.
`DirInput!FairSpec`: the Runner keeps calling ReadBatch and commits, the loop of ReadBatch
goes on, its deadline does not always pass before the first line (strong fairness of
`OpenFile` and `DetectRotation`: the deadline is 100 ms, `dir.go:85`, and each call has
a new one), and the agent comes up again. Nothing is assumed of the application.
`PodWatcher!FairSpec`: goroutines are scheduled, a stopped Runner returns, the API server ends
each watch some day (it closes them after a timeout of its own) and does not fail
every List, and a log path that cannot be set up is not so for ever (strong fairness of
`StartRunner`: the policies OnPodAdd skips are retried whenever their pod is seen again).

`KubeInput!Fairness`: goroutines go on, and the Runner reads. Failed calls and ended watches
are bounded by `MaxFaults`, see the first of the notes below. Nothing is assumed of how an
expired version is reported. `Operator!Fairness` and `Policies!Fairness`: the informer catches
up, the worker goes on, and each call succeeds now and then if it can (strong fairness: each
may fail, by a conflict or any other error, but not every time). Of the informer it is also
assumed that it hands out its objects again (`Resync`: controller-runtime does so every ten
hours), because nothing else tells the controller that an object it manages was deleted.

### Findings

* `runner_offset`. `agent/output/output.go:11` says the offset advances only after a
  successful send. A batch in backoff when Stop comes is let go (`runner.go:84-86`), while
  the Input has read past it; the drain's Commit, or Close at line 187, persists that
  position. The batch is not read again after a restart.
* `lease_overlap`. `README.md:137` says one agent runs a cluster collector at a time. The
  Lease lives 30 s and is renewed every 30 s (`watcher.go:82-84`). A renewal one clock unit
  late finds the Lease taken, and the loser's collector runs until its own next reconcile
  has stopped it. `lease_safety` shows how far this can go: an overlap needs a node that
  has not renewed within the TTL.

* `dir_rotate`. `dir.go:256` says files already fully read are skipped. A rotation marks
  the file done at whatever offset was reached (`dir.go:149-156`). In the trace the reader has
  read nothing of the file when it is renamed and a new one takes its name: the new one is
  opened, and advanceFile passes over the other. Its lines come only if the reader is without a file at some
  later openFile and this file is the oldest then (`dir.go:193-206`), in which case all
  of it is read, for a second time as far as it was read before.

Seen while modelling, and not kept as runs; a copy of a configuration with the
named constant shows each:

* `k8sevent.go:74` says of runNamespace that it "continuously lists then watches events in one
  namespace. It retries with a 1 s back-off on any error". When an expired version is reported by an
  ERROR event, consumeWatch skips it (`k8sevent.go:147-150`, and `TestConsumeWatchErrorEvent` has it
  so), the stream is closed, and the watch is opened again at the same version, without a List and
  without a pause, for ever: no event comes any more, until another goroutine notes a newer version or
  a new process lists. One goroutine and one object, without faults or restarts, are enough:
  `ChangesCollected` without its second alternative (`Stuck`) fails, as TLC opens and ends the
  watch in turn. With it the property shows that nothing else keeps an event from the queue.
* `watcher.go:70` ("Blocks until ctx is cancelled") and `main.go:80` say when Start returns. It also
  does when its first List fails (`watcher.go:77-79`): main logs the error and waits on, and the
  agent lives and collects nothing. In `PodWatcher`, `pc = "returned" => CtxDone` fails;
  `EveryPolicyCollected` excepts it.
* `symlink.go:39` says of a guaranteed log path that the "VolumeMount already directs writes here".
  The webhook mounts `/var/log/log-pilot` whatever `logDir` the LogPilot names (`injector.go:16`,
  `143-146`; `deploy.go:73-76`): with another directory the Runner reads an empty one.
  `ReadsWhatIsWritten` fails when `Undisturbed` does not ask for `logDir = LogHostPath`.
* Two goroutines of the event input share one version. When both have expired versions at
  hand, each may put an old version back for the other, again and again, as long as calls
  fail and watches end; `ChangesCollected` fails if `MaxFaults` does not bound that. Nor is an
  event that happened before the version of the other goroutine ever listed (`k8sevent.go:94`):
  the first List of a second namespace is taken for a resumed one and enqueues nothing.
* What lies between the version in the file and the version of the first List is never read
  after a restart (`k8sevent.go:105-107`), nor is what was in the queue.
* For an object state policy, startClusterPolicyRunner makes an event input first, which
  lists, watches and fills a queue nobody reads, and is never closed (`watcher.go:405-410`).
* `watcher.go:142` says "Clean up pods that disappeared since last sync." Only those in `seen`
  are, and a pod is not in it while one of its Runners could not be started; its
  other Runner then outlives the pod when no watch was open at its deletion. In `PodWatcher`,
  `SyncEnds => \A k \in runners : PodOf(k) \in current` fails.
* `watcher.go:573-575` says StopAll waits for all running Runners. It takes those in the map:
  one that OnPodAdd enters behind that, and one that onPodDeleted took out and that still
  drains, are cut when the process exits. In `PodWatcher`, `main = "stopped" => Alive = {}` fails.
* A `LogPilotPolicy` with an input and an output and no selector is accepted
  (`policy_validation.go:22-36`) and run by nobody: the webhook takes only what has a selector,
  the agent's list only what is cluster-scoped. The webhook injects a policy whether it was accepted or not, and of an
  accepted one whatever version is there.
* `logpilot_types.go:24` calls the LogPilot a cluster singleton, but nothing enforces it: the webhook
  configuration has one name, so two LogPilots would write it in turn and the first one to go would delete it.
* afterCollected deletes files that hold a batch given up by Run's loop, since `drained`
  starts TRUE in shutdown (`runner.go:154-161`); `CleanSparesFailedDrain` excepts it.
* A file renamed and replaced while the agent is down: the state file has the name and
  offset but not the inode, and the first lines of the new file are passed over
  (`dir.go:186`, `436`). `NothingSkipped` without its premise, `Habits = {"rename"}`.
* A removed file's inode number, given to a new file before the next Commit, makes the new
  file count as done (`dir.go:257`, `446-469`). `ReuseInodes = TRUE`.
* A seek beyond the end of a truncated file is no error, so the file is not read from its
  start as `dir.go:219` says, but marked done as rotated. `Habits = {"truncate"}`.
* The ticker of a Runner that is done may put its status back behind both RemoveRunner
  calls (`watcher.go:237-248`, `281`): the entry then stays, and IsDone with it. The action
  `TickUpdates` does this.
* A second rename while the reader is in the renamed file: advanceFile skips the name of
  the current file, not its inode, and the active file may be marked done unread.

## 4. Proofs

TLAPS checks these for every value of the constants, from the modules' `ASSUME`s alone:
what the constants are, with a positive batch length, renewal period, queue and number of
LogPilots; names of nobody and nothing that are none of the names; finitely many pods on a
node (without which no List of them would end), at least one object in the cluster; and
lists of policies that are finite sequences. Each module with theorems has one invariant,
`IInv`, `LeaseInv` or `RInv`, which says more than the properties that follow from it. A run of TLC
agreed with each of them before it was proved.

`RunnerProofs`. `SavedIsAccounted` is not inductive: Commit and Close persist the read
position, so the invariant has to account for every record up to `pos`. `IInv` has four
parts beside the types: `Positions` (saved <= pos <= appended), `Batch` (a batch is in
hand only where Run holds one, beyond the offset; at the commit it is delivered),
`Ledger` (each record up to `pos` is accounted for or in hand), and `Drain` (a drain that
gave something up is over and knows it). From it follow `OffsetSafe`, `NoResend`, `SentSafe`,
`FailedDrainKeepsFiles`, and `ImplementsPromise`: each step of the pipeline is a step of
`AtLeastOnce` (Append, Settle, Forfeit or Advance) or a stutter.

`ClusterLeaseProofs`. `OverlapNeedsLapse` is not inductive either: it has to be known of a
node that is about to start its collector. `LeaseInv` has three parts: `Copies` (a fresh
copy of the Lease was checked), `Renewals` (the age of the Lease is that of the holder's
last renewal) and `Losers` (a node that collects, or was granted, and is not the holder has
lapsed). `OverlapOnlyAfterLapse` and `TakeoverSafe` follow.

`DirInputProofs`. `TypeOK` bounds the offset by the number of lines ever written, which is
not inductive by itself: `IInv` adds that no file is longer than what was written, that
what is buffered fits behind the offset (`Lengths`), where a file is open (`HasFile`), and
that a reader that is down has an empty buffer (`IsDown`).

`DirReadingProofs`. Two kinds of application give the reader what it needs (`Orderly`).
One has touched no file (`Untouched`): it only goes on to new names. The other is `Polite`:
it may also rename, any number of times, but only what is collected and closed.
For both, each record is in one file or taken, and the application writes to the newest
file (`Files`, `Lines`). `Reader` says that the reader's file was read up to the offset, and that what is
marked done was read or came late; with `Lines` this is `AllAhead`. It rests on what is in the buffer
(`Buffered`) and on what ReadBatch has seen at each of its labels (`Whereabouts`).

* Untouched, the lines of older files are older (`Sorted`), and a position in one file stands for
  all files before it (`Position`). The reader and the state on disk are at such positions,
  the state never ahead (`Places`), over any number of crashes and
  restarts. `UntouchedIsRead`, `StateCovers`, `InOrder` and `NoReread` follow, of any application
  as long as it has touched nothing.
* Polite, the reader may come upon a file again under another name, and positions have no order.
  `Renamed` says what is left: a file that lost its name in the reader's hands was
  the active one and is collected, and the reader leaves the active file for a newer one only. This holds
  in the agent's first life: a state on disk knows its file by name (`dir.go:186`). `NoneSkipped`
  has `Polite` as its hypothesis, which is what the constants of `dir_safety` say. Without it
  `NothingSkipped` is false, as `dir_rotate` and the notes on truncation, inode numbers and
  renames in section 3 show.

`OperatorProofs`. `NothingLeft` speaks of what is there now, while Reconcile acts on copies
that may be old. So the invariant says how old: a copy is never ahead of its LogPilot
(`Copies`); while a copy has the finalizer and no deletion, or Reconcile applies objects, the
LogPilot has its finalizer (`Owned`); and if cleanup is at work for a LogPilot that is still
what was read, the cache has nothing older (`Caught`), so that what `Cleaned` says is gone is not
applied again. `Chosen` says which copies lead to which branch, `Issued` that no object has a
certificate that was not issued; `CertKept` needs of all this the types and `Issued`.

`PodWatcherProofs`. `OneRunnerPerKey` speaks of goroutines, while the code keeps a map
that its Runners leave. `Once` says that the pod of a Runner that has left the map is over
(`Over`): gone for good, and named by neither the List that syncPods works on nor the open
watch. This rests on the order of the watch (`Announced`: nothing about a pod comes behind
its deletion) and on `Listed`: what is seen and no longer listed is gone. The action property
`LivePodsLeftAlone` follows (it is OnPodAdd alone that touches the log path of a live pod, and where that
fails it leaves `ready` FALSE behind), as does `DrainKeepsPathAndStatus`, which is part of the invariant.

`KubeInputProofs`. For the event input, `Accounted` says that none of a goroutine's
events up to a version is missed: each is done, in hand or a deletion. `Collected` says of which versions
that holds: of the one the goroutine has noted, of the one it asks for, of the one its watch has
reached. For the object state input, `Told` says that the objects of a goroutine are shown, or
in hand, as they are at its `Horizon` (`Current`), and that nothing in hand is older than
what is there at the horizon or comes twice (`Newest`). `NeverBackwards` is an action property and
follows from the same: what `Put` shows is the newest at a horizon that what was
shown before has not passed.

`PoliciesProofs`. `Judgement` says of a status that it is about a generation that was there,
and, if about the newest, about its specification (`VerdictIsRight`): an edit between the operator's read and
its write must not break this. `AcceptedCanRun` adds what `Valid` says of the factories. `Made` says that the pod is what the webhook made of some specification
and policies, and the Runners what the agent makes of that pod; `ReadsWhatIsWritten` is then a
fact about `Inject` and `RunnersFor`, and of `logDir`, which no step changes. That these lists, flattened from those of the
policies, are sequences at all is induction over their length: the library's induction theorems
cannot be used, so `FlattenTyped` argues by a least counterexample, with `Smallest`.

Only model-checked: the liveness properties, `StopTerminates` and `EveryRecordSettled` of `Runner`,
`CollectedAgain` and `LoserStops` of `ClusterLease`, `EveryRecordTaken` and `ReadBatchReturns` of
`DirInput`, and those of `PodWatcher`, `KubeInput`, `Operator` and `Policies`. Fairness and ENABLED are
beyond the prover. That prompt agents
have one collector at a time is no longer checked by itself: `OverlapNeedsLapse`, which is
proved, says that an overlap needs a lapse.

## 5. What is not modelled, and the plan

Left out for good: encoding and HTTP of the outputs, what a transform does to the data of
a record, what the object state input tells of an object, the file input (no pipeline of
the watcher builds one), generated code, the wiring of the three `main`s, clock skew between
nodes, the names of Leases, file system errors of ensureLogPath in `Policies` (`PodWatcher` has
them), and the contents of the objects the operator applies.

What the modules leave open: a line written in two parts (`DirInput`), the lag and the
HTTP answer of the status server, and the contents of a cluster policy that is edited under its Runner.

Of safety, nothing that the runs check is left to prove. To extend the models: lines written
in two parts, which would bring a property of their own to `DirInput`, and an edit of a
cluster policy under its Runner, which would bring one to `ClusterLease`.
