----------------------------- MODULE PodWatcher -----------------------------
(***************************************************************************)
(* The pod watcher of one agent (watcher/watcher.go, status/server.go):    *)
(* it lists and watches the pods of its node, starts one Runner for each   *)
(* container with a policy, stops the Runners of pods that are gone and    *)
(* removes their log paths.                                                *)
(*                                                                         *)
(* Four kinds of goroutines share the map of Runners and the status: Start *)
(* (`pc'), a pipeline and its ticker for each Runner, one goroutine of     *)
(* onPodDeleted for each Runner of a pod that is gone (`reaper'), and main *)
(* with its StopAll.  Of a Runner only its life is kept: Runner shows that *)
(* Run returns after Stop, and the directory input gives it no other end.  *)
(* The tick for cluster policies, which Start also serves, is in           *)
(* ClusterLease.                                                           *)
(***************************************************************************)
EXTENDS Naturals, Sequences, SequencesExt

CONSTANTS
    Pod,            \* the UIDs of the pods on this node
    Container,      \* names of containers, with their log type
    Policies,       \* the containers of a pod that its annotation names
    MaxModified,    \* bound: updates of pods
    MaxRestarts,    \* bound: how often the agent comes up again
    PathsMayFail,   \* whether ensureLogPath or buildRunner may fail
    RunnersMayHang  \* whether a Runner may take more than 30 s to return

ASSUME WatcherAssumption ==
    /\ IsFiniteSet(Pod)
    /\ Policies \in [Pod -> SUBSET Container]
    /\ MaxModified \in Nat
    /\ MaxRestarts \in Nat
    /\ PathsMayFail \in BOOLEAN
    /\ RunnersMayHang \in BOOLEAN

KeysOf(p) == {p} \X Policies[p]

Key == UNION {KeysOf(p) : p \in Pod}

NoPod == "none"
NoKey == <<"none", "none">>

ASSUME NoneAssumption == NoPod \notin Pod /\ NoKey \notin Key

VARIABLES
    \* the API server
    pods,           \* where each pod is in its life
    stream,         \* events of the open watch that Start has not taken
    modified,       \* updates of pods so far
    \* the goroutine of Start
    pc,
    seen,           \* pods that need no OnPodAdd
    current,        \* pods in the last List
    toAdd,          \* listed pods that syncPods has still to look at
    adding,         \* the pod OnPodAdd is at
    todo,           \* its policies OnPodAdd has still to look at
    newKey,         \* the Runner it has just started
    ready,          \* allReady
    resume,         \* who called OnPodAdd
    \* shared by the goroutines
    runners,        \* Watcher.runners
    status,         \* the keys of Server.runners
    runner,         \* the life of the Runner of a key
    ticking,        \* keys whose ticker is about to update the status
    reaper,         \* the goroutine of onPodDeleted for a key
    logPaths,       \* log paths that exist
    \* main
    main,
    snapshot,       \* the Runners StopAll waits for
    restarts,       \* how often the agent came up again
    \* read by the properties only
    starts          \* Runners started for a key in this life of the agent

api == <<pods, stream, modified>>
onPodAdd == <<adding, todo, newKey, ready, resume>>
start == <<pc, seen, current, toAdd, onPodAdd>>
shared == <<runners, status, runner, ticking, reaper, logPaths>>
process == <<main, snapshot, restarts>>
vars == <<api, start, shared, process, starts>>

Event == [type : {"Added", "Modified", "Deleted"}, pod : Pod]

TypeOK ==
    /\ pods \in [Pod -> {"unborn", "present", "gone"}]
    /\ stream \in Seq(Event)
    /\ modified \in 0..MaxModified
    /\ pc \in {"first", "list", "sync", "add", "update", "watch", "events", "returned", "down"}
    /\ seen \subseteq Pod
    /\ current \subseteq Pod
    /\ toAdd \subseteq Pod
    /\ adding \in Pod \cup {NoPod}
    /\ todo \subseteq Key
    /\ newKey \in Key \cup {NoKey}
    /\ ready \in BOOLEAN
    /\ resume \in {"sync", "events"}
    /\ runners \subseteq Key
    /\ status \subseteq Key
    /\ runner \in [Key -> {"none", "runs", "stopping", "done", "over"}]
    /\ ticking \subseteq Key
    /\ reaper \in [Key -> {"none", "wait", "end", "overdue"}]
    /\ logPaths \subseteq Key
    /\ main \in {"up", "cancelled", "wait", "stopped", "down"}
    /\ snapshot \subseteq Key
    /\ restarts \in 0..MaxRestarts
    /\ starts \in [Key -> 0..2]

PodOf(k) == k[1]

Present == {p \in Pod : pods[p] = "present"}

Alive == {k \in Key : runner[k] \in {"runs", "stopping"}}

CtxDone == main # "up"

\* The watch is open: Start is at its events, or busy with one.
WatchOpen == pc = "events" \/ (pc \in {"add", "update"} /\ resume = "events")

Init ==
    /\ pods = [p \in Pod |-> "unborn"]
    /\ stream = <<>>
    /\ modified = 0
    /\ pc = "first"
    /\ seen = {}
    /\ current = {}
    /\ toAdd = {}
    /\ adding = NoPod
    /\ todo = {}
    /\ newKey = NoKey
    /\ ready = TRUE
    /\ resume = "sync"
    /\ runners = {}
    /\ status = {}
    /\ runner = [k \in Key |-> "none"]
    /\ ticking = {}
    /\ reaper = [k \in Key |-> "none"]
    /\ logPaths = {}
    /\ main = "up"
    /\ snapshot = {}
    /\ restarts = 0
    /\ starts = [k \in Key |-> 0]

-----------------------------------------------------------------------------
(* The API server.                                                         *)

Emit(type, p) ==
    stream' = IF WatchOpen THEN Append(stream, [type |-> type, pod |-> p]) ELSE stream

CreatePod ==
    /\ \E p \in Pod :
           /\ pods[p] = "unborn"
           /\ pods' = [pods EXCEPT ![p] = "present"]
           /\ Emit("Added", p)
    /\ UNCHANGED <<modified, start, shared, process, starts>>

ModifyPod ==
    /\ modified < MaxModified
    /\ modified' = modified + 1
    /\ \E p \in Present : Emit("Modified", p)
    /\ UNCHANGED <<pods, start, shared, process, starts>>

DeletePod ==
    /\ \E p \in Present :
           /\ pods' = [pods EXCEPT ![p] = "gone"]
           /\ Emit("Deleted", p)
    /\ UNCHANGED <<modified, start, shared, process, starts>>

-----------------------------------------------------------------------------
(* Start, syncPods and consumePodWatch.                                    *)

\* Mutation: only the pods that are new count as listed.
MutList ==
    /\ pc \in {"first", "list"}
    /\ ~CtxDone
    /\ current' = Present \ seen
    /\ toAdd' = Present \ seen
    /\ pc' = "sync"
    /\ UNCHANGED <<api, seen, onPodAdd, shared, process, starts>>

\* syncPods has its List.
List ==
    /\ pc \in {"first", "list"}
    /\ ~CtxDone
    /\ current' = Present
    /\ toAdd' = Present \ seen
    /\ pc' = "sync"
    /\ UNCHANGED <<api, seen, onPodAdd, shared, process, starts>>

\* The List fails: the first one ends Start, a later one is skipped.
ListFails ==
    /\ pc \in {"first", "list"}
    /\ pc' = IF pc = "first" \/ CtxDone THEN "returned" ELSE "watch"
    /\ UNCHANGED <<api, seen, current, toAdd, onPodAdd, shared, process, starts>>

\* OnPodAdd is called.
BeginAdd(p, caller) ==
    /\ adding' = p
    /\ todo' = KeysOf(p)
    /\ newKey' = NoKey
    /\ ready' = TRUE
    /\ resume' = caller
    /\ pc' = "add"

SyncAdd ==
    /\ pc = "sync"
    /\ \E p \in toAdd :
           /\ toAdd' = toAdd \ {p}
           /\ BeginAdd(p, "sync")
    /\ UNCHANGED <<api, seen, current, shared, process, starts>>

\* onPodDeleted: the Runners leave the map; each gets a goroutine that stops it and
\* waits for it.  (Stop is taken as part of the call.)
OnPodDeleted(p) ==
    LET gone == runners \cap KeysOf(p)
    IN  /\ runners' = runners \ gone
        /\ reaper' = [k \in Key |-> IF k \in gone THEN "wait" ELSE reaper[k]]
        /\ runner' = [k \in Key |->
                          IF k \in gone /\ runner[k] = "runs" THEN "stopping" ELSE runner[k]]
        /\ UNCHANGED <<status, ticking, logPaths>>

\* syncPods: a pod that is no longer listed.
SyncDelete ==
    /\ pc = "sync"
    /\ toAdd = {}
    /\ \E p \in seen \ current :
           /\ seen' = seen \ {p}
           /\ OnPodDeleted(p)
    /\ UNCHANGED <<api, pc, current, toAdd, onPodAdd, process, starts>>

SyncEnds ==
    /\ pc = "sync"
    /\ toAdd = {}
    /\ seen \subseteq current
    /\ current' = {}
    /\ pc' = "watch"
    /\ UNCHANGED <<api, seen, toAdd, onPodAdd, shared, process, starts>>

\* The watch names no resource version: it starts with an event for each pod that is there.
OpenWatch ==
    /\ pc = "watch"
    /\ ~CtxDone
    /\ \E s \in SetToSeqs(Present) :
           stream' = [i \in DOMAIN s |-> [type |-> "Added", pod |-> s[i]]]
    /\ pc' = "events"
    /\ UNCHANGED <<pods, modified, seen, current, toAdd, onPodAdd, shared, process, starts>>

\* An event for a pod that is seen changes nothing.
SkipEvent ==
    /\ pc = "events"
    /\ stream # <<>>
    /\ Head(stream).type # "Deleted"
    /\ Head(stream).pod \in seen
    /\ stream' = Tail(stream)
    /\ UNCHANGED <<pods, modified, start, shared, process, starts>>

AddEvent ==
    /\ pc = "events"
    /\ stream # <<>>
    /\ Head(stream).type # "Deleted"
    /\ Head(stream).pod \notin seen
    /\ BeginAdd(Head(stream).pod, "events")
    /\ stream' = Tail(stream)
    /\ UNCHANGED <<pods, modified, seen, current, toAdd, shared, process, starts>>

DeleteEvent ==
    /\ pc = "events"
    /\ stream # <<>>
    /\ Head(stream).type = "Deleted"
    /\ seen' = seen \ {Head(stream).pod}
    /\ OnPodDeleted(Head(stream).pod)
    /\ stream' = Tail(stream)
    /\ UNCHANGED <<pods, modified, pc, current, toAdd, onPodAdd, process, starts>>

\* Mutation: a watch that ends is opened again without a List.
MutCloseWatch ==
    /\ pc = "events"
    /\ stream' = <<>>
    /\ pc' = "watch"
    /\ UNCHANGED <<pods, modified, seen, current, toAdd, onPodAdd, shared, process, starts>>

\* The watch ends, by an error event or a closed channel, with whatever was still to come.
CloseWatch ==
    /\ pc = "events"
    /\ stream' = <<>>
    /\ pc' = "list"
    /\ UNCHANGED <<pods, modified, seen, current, toAdd, onPodAdd, shared, process, starts>>

\* Start looks at its context before and while it watches.
StartReturns ==
    /\ pc \in {"watch", "events"}
    /\ CtxDone
    /\ stream' = <<>>
    /\ pc' = "returned"
    /\ UNCHANGED <<pods, modified, seen, current, toAdd, onPodAdd, shared, process, starts>>

-----------------------------------------------------------------------------
(* OnPodAdd.                                                               *)

\* A policy whose Runner is in the map is passed over.
HasRunner ==
    /\ pc = "add"
    /\ \E k \in todo \cap runners : todo' = todo \ {k}
    /\ UNCHANGED <<api, pc, seen, current, toAdd, adding, newKey, ready, resume,
                   shared, process, starts>>

\* No parent directory, so nothing has changed; a path that is there, but no Runner for it
\* (buildRunner); or a link that forceSymlink has removed and cannot create again, which an
\* agent before this one may have left.
PathFails ==
    /\ pc = "add"
    /\ PathsMayFail
    /\ \E k \in todo \ runners :
           /\ todo' = todo \ {k}
           /\ logPaths' \in {logPaths, logPaths \cup {k}, logPaths \ {k}}
    /\ ready' = FALSE
    /\ UNCHANGED <<api, pc, seen, current, toAdd, adding, newKey, resume,
                   runners, status, runner, ticking, reaper, process, starts>>

\* The Runner of k is built, entered and started.
Launch(k) ==
    /\ todo' = todo \ {k}
    /\ logPaths' = logPaths \cup {k}
    /\ runners' = runners \cup {k}
    /\ runner' = [runner EXCEPT ![k] = "runs"]
    /\ starts' = [starts EXCEPT ![k] = @ + 1]
    /\ newKey' = k
    /\ pc' = "update"
    /\ UNCHANGED <<api, seen, current, toAdd, adding, ready, resume,
                   status, ticking, reaper, process>>

\* Mutation: OnPodAdd does not ask whether there is a Runner already.
MutStartRunner ==
    /\ pc = "add"
    /\ \E k \in todo : starts[k] < 2 /\ Launch(k)

StartRunner ==
    /\ pc = "add"
    /\ \E k \in todo \ runners : Launch(k)

\* Mutation: the status is kept by pod.
MutFirstStatus ==
    /\ pc = "update"
    /\ status' = status \cup {PodOf(newKey)}
    /\ newKey' = NoKey
    /\ pc' = "add"
    /\ UNCHANGED <<api, seen, current, toAdd, adding, todo, ready, resume,
                   runners, runner, ticking, reaper, logPaths, process, starts>>

\* UpdateRunner, behind the start of the Runner's goroutine.
FirstStatus ==
    /\ pc = "update"
    /\ status' = status \cup {newKey}
    /\ newKey' = NoKey
    /\ pc' = "add"
    /\ UNCHANGED <<api, seen, current, toAdd, adding, todo, ready, resume,
                   runners, runner, ticking, reaper, logPaths, process, starts>>

\* Mutation: a pod counts as seen though a Runner could not be started.
MutEndAdd ==
    /\ pc = "add"
    /\ todo = {}
    /\ seen' = seen \cup {adding}
    /\ adding' = NoPod
    /\ ready' = TRUE
    /\ resume' = "sync"
    /\ pc' = resume
    /\ UNCHANGED <<api, current, toAdd, todo, newKey, shared, process, starts>>

\* OnPodAdd returns; the caller marks the pod as seen if all is ready.
EndAdd ==
    /\ pc = "add"
    /\ todo = {}
    /\ seen' = IF ready THEN seen \cup {adding} ELSE seen
    /\ adding' = NoPod
    /\ ready' = TRUE
    /\ resume' = "sync"
    /\ pc' = resume
    /\ UNCHANGED <<api, current, toAdd, todo, newKey, shared, process, starts>>

-----------------------------------------------------------------------------
(* The goroutines of the Runners, and those of onPodDeleted.               *)

\* Run returns, once stopped.
RunReturns ==
    /\ \E k \in Key :
           /\ runner[k] = "stopping"
           /\ runner' = [runner EXCEPT ![k] = "done"]
    /\ UNCHANGED <<api, start, runners, status, ticking, reaper, logPaths, process, starts>>

\* The goroutine of the Runner takes it out of the status.
RunnerOver ==
    /\ \E k \in Key :
           /\ runner[k] = "done"
           /\ runner' = [runner EXCEPT ![k] = "over"]
           /\ status' = status \ {k}
    /\ UNCHANGED <<api, start, runners, ticking, reaper, logPaths, process, starts>>

\* The ticker of a Runner has chosen to update the status, and does so.
Tick ==
    /\ \E k \in Key :
           /\ runner[k] \in {"runs", "stopping", "done"}
           /\ ticking' = ticking \cup {k}
    /\ UNCHANGED <<api, start, runners, status, runner, reaper, logPaths, process, starts>>

TickUpdates ==
    /\ \E k \in ticking :
           /\ status' = status \cup {k}
           /\ ticking' = ticking \ {k}
    /\ UNCHANGED <<api, start, runners, runner, reaper, logPaths, process, starts>>

\* The goroutine of onPodDeleted ends: it removes status and log path.
Reap(k, end) ==
    /\ reaper[k] = "wait"
    /\ reaper' = [reaper EXCEPT ![k] = end]
    /\ status' = status \ {k}
    /\ logPaths' = logPaths \ {k}
    /\ UNCHANGED <<api, start, runners, runner, ticking, process, starts>>

\* Mutation: the wait ends when the Runner is stopped, not when it is done.
MutReaped == \E k \in Key : runner[k] # "runs" /\ Reap(k, "end")

\* It has seen that the Runner is done.
Reaped == \E k \in Key : runner[k] \in {"done", "over"} /\ Reap(k, "end")

\* It has waited for 30 s.
Overdue ==
    /\ RunnersMayHang
    /\ \E k \in Alive : Reap(k, "overdue")

-----------------------------------------------------------------------------
(* main and StopAll.                                                       *)

\* SIGTERM: the context of Start is done.
Terminate ==
    /\ main = "up"
    /\ main' = "cancelled"
    /\ UNCHANGED <<api, start, shared, snapshot, restarts, starts>>

\* StopAll takes the Runners that are in the map, and stops them.
StopRunners ==
    /\ main = "cancelled"
    /\ snapshot' = runners
    /\ runner' = [k \in Key |->
                      IF k \in runners /\ runner[k] = "runs" THEN "stopping" ELSE runner[k]]
    /\ main' = "wait"
    /\ UNCHANGED <<api, start, runners, status, ticking, reaper, logPaths, restarts, starts>>

\* Every one of them is done: StopAll returns.
StopAllReturns ==
    /\ main = "wait"
    /\ snapshot \cap Alive = {}
    /\ snapshot' = {}
    /\ main' = "stopped"
    /\ UNCHANGED <<api, start, shared, restarts, starts>>

\* The process ends, behind StopAll or its 30 s, or by a crash.
Die ==
    /\ main # "down"
    /\ main' = "down"
    /\ pc' = "down"
    /\ stream' = <<>>
    /\ seen' = {} /\ current' = {} /\ toAdd' = {}
    /\ adding' = NoPod /\ todo' = {} /\ newKey' = NoKey /\ ready' = TRUE /\ resume' = "sync"
    /\ runners' = {} /\ status' = {} /\ ticking' = {} /\ snapshot' = {}
    /\ runner' = [k \in Key |-> "none"]
    /\ reaper' = [k \in Key |-> "none"]
    /\ starts' = [k \in Key |-> 0]
    /\ UNCHANGED <<pods, modified, logPaths, restarts>>

\* The next agent process starts.
NewAgent ==
    /\ main = "down"
    /\ restarts < MaxRestarts
    /\ main' = "up"
    /\ pc' = "first"
    /\ restarts' = restarts + 1
    /\ UNCHANGED <<api, seen, current, toAdd, onPodAdd, shared, snapshot, starts>>

-----------------------------------------------------------------------------

Start ==
    \/ List \/ SyncAdd \/ SyncDelete \/ SyncEnds
    \/ OpenWatch \/ SkipEvent \/ AddEvent \/ DeleteEvent \/ StartReturns
    \/ HasRunner \/ StartRunner \/ FirstStatus \/ EndAdd

Goroutines == RunReturns \/ RunnerOver \/ TickUpdates \/ Reaped

StopAll == StopRunners \/ StopAllReturns

Next ==
    \/ Start \/ ListFails \/ CloseWatch \/ PathFails
    \/ Goroutines \/ Tick \/ Overdue
    \/ Terminate \/ StopAll \/ Die \/ NewAgent
    \/ CreatePod \/ ModifyPod \/ DeletePod

Spec == Init /\ [][Next]_vars

\* The goroutines are scheduled, a stopped Runner returns, the API server ends each watch
\* some day and does not fail every List, and a path that fails is not to fail for ever.
FairSpec ==
    /\ Spec
    /\ WF_vars(Start)
    /\ WF_vars(RunReturns)
    /\ WF_vars(RunnerOver)
    /\ WF_vars(Reaped)
    /\ SF_vars(CloseWatch)
    /\ SF_vars(List)
    /\ SF_vars(StartRunner)

-----------------------------------------------------------------------------

\* A policy of a pod gets at most one Runner in the life of an agent: two would share a
\* state file (`seen', `exists' and the retry of pods that were not ready,
\* watcher.go:136, 178, 208).
OneRunnerPerKey == \A k \in Key : starts[k] <= 1

\* A Runner that still reads or drains has its log path, and its status, without which
\* the pod would seem to be collected (onPodDeleted's wait, watcher.go:274-282), unless it
\* did not return within 30 s.
DrainKeepsPathAndStatus ==
    \A k \in Alive :
        reaper[k] # "overdue" => k \in logPaths /\ (k \in status \/ k = newKey)

\* While a pod is there, its Runners stay in the map as long as the process does, whatever
\* Lists and watches go wrong (syncPods, consumePodWatch).  Its log paths outlive the
\* process, and go in the hands of OnPodAdd only, behind which no Runner reads them and
\* which will have to be called again for the pod (forceSymlink, symlink.go:49-52).
LivePodsUndisturbed ==
    [][\A k \in Key :
        pods[PodOf(k)] = "present" =>
            /\ k \in runners => k \in runners' \/ main' = "down"
            /\ k \in logPaths =>
                   k \in logPaths' \/ (k \notin runners /\ adding = PodOf(k) /\ ~ready')]_vars

\* Every policy of a pod that stays gets its Runner, through failed Lists, ended watches
\* and log paths that are not there yet (the retry of OnPodAdd), unless the
\* agent is stopped or its first List fails.
EveryPolicyCollected ==
    \A k \in Key :
        pods[PodOf(k)] = "present" ~>
            k \in Alive \/ pods[PodOf(k)] = "gone" \/ CtxDone \/ pc = "returned"

\* The Runners of a pod that is gone end and their log paths are removed, also when its
\* event was lost (DELETED events and the second half of syncPods).
GonePodsLetGo ==
    \A p \in Pod :
        pods[p] = "gone" /\ p \in seen ~>
            KeysOf(p) \cap (Alive \cup runners \cup logPaths) = {} \/ CtxDone
=============================================================================
