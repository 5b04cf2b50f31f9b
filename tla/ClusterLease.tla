---------------------------- MODULE ClusterLease ----------------------------
(***************************************************************************)
(* The cluster-scoped collector of one ClusterLogPilotPolicy.  The agent   *)
(* of every node reconciles the policy when it starts and on a 30 s        *)
(* ticker: it takes or renews a coordination Lease through the API server  *)
(* and runs the collector as long as its reconciles are granted the Lease  *)
(* (watcher/watcher.go).                                                   *)
(*                                                                         *)
(* Time is kept as ages that saturate above the TTL, so that the clock     *)
(* itself is unbounded.  One clock serves all nodes: skew between them is  *)
(* not modelled.  The resourceVersion of the Lease is kept as a flag per   *)
(* node: whether what the node has read is still the stored object.        *)
(***************************************************************************)
EXTENDS Naturals

CONSTANTS
    Node,           \* nodes that run an agent
    TTL,            \* leaseDuration, in clock units
    Period,         \* of the ticker, in clock units
    MaxRestarts,    \* bound: agents started again after a crash or exit
    ApiMayFail,     \* whether calls to the API server may fail
    RunnerMayHang,  \* whether a stopped runner may outlast stopRunner's wait
    Prompt,         \* whether agents get their work done in bounded time
    MaxLate         \* if so, the clock units an agent may be at work

ASSUME LeaseAssumption ==
    /\ TTL \in Nat
    /\ Period \in Nat \ {0}
    /\ MaxRestarts \in Nat
    /\ ApiMayFail \in BOOLEAN
    /\ RunnerMayHang \in BOOLEAN
    /\ Prompt \in BOOLEAN
    /\ MaxLate \in Nat

\* The tries of acquireClusterPolicyLease.
MaxAttempts == 3

Nobody == "nobody"

\* NodeName tells the agents apart and is never empty.
ASSUME NobodyAssumption == Nobody \notin Node

VARIABLES
    \* the API server
    policy,         \* the ClusterLogPilotPolicy exists
    holder,         \* HolderIdentity of the Lease; Nobody: there is no Lease
    age,            \* time since the Lease's RenewTime
    \* the agents
    pc,             \* where the Start goroutine of a node is
    attempt,        \* which try of acquireClusterPolicyLease
    nowAge,         \* time since that try took its `now'
    fresh,          \* the Lease has not changed since the node's Get
    seen,           \* clusterSeen has the policy
    runner,         \* the runner of the policy
    orphan,         \* a runner stopRunner stopped waiting for still drains
    ticker,         \* time to the next tick; 0: the ticker is not there yet
    tick,           \* a tick waits in the ticker's channel
    late,           \* clock units the agent has been at work, when Prompt
    restarts,       \* agents started again
    \* read by the properties only
    renewed         \* time since the last RenewTime the node wrote

server == <<policy, holder, age>>
vars == <<server, pc, attempt, nowAge, fresh, seen, runner, orphan, ticker, tick,
          late, restarts, renewed>>

Age == 0 .. TTL + 1

PCs == {"off", "failed", "idle", "list", "get", "create", "update", "granted",
        "refused", "stopping"}

TypeOK ==
    /\ policy \in BOOLEAN
    /\ holder \in Node \cup {Nobody}
    /\ age \in Age
    /\ pc \in [Node -> PCs]
    /\ attempt \in [Node -> 1..MaxAttempts]
    /\ nowAge \in [Node -> Age]
    /\ fresh \in [Node -> BOOLEAN]
    /\ seen \in [Node -> BOOLEAN]
    /\ runner \in [Node -> {"none", "running", "draining"}]
    /\ orphan \in [Node -> BOOLEAN]
    /\ ticker \in [Node -> 0..Period]
    /\ tick \in [Node -> BOOLEAN]
    /\ late \in [Node -> 0..MaxLate]
    /\ restarts \in 0..MaxRestarts
    /\ renewed \in [Node -> Age]

Collecting(n) == runner[n] # "none" \/ orphan[n]

\* The agent is in a reconcile, has one waiting, or waits for a runner.
Busy(n) ==
    \/ pc[n] \notin {"off", "failed", "idle"}
    \/ tick[n]
    \/ runner[n] = "draining"
    \/ orphan[n]

-----------------------------------------------------------------------------

\* Nothing runs yet and no agent ever held the Lease.
Init ==
    /\ policy \in BOOLEAN
    /\ holder = Nobody
    /\ age = 0
    /\ pc = [n \in Node |-> "off"]
    /\ attempt = [n \in Node |-> 1]
    /\ nowAge = [n \in Node |-> 0]
    /\ fresh = [n \in Node |-> FALSE]
    /\ seen = [n \in Node |-> FALSE]
    /\ runner = [n \in Node |-> "none"]
    /\ orphan = [n \in Node |-> FALSE]
    /\ ticker = [n \in Node |-> 0]
    /\ tick = [n \in Node |-> FALSE]
    /\ late = [n \in Node |-> 0]
    /\ restarts = 0
    /\ renewed = [n \in Node |-> TTL + 1]

-----------------------------------------------------------------------------
(* The environment.                                                        *)

Older(a) == IF a > TTL THEN a ELSE a + 1

\* One unit of time passes.  A tick that finds the channel full is lost.
Tick ==
    /\ Prompt => \A n \in Node : Busy(n) => late[n] < MaxLate
    /\ late' = [n \in Node |-> IF Prompt /\ Busy(n) THEN late[n] + 1 ELSE 0]
    /\ age' = IF holder = Nobody THEN age ELSE Older(age)
    /\ nowAge' = [n \in Node |->
           IF pc[n] \in {"get", "create", "update"} THEN Older(nowAge[n]) ELSE nowAge[n]]
    /\ renewed' = [n \in Node |-> Older(renewed[n])]
    /\ ticker' = [n \in Node |->
           IF ticker[n] = 0 THEN 0 ELSE IF ticker[n] = 1 THEN Period ELSE ticker[n] - 1]
    /\ tick' = [n \in Node |-> tick[n] \/ ticker[n] = 1]
    /\ UNCHANGED <<policy, holder, pc, attempt, fresh, seen, runner, orphan, restarts>>

\* A user creates or deletes the policy.
EditPolicy ==
    /\ policy' = ~policy
    /\ UNCHANGED <<holder, age, pc, attempt, nowAge, fresh, seen, runner, orphan, ticker,
                   tick, late, restarts, renewed>>

\* What an agent keeps in memory is gone; the Lease is not released.
Forget(n) ==
    /\ pc' = [pc EXCEPT ![n] = "off"]
    /\ attempt' = [attempt EXCEPT ![n] = 1]
    /\ nowAge' = [nowAge EXCEPT ![n] = 0]
    /\ fresh' = [fresh EXCEPT ![n] = FALSE]
    /\ seen' = [seen EXCEPT ![n] = FALSE]
    /\ ticker' = [ticker EXCEPT ![n] = 0]
    /\ tick' = [tick EXCEPT ![n] = FALSE]
    /\ UNCHANGED <<server, late, renewed>>

\* The agent of a node dies.
Crash(n) ==
    /\ pc[n] # "off"
    /\ restarts < MaxRestarts
    /\ restarts' = restarts + 1
    /\ Forget(n)
    /\ runner' = [runner EXCEPT ![n] = "none"]
    /\ orphan' = [orphan EXCEPT ![n] = FALSE]

\* The agent is told to exit: the context of Start ends and StopAll lets the
\* runner drain.
Exit(n) ==
    /\ pc[n] # "off"
    /\ restarts < MaxRestarts
    /\ restarts' = restarts + 1
    /\ Forget(n)
    /\ runner' = [runner EXCEPT ![n] = IF runner[n] = "none" THEN "none" ELSE "draining"]
    /\ UNCHANGED orphan

-----------------------------------------------------------------------------
(* The Start goroutine of an agent.                                        *)

\* Only the program counter of n moves.
Goto(n, label) == pc' = [pc EXCEPT ![n] = label]

\* acquireClusterPolicyLease begins a try; its `now' is taken first.
BeginTry(n, k) ==
    /\ Goto(n, "get")
    /\ attempt' = [attempt EXCEPT ![n] = k]
    /\ nowAge' = [nowAge EXCEPT ![n] = 0]

\* acquireClusterPolicyLease returns.
EndTry(n, label) ==
    /\ Goto(n, label)
    /\ attempt' = [attempt EXCEPT ![n] = 1]
    /\ nowAge' = [nowAge EXCEPT ![n] = 0]

\* reconcileClusterPolicies returns to Start, which creates the ticker
\* after its first reconcile.
EndReconcile(n) ==
    /\ Goto(n, "idle")
    /\ ticker' = [ticker EXCEPT ![n] = IF ticker[n] = 0 THEN Period ELSE ticker[n]]

\* Start: the first syncPods succeeds and the first reconcile begins, or it
\* fails and Start returns, the process living on without it.
Start(n) ==
    /\ pc[n] = "off"
    /\ ~Collecting(n)
    /\ \/ Goto(n, "list")
       \/ ApiMayFail /\ Goto(n, "failed")
    /\ UNCHANGED <<server, attempt, nowAge, fresh, seen, runner, orphan, ticker, tick,
                   late, restarts, renewed>>

\* consumePodWatch takes the tick out of the channel.
TakeTick(n) ==
    /\ pc[n] = "idle"
    /\ tick[n]
    /\ tick' = [tick EXCEPT ![n] = FALSE]
    /\ Goto(n, "list")
    /\ UNCHANGED <<server, attempt, nowAge, fresh, seen, runner, orphan, ticker, late,
                   restarts, renewed>>

\* stopRunner: the entry is taken out of the map and the runner is stopped.
StopRunner(n) ==
    /\ Goto(n, "stopping")
    /\ runner' = [runner EXCEPT ![n] = IF runner[n] = "none" THEN "none" ELSE "draining"]

\* reconcileClusterPolicies lists the policies: it returns at once when that
\* fails, stops the runner of a policy that is gone, and else goes for the Lease.
List(n) ==
    /\ pc[n] = "list"
    /\ \/ /\ policy
          /\ BeginTry(n, 1)
          /\ UNCHANGED <<runner, ticker>>
       \/ /\ ~policy /\ seen[n]
          /\ StopRunner(n)
          /\ UNCHANGED <<attempt, nowAge, ticker>>
       \/ /\ (~policy /\ ~seen[n]) \/ ApiMayFail
          /\ EndReconcile(n)
          /\ UNCHANGED <<attempt, nowAge, runner>>
    /\ UNCHANGED <<server, fresh, seen, orphan, tick, late, restarts, renewed>>

\* Mutation: the Lease is taken for expired one unit early.
MutHeldByOtherEarly(n) == holder # n /\ age < TTL

\* Mutation: nobody's Lease ever expires.
MutHeldByOtherForever(n) == holder # n

\* Somebody else holds the Lease and has renewed it within the TTL.
HeldByOther(n) == holder # n /\ age <= TTL

\* The Get of a try, and the check of the Lease it returns.
Get(n) ==
    /\ pc[n] = "get"
    /\ \/ /\ holder = Nobody
          /\ Goto(n, "create")
          /\ UNCHANGED <<attempt, nowAge, fresh>>
       \/ /\ holder # Nobody
          /\ ~HeldByOther(n)
          /\ Goto(n, "update")
          /\ fresh' = [fresh EXCEPT ![n] = TRUE]
          /\ UNCHANGED <<attempt, nowAge>>
       \/ /\ (holder # Nobody /\ HeldByOther(n)) \/ ApiMayFail
          /\ EndTry(n, "refused")
          /\ UNCHANGED fresh
    /\ UNCHANGED <<server, seen, runner, orphan, ticker, tick, late, restarts, renewed>>

\* Mutation: a renewal leaves RenewTime alone.
MutStore(n) ==
    /\ holder' = n
    /\ UNCHANGED age
    /\ renewed' = [renewed EXCEPT ![n] = nowAge[n]]
    /\ fresh' = [m \in Node |-> FALSE]
    /\ \/ EndTry(n, "granted")
       \/ ApiMayFail /\ EndTry(n, "refused")
    /\ UNCHANGED policy

\* The server stores the Lease of n, with the `now' of the try as RenewTime, and
\* every copy read before is out of date.  The answer is lost at times.
Store(n) ==
    /\ holder' = n
    /\ age' = nowAge[n]
    /\ renewed' = [renewed EXCEPT ![n] = nowAge[n]]
    /\ fresh' = [m \in Node |-> FALSE]
    /\ \/ EndTry(n, "granted")
       \/ ApiMayFail /\ EndTry(n, "refused")
    /\ UNCHANGED policy

\* Mutation: the number of tries is not limited.
MutTryAgain(n) ==
    /\ BeginTry(n, attempt[n] + 1)
    /\ UNCHANGED <<server, fresh, renewed>>

\* The server meets a Lease written in the meantime: the try is repeated, up to
\* MaxAttempts times.
TryAgain(n) ==
    /\ IF attempt[n] < MaxAttempts
          THEN BeginTry(n, attempt[n] + 1)
          ELSE EndTry(n, "refused")
    /\ UNCHANGED <<server, fresh, renewed>>

\* The call fails before the server stores anything.
CallFails(n) ==
    /\ ApiMayFail
    /\ EndTry(n, "refused")
    /\ fresh' = [fresh EXCEPT ![n] = FALSE]
    /\ UNCHANGED <<server, renewed>>

\* The Create of a try; AlreadyExists leads to another try.
Create(n) ==
    /\ pc[n] = "create"
    /\ \/ holder = Nobody /\ Store(n)
       \/ holder # Nobody /\ TryAgain(n)
       \/ CallFails(n)
    /\ UNCHANGED <<seen, runner, orphan, ticker, tick, late, restarts>>

\* Mutation: the Update carries no resourceVersion.
MutUpdate(n) ==
    /\ pc[n] = "update"
    /\ Store(n) \/ CallFails(n)
    /\ UNCHANGED <<seen, runner, orphan, ticker, tick, late, restarts>>

\* The Update of a try, under the resourceVersion of its Get; Conflict leads
\* to another try.
Update(n) ==
    /\ pc[n] = "update"
    /\ \/ fresh[n] /\ Store(n)
       \/ ~fresh[n] /\ TryAgain(n)
       \/ CallFails(n)
    /\ UNCHANGED <<seen, runner, orphan, ticker, tick, late, restarts>>

\* reconcileClusterPolicies after a granted Lease: startClusterPolicyRunner, unless
\* the policy's runner is there already.
Granted(n) ==
    /\ pc[n] = "granted"
    /\ seen' = [seen EXCEPT ![n] = TRUE]
    /\ runner' = [runner EXCEPT ![n] = IF seen[n] THEN @ ELSE "running"]
    /\ EndReconcile(n)
    /\ UNCHANGED <<server, attempt, nowAge, fresh, orphan, tick, late, restarts, renewed>>

\* Mutation: a refused Lease leaves the runner alone.
MutRefused(n) ==
    /\ pc[n] = "refused"
    /\ EndReconcile(n)
    /\ UNCHANGED <<server, attempt, nowAge, fresh, seen, runner, orphan, tick, late,
                   restarts, renewed>>

\* reconcileClusterPolicies after a refused Lease.
Refused(n) ==
    /\ pc[n] = "refused"
    /\ IF seen[n]
          THEN StopRunner(n) /\ UNCHANGED ticker
          ELSE EndReconcile(n) /\ UNCHANGED runner
    /\ UNCHANGED <<server, attempt, nowAge, fresh, seen, orphan, tick, late, restarts, renewed>>

\* stopRunner returns when the runner is done, or after its 30 s.
StopReturns(n) ==
    /\ pc[n] = "stopping"
    /\ \/ /\ runner[n] = "none"
          /\ UNCHANGED <<runner, orphan>>
       \/ /\ runner[n] = "draining"
          /\ RunnerMayHang
          /\ runner' = [runner EXCEPT ![n] = "none"]
          /\ orphan' = [orphan EXCEPT ![n] = TRUE]
    /\ seen' = [seen EXCEPT ![n] = FALSE]
    /\ EndReconcile(n)
    /\ UNCHANGED <<server, attempt, nowAge, fresh, tick, late, restarts, renewed>>

\* A stopped runner returns from Run.
RunnerDone(n) ==
    /\ \/ /\ runner[n] = "draining"
          /\ runner' = [runner EXCEPT ![n] = "none"]
          /\ UNCHANGED orphan
       \/ /\ orphan[n]
          /\ orphan' = [orphan EXCEPT ![n] = FALSE]
          /\ UNCHANGED runner
    /\ UNCHANGED <<server, pc, attempt, nowAge, fresh, seen, ticker, tick, late, restarts, renewed>>

-----------------------------------------------------------------------------

Agent(n) ==
    \/ TakeTick(n) \/ List(n) \/ Get(n) \/ Create(n) \/ Update(n)
    \/ Granted(n) \/ Refused(n) \/ StopReturns(n)

Next ==
    \/ Tick \/ EditPolicy
    \/ \E n \in Node : Start(n) \/ Agent(n) \/ RunnerDone(n) \/ Crash(n) \/ Exit(n)

Spec == Init /\ [][Next]_vars

\* Time passes, the goroutines of live agents are scheduled, stopped runners return.  Of the
\* calls that an agent makes again and again, the List, the Get and the write each get
\* through and are answered now and then.  No node is certain to get its agent back.
FairSpec ==
    /\ Spec
    /\ WF_vars(Tick)
    /\ \A n \in Node :
           /\ WF_vars(Agent(n)) /\ WF_vars(RunnerDone(n))
           /\ SF_vars(List(n) /\ pc'[n] # "idle")
           /\ SF_vars(Get(n) /\ pc'[n] # "refused")
           /\ SF_vars((Create(n) \/ Update(n)) /\ pc'[n] = "granted")

-----------------------------------------------------------------------------

\* The Lease of another agent is taken over only once it has expired, however the
\* Get and the Update of two agents interleave (watcher.go:486-508).
TakeoverOnlyExpired ==
    [][holder' # holder => holder = Nobody \/ age > TTL]_vars

\* The node has not renewed within the TTL.
Lapsed(n) == renewed[n] > TTL

\* Of two nodes that run the collector at once, one has let more than the TTL go
\* by since its last renewal (acquireClusterPolicyLease, stopRunner).
OverlapNeedsLapse ==
    \A m, n \in Node :
        m # n /\ Collecting(m) /\ Collecting(n) => Lapsed(m) \/ Lapsed(n)

\* README.md:137 says: "Only one agent instance actively runs a
\* cluster-scoped collector at a time."
OneCollector ==
    \A m, n \in Node : Collecting(m) /\ Collecting(n) => m = n

\* While a policy and the agent of some node stay, the policy is collected again
\* and again, by whatever node: the Lease of a dead agent is taken over, and lost races
\* for it, failing calls and lost answers do not keep it from everybody
\* (watcher.go:358-369, 486-502).
CollectedAgain ==
    <>[]policy /\ (\E n \in Node : <>[](pc[n] \notin {"off", "failed"}))
        => []<>(\E n \in Node : Collecting(n))

\* A node that has lost the Lease stops its collector, or wins the Lease
\* back, though it learns of the loss only when its calls get through (watcher.go:350-363).
LoserStops ==
    \A n \in Node : (Collecting(n) /\ holder # n) ~> (~Collecting(n) \/ holder = n)
=============================================================================
