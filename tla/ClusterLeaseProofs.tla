------------------------- MODULE ClusterLeaseProofs -------------------------
(***************************************************************************)
(* Proofs about ClusterLease, for every set of nodes, TTL, ticker period   *)
(* and every kind of environment: failing calls, runners that hang, agents *)
(* that are late without bound.                                            *)
(*                                                                         *)
(* A copy of the Lease that is fresh was either held by its reader or      *)
(* expired when it was read, and time only makes it older (Copies).  The   *)
(* Lease of a holder is as old as the holder's last renewal (Renewals).    *)
(* So whoever lost the Lease has not renewed within the TTL (Claims).      *)
(***************************************************************************)
EXTENDS ClusterLease, TLAPS

\* A fresh copy is the reader's own Lease or an expired one.
Copies ==
    \A n \in Node : fresh[n] => holder # Nobody /\ (holder = n \/ age > TTL)

\* The age of the Lease is the age of its holder's last renewal.
Renewals == \A n \in Node : holder = n => age = renewed[n]

\* The node runs the collector, or is about to.
Claims(n) == Collecting(n) \/ pc[n] = "granted"

\* Who claims the Lease without holding it has not renewed for the TTL.
Losers == \A n \in Node : Claims(n) /\ holder # n => Lapsed(n)

-----------------------------------------------------------------------------

\* A move of the program counter leaves it typed (the helpers of the agents' actions).
LEMMA GotoTyped ==
  ASSUME TypeOK, NEW n \in Node, NEW label \in PCs, Goto(n, label)
  PROVE  pc' \in [Node -> PCs]
BY DEF TypeOK, Goto

\* A new try leaves a typed state (acquireClusterPolicyLease's loop).
LEMMA BeginTryTyped ==
  ASSUME TypeOK, NEW n \in Node, NEW k \in 1..MaxAttempts, BeginTry(n, k)
  PROVE  /\ pc' \in [Node -> PCs]
         /\ attempt' \in [Node -> 1..MaxAttempts]
         /\ nowAge' \in [Node -> Age]
<1>1. pc' \in [Node -> PCs]
  BY GotoTyped DEF BeginTry, PCs
<1>2. 0 \in Age
  BY LeaseAssumption DEF Age
<1> QED
  BY <1>1, <1>2 DEF BeginTry, TypeOK

\* The end of acquireClusterPolicyLease leaves a typed state.
LEMMA EndTryTyped ==
  ASSUME TypeOK, NEW n \in Node, NEW label \in PCs, EndTry(n, label)
  PROVE  /\ pc' \in [Node -> PCs]
         /\ attempt' \in [Node -> 1..MaxAttempts]
         /\ nowAge' \in [Node -> Age]
<1>1. pc' \in [Node -> PCs]
  BY GotoTyped DEF EndTry
<1>2. 0 \in Age /\ 1 \in 1..MaxAttempts
  BY LeaseAssumption DEF Age, MaxAttempts
<1> QED
  BY <1>1, <1>2 DEF EndTry, TypeOK

\* The return to Start leaves a typed state.
LEMMA EndReconcileTyped ==
  ASSUME TypeOK, NEW n \in Node, EndReconcile(n)
  PROVE  pc' \in [Node -> PCs] /\ ticker' \in [Node -> 0..Period]
<1>1. pc' \in [Node -> PCs]
  BY GotoTyped DEF EndReconcile, PCs
<1>2. Period \in 0..Period
  BY LeaseAssumption
<1> QED
  BY <1>1, <1>2 DEF EndReconcile, TypeOK

\* stopRunner leaves a typed state.
LEMMA StopRunnerTyped ==
  ASSUME TypeOK, NEW n \in Node, StopRunner(n)
  PROVE  pc' \in [Node -> PCs] /\ runner' \in [Node -> {"none", "running", "draining"}]
<1>1. pc' \in [Node -> PCs]
  BY GotoTyped DEF StopRunner, PCs
<1> QED
  BY <1>1 DEF StopRunner, TypeOK

\* What Create and Update change keeps its type.
LEMMA WriteTyped ==
  ASSUME TypeOK, NEW n \in Node, Store(n) \/ TryAgain(n) \/ CallFails(n)
  PROVE  /\ policy' \in BOOLEAN /\ holder' \in Node \cup {Nobody} /\ age' \in Age
         /\ pc' \in [Node -> PCs]
         /\ attempt' \in [Node -> 1..MaxAttempts]
         /\ nowAge' \in [Node -> Age]
         /\ fresh' \in [Node -> BOOLEAN]
         /\ renewed' \in [Node -> Age]
<1>0. "granted" \in PCs /\ "refused" \in PCs
  BY DEF PCs
<1>1. CASE Store(n)
  <2>1. EndTry(n, "granted") \/ EndTry(n, "refused")
    BY <1>1 DEF Store
  <2>2. /\ pc' \in [Node -> PCs]
        /\ attempt' \in [Node -> 1..MaxAttempts]
        /\ nowAge' \in [Node -> Age]
    BY <1>0, <2>1, EndTryTyped
  <2>3. nowAge[n] \in Age
    BY DEF TypeOK
  <2> QED
    BY <1>1, <2>2, <2>3 DEF Store, TypeOK
<1>2. CASE TryAgain(n)
  <2>1. CASE attempt[n] < MaxAttempts
    <3>1. attempt[n] + 1 \in 1..MaxAttempts
      BY <2>1 DEF TypeOK, MaxAttempts
    <3>2. BeginTry(n, attempt[n] + 1)
      BY <1>2, <2>1 DEF TryAgain
    <3> QED
      BY <1>2, <3>1, <3>2, BeginTryTyped DEF TryAgain, TypeOK, server
  <2>2. CASE ~(attempt[n] < MaxAttempts)
    <3>1. EndTry(n, "refused")
      BY <1>2, <2>2 DEF TryAgain
    <3> QED
      BY <1>0, <1>2, <3>1, EndTryTyped DEF TryAgain, TypeOK, server
  <2> QED
    BY <2>1, <2>2
<1>3. CASE CallFails(n)
  BY <1>0, <1>3, EndTryTyped DEF CallFails, TypeOK, server
<1> QED
  BY <1>1, <1>2, <1>3

-----------------------------------------------------------------------------

\* The state starts, and stays, of its type (every variable of ClusterLease).
THEOREM TypeCorrect == Spec => []TypeOK
<1> USE LeaseAssumption, NobodyAssumption
<1>1. Init => TypeOK
  BY DEF Init, TypeOK, Age, MaxAttempts, PCs
<1>2. TypeOK /\ [Next]_vars => TypeOK'
  <2> SUFFICES ASSUME TypeOK, [Next]_vars
               PROVE  TypeOK'
    OBVIOUS
  <2>1. CASE Tick
    BY <2>1 DEF Tick, Older, TypeOK, Age
  <2>2. CASE EditPolicy
    BY <2>2 DEF EditPolicy, TypeOK
  <2>3. ASSUME NEW n \in Node, Crash(n) \/ Exit(n)
        PROVE  TypeOK'
    <3>1. Forget(n) /\ restarts' \in 0..MaxRestarts
      BY <2>3 DEF Crash, Exit, TypeOK
    <3>2. /\ pc' \in [Node -> PCs]
          /\ attempt' \in [Node -> 1..MaxAttempts]
          /\ nowAge' \in [Node -> Age]
      BY <3>1 DEF Forget, TypeOK, PCs, MaxAttempts, Age
    <3>3. /\ fresh' \in [Node -> BOOLEAN]
          /\ seen' \in [Node -> BOOLEAN]
          /\ ticker' \in [Node -> 0..Period]
          /\ tick' \in [Node -> BOOLEAN]
      BY <3>1 DEF Forget, TypeOK
    <3>4. UNCHANGED <<policy, holder, age, late, renewed>>
      BY <3>1 DEF Forget, server
    <3>5. /\ runner' \in [Node -> {"none", "running", "draining"}]
          /\ orphan' \in [Node -> BOOLEAN]
      BY <2>3 DEF Crash, Exit, TypeOK
    <3> QED
      BY <3>1, <3>2, <3>3, <3>4, <3>5 DEF TypeOK
  <2>4. ASSUME NEW n \in Node, Start(n) \/ TakeTick(n)
        PROVE  TypeOK'
    BY <2>4 DEF Start, TakeTick, Goto, server, TypeOK, PCs
  <2>5. ASSUME NEW n \in Node, List(n)
        PROVE  TypeOK'
    <3>1. 1 \in 1..MaxAttempts
      BY DEF MaxAttempts
    <3>2. /\ pc' \in [Node -> PCs] /\ attempt' \in [Node -> 1..MaxAttempts]
          /\ nowAge' \in [Node -> Age]
          /\ runner' \in [Node -> {"none", "running", "draining"}]
          /\ ticker' \in [Node -> 0..Period]
      BY <2>5, <3>1, BeginTryTyped, StopRunnerTyped, EndReconcileTyped DEF List, TypeOK
    <3> QED
      BY <2>5, <3>2 DEF List, TypeOK, server
  <2>6. ASSUME NEW n \in Node, Get(n)
        PROVE  TypeOK'
    <3>1. /\ pc' \in [Node -> PCs] /\ attempt' \in [Node -> 1..MaxAttempts]
          /\ nowAge' \in [Node -> Age]
      <4>1. {"create", "update", "refused"} \subseteq PCs
        BY DEF PCs
      <4> QED
        BY <2>6, <4>1, GotoTyped, EndTryTyped DEF Get, TypeOK
    <3>2. fresh' \in [Node -> BOOLEAN]
      BY <2>6 DEF Get, TypeOK
    <3> QED
      BY <2>6, <3>1, <3>2 DEF Get, TypeOK, server
  <2>7. ASSUME NEW n \in Node, Create(n) \/ Update(n)
        PROVE  TypeOK'
    <3>1. Store(n) \/ TryAgain(n) \/ CallFails(n)
      BY <2>7 DEF Create, Update
    <3>2. UNCHANGED <<seen, runner, orphan, ticker, tick, late, restarts>>
      BY <2>7 DEF Create, Update
    <3> QED
      BY <3>1, <3>2, WriteTyped DEF TypeOK
  <2>8. ASSUME NEW n \in Node, Granted(n)
        PROVE  TypeOK'
    BY <2>8, EndReconcileTyped DEF Granted, TypeOK, server
  <2>9. ASSUME NEW n \in Node, Refused(n)
        PROVE  TypeOK'
    <3>1. /\ pc' \in [Node -> PCs]
          /\ runner' \in [Node -> {"none", "running", "draining"}]
          /\ ticker' \in [Node -> 0..Period]
      BY <2>9, EndReconcileTyped, StopRunnerTyped DEF Refused, TypeOK
    <3> QED
      BY <2>9, <3>1 DEF Refused, TypeOK, server
  <2>10. ASSUME NEW n \in Node, StopReturns(n)
         PROVE  TypeOK'
    <3>1. /\ runner' \in [Node -> {"none", "running", "draining"}]
          /\ orphan' \in [Node -> BOOLEAN]
          /\ seen' \in [Node -> BOOLEAN]
      BY <2>10 DEF StopReturns, TypeOK
    <3> QED
      BY <2>10, <3>1, EndReconcileTyped DEF StopReturns, TypeOK, server
  <2>11. ASSUME NEW n \in Node, RunnerDone(n)
         PROVE  TypeOK'
    <3>1. /\ runner' \in [Node -> {"none", "running", "draining"}]
          /\ orphan' \in [Node -> BOOLEAN]
      BY <2>11 DEF RunnerDone, TypeOK
    <3> QED
      BY <2>11, <3>1 DEF RunnerDone, TypeOK, server
  <2>12. CASE UNCHANGED vars
    BY <2>12 DEF vars, TypeOK, server
  <2> QED
    BY <2>1, <2>2, <2>3, <2>4, <2>5, <2>6, <2>7, <2>8, <2>9, <2>10, <2>11, <2>12
       DEF Next, Agent
<1> QED
  BY <1>1, <1>2, PTL DEF Spec

-----------------------------------------------------------------------------

LeaseInv == Copies /\ Renewals /\ Losers

\* A write of the Lease makes its writer the holder, with a renewal as old as
\* the Lease; who loses it had let it expire.
LEMMA StoreKeeps ==
  ASSUME TypeOK, TypeOK', LeaseInv, NEW n \in Node, Store(n),
         holder = Nobody \/ fresh[n],
         UNCHANGED <<runner, orphan>>
  PROVE  LeaseInv'
<1> USE NobodyAssumption
<1>1. /\ holder' = n /\ age' = nowAge[n]
      /\ renewed' = [renewed EXCEPT ![n] = nowAge[n]]
      /\ fresh' = [m \in Node |-> FALSE]
  BY DEF Store
<1>2. Copies'
  BY <1>1 DEF Copies
<1>3. Renewals'
  BY <1>1 DEF Renewals, TypeOK
<1>4. ASSUME NEW m \in Node, Claims(m)', m # n
      PROVE  Lapsed(m)'
  <2>1. pc'[m] = pc[m]
    BY <1>4 DEF Store, EndTry, Goto, TypeOK
  <2>2. Claims(m)
    BY <1>4, <2>1 DEF Claims, Collecting
  <2>3. holder = m => age > TTL
    BY <1>4 DEF LeaseInv, Copies
  <2>4. Lapsed(m)
    BY <2>2, <2>3 DEF LeaseInv, Losers, Renewals, Lapsed
  <2>5. renewed'[m] = renewed[m]
    BY <1>1, <1>4 DEF TypeOK
  <2> QED
    BY <2>4, <2>5 DEF Lapsed
<1>5. Losers'
  BY <1>1, <1>4 DEF Losers
<1> QED
  BY <1>2, <1>3, <1>5 DEF LeaseInv

\* Time makes every age larger, and none smaller than the TTL once above it.
LEMMA TickKeeps ==
  ASSUME TypeOK, LeaseInv, Tick
  PROVE  LeaseInv'
<1> USE LeaseAssumption, NobodyAssumption DEF Age
<1>1. /\ UNCHANGED <<holder, fresh, pc, runner, orphan>>
      /\ age' = IF holder = Nobody THEN age ELSE Older(age)
      /\ renewed' = [n \in Node |-> Older(renewed[n])]
  BY DEF Tick
<1>2. \A a \in Age : a > TTL => Older(a) > TTL
  BY DEF Older
<1>3. Copies'
  BY <1>1, <1>2 DEF LeaseInv, Copies, TypeOK
<1>4. Renewals'
  BY <1>1 DEF LeaseInv, Renewals
<1>5. Losers'
  <2>1. \A n \in Node : Claims(n)' <=> Claims(n)
    BY <1>1 DEF Claims, Collecting
  <2>2. \A n \in Node : Lapsed(n) => Lapsed(n)'
    BY <1>1, <1>2 DEF Lapsed, TypeOK
  <2> QED
    BY <1>1, <2>1, <2>2 DEF LeaseInv, Losers
<1> QED
  BY <1>3, <1>4, <1>5 DEF LeaseInv

\* A step that leaves the Lease alone, reads it at most, and lets nobody claim it.
LEMMA QuietKeeps ==
  ASSUME LeaseInv,
         UNCHANGED <<holder, age, renewed>>,
         \A m \in Node : fresh'[m] =>
             fresh[m] \/ (holder # Nobody /\ (holder = m \/ age > TTL)),
         \A m \in Node : Claims(m)' => Claims(m)
  PROVE  LeaseInv'
<1>1. Copies'
  BY DEF LeaseInv, Copies
<1>2. Renewals'
  BY DEF LeaseInv, Renewals
<1>3. Losers'
  BY DEF LeaseInv, Losers, Lapsed
<1> QED
  BY <1>1, <1>2, <1>3 DEF LeaseInv

\* The steps of n that are neither a write nor a Get are quiet.
LEMMA OtherStepsQuiet ==
  ASSUME TypeOK, NEW n \in Node,
         \/ Start(n) \/ TakeTick(n) \/ List(n) \/ Granted(n) \/ Refused(n)
         \/ StopReturns(n) \/ RunnerDone(n) \/ Crash(n) \/ Exit(n)
  PROVE  /\ UNCHANGED <<holder, age, renewed>>
         /\ \A m \in Node : fresh'[m] => fresh[m]
         /\ \A m \in Node : Claims(m)' => Claims(m)
<1>1. UNCHANGED <<holder, age, renewed>>
  BY DEF Start, TakeTick, List, Granted, Refused, StopReturns, RunnerDone, Crash, Exit,
     Forget, server
<1>2. \A m \in Node : fresh'[m] => fresh[m]
  BY DEF Start, TakeTick, List, Granted, Refused, StopReturns, RunnerDone, Crash, Exit,
     Forget, TypeOK
<1>3. ASSUME NEW m \in Node, Claims(m)'
      PROVE  Claims(m)
  <2> USE <1>3 DEF Claims, Collecting, TypeOK, Goto
  <2>1. CASE Start(n) \/ TakeTick(n)
    BY <2>1 DEF Start, TakeTick
  <2>2. CASE List(n)
    BY <2>2 DEF List, BeginTry, StopRunner, EndReconcile
  <2>3. CASE Granted(n)
    BY <2>3 DEF Granted, EndReconcile
  <2>4. CASE Refused(n)
    BY <2>4 DEF Refused, StopRunner, EndReconcile
  <2>5. CASE StopReturns(n)
    BY <2>5 DEF StopReturns, EndReconcile
  <2>6. CASE RunnerDone(n)
    BY <2>6 DEF RunnerDone
  <2>7. CASE Crash(n) \/ Exit(n)
    BY <2>7 DEF Crash, Exit, Forget
  <2> QED
    BY <2>1, <2>2, <2>3, <2>4, <2>5, <2>6, <2>7
<1> QED
  BY <1>1, <1>2, <1>3

\* Every step keeps the invariant.
LEMMA StepKeeps ==
  ASSUME TypeOK, TypeOK', LeaseInv, [Next]_vars
  PROVE  LeaseInv'
<1>1. CASE Tick
  BY <1>1, TickKeeps
<1>2. CASE EditPolicy \/ UNCHANGED vars
  <2>1. UNCHANGED <<holder, age, renewed, fresh, pc, runner, orphan>>
    BY <1>2 DEF EditPolicy, vars, server
  <2>2. \A m \in Node : Claims(m)' => Claims(m)
    BY <2>1 DEF Claims, Collecting
  <2> QED
    BY <2>1, <2>2, QuietKeeps
<1>3. ASSUME NEW n \in Node,
             \/ Start(n) \/ TakeTick(n) \/ List(n) \/ Granted(n) \/ Refused(n)
             \/ StopReturns(n) \/ RunnerDone(n) \/ Crash(n) \/ Exit(n)
      PROVE  LeaseInv'
  BY <1>3, OtherStepsQuiet, QuietKeeps
<1>4. ASSUME NEW n \in Node, Get(n)
      PROVE  LeaseInv'
  <2>1. UNCHANGED <<holder, age, renewed>> /\ UNCHANGED <<runner, orphan>>
    BY <1>4 DEF Get, server
  <2>2. \A m \in Node : fresh'[m] =>
            fresh[m] \/ (holder # Nobody /\ (holder = m \/ age > TTL))
    BY <1>4, LeaseAssumption DEF Get, HeldByOther, TypeOK, Age
  <2>3. \A m \in Node : Claims(m)' => Claims(m)
    BY <1>4, <2>1 DEF Get, EndTry, Goto, Claims, Collecting, TypeOK
  <2> QED
    BY <2>1, <2>2, <2>3, QuietKeeps
<1>5. ASSUME NEW n \in Node, Create(n) \/ Update(n)
      PROVE  LeaseInv'
  <2>1. UNCHANGED <<runner, orphan>>
    BY <1>5 DEF Create, Update
  <2>2. CASE Store(n) /\ (holder = Nobody \/ fresh[n])
    BY <2>1, <2>2, StoreKeeps
  <2>3. CASE TryAgain(n) \/ CallFails(n)
    <3>1. UNCHANGED <<holder, age, renewed>>
      BY <2>3 DEF TryAgain, CallFails, server
    <3>2. \A m \in Node : fresh'[m] => fresh[m]
      BY <2>3 DEF TryAgain, CallFails, TypeOK
    <3>3. \A m \in Node : pc'[m] = "granted" => pc[m] = "granted"
      BY <2>3 DEF TryAgain, CallFails, BeginTry, EndTry, Goto, TypeOK
    <3>4. \A m \in Node : Claims(m)' => Claims(m)
      BY <2>1, <3>3 DEF Claims, Collecting
    <3> QED
      BY <3>1, <3>2, <3>4, QuietKeeps
  <2> QED
    BY <1>5, <2>2, <2>3 DEF Create, Update
<1> QED
  BY <1>1, <1>2, <1>3, <1>4, <1>5 DEF Next, Agent

\* The invariant holds always.
THEOREM LeaseInvariant == Spec => []LeaseInv
<1>1. Init => LeaseInv
  BY NobodyAssumption DEF Init, LeaseInv, Copies, Renewals, Losers, Claims, Collecting
<1>2. TypeOK /\ TypeOK' /\ LeaseInv /\ [Next]_vars => LeaseInv'
  BY StepKeeps
<1> QED
  BY <1>1, <1>2, TypeCorrect, PTL DEF Spec

\* Of two nodes that run the collector at once, one has not renewed within the TTL
\* (acquireClusterPolicyLease and stopRunner of watcher.go).
THEOREM OverlapOnlyAfterLapse == Spec => []OverlapNeedsLapse
<1>1. LeaseInv => OverlapNeedsLapse
  BY DEF LeaseInv, Losers, Claims, OverlapNeedsLapse
<1> QED
  BY <1>1, LeaseInvariant, PTL

\* The Lease of another agent is taken over only once it has expired (the
\* resourceVersion of the Update in acquireClusterPolicyLease).
THEOREM TakeoverSafe == Spec => TakeoverOnlyExpired
<1>1. LeaseInv /\ TypeOK /\ [Next]_vars
      => [holder' # holder => holder = Nobody \/ age > TTL]_vars
  <2> SUFFICES ASSUME LeaseInv, TypeOK, Next, holder' # holder
               PROVE  holder = Nobody \/ age > TTL
    BY Zenon
  <2>1. PICK n \in Node : Store(n) /\ (holder = Nobody \/ fresh[n])
    BY DEF Next, Agent, Tick, EditPolicy, Start, TakeTick, List, Get, Create, Update,
       TryAgain, CallFails, Granted, Refused, StopReturns, RunnerDone, Crash, Exit,
       Forget, server
  <2>2. holder' = n
    BY <2>1 DEF Store
  <2> QED
    BY <2>1, <2>2 DEF LeaseInv, Copies
<1> QED
  BY <1>1, LeaseInvariant, TypeCorrect, PTL DEF Spec, TakeoverOnlyExpired
=============================================================================
