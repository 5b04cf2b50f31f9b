--------------------------- MODULE PoliciesProofs ---------------------------
(***************************************************************************)
(* Proofs about Policies, for any policies, specifications and pods, and   *)
(* any number of edits.                                                    *)
(*                                                                         *)
(* What the operator has accepted can be run because a judgement is written*)
(* over the version that was judged (Judgement), and because what the      *)
(* validation lets through can be built or is malformed.  What is written  *)
(* is read because the webhook and the agent, which know of each other only*)
(* by the annotation, take the same view of an undisturbed container policy*)
(* (LogDirStep: an agent keeps the directory it was started with).         *)
(***************************************************************************)
EXTENDS Policies, SequenceTheorems, FiniteSetTheorems, TLAPS

Status == [ok : BOOLEAN, gen : 0..MaxChanges + 1]
Version == [spec : Specs, gen : 1..MaxChanges + 1, status : Status]

\* The versions of a policy, wherever they are.
Typed ==
    /\ policies \in [Policy -> Version \cup {Absent}]
    /\ cached \in [Policy -> Version \cup {Absent}]
    /\ deleted \subseteq Policy /\ dirty \subseteq Policy
    /\ changes \in 0..MaxChanges
    /\ view # Absent => view \in [name : Policy, policy : Version \ {Absent}]

\* A judgement is about a generation that was there, and if about the newest, about its
\* specification.
Judgement ==
    \A p \in Policy :
        Exists(p) =>
            /\ policies[p].gen <= changes + 1
            /\ policies[p].status.gen <= policies[p].gen
            /\ policies[p].status.gen = policies[p].gen =>
                   policies[p].status.ok = Valid(policies[p].spec)

\* The pod is as the webhook has made it, and the Runners as the agent has.
Made ==
    /\ pod # Absent =>
           \E spec \in PodSpecs, cps \in Seq(ContainerPolicy) : pod = Inject(spec, cps)
    /\ runners # <<>> => pod # Absent /\ runners = RunnersFor(logDir, pod.policies)

IInv == Typed /\ Judgement /\ Made /\ logDir \in LogDirs

-----------------------------------------------------------------------------
(* The container policies of a pod.                                        *)

\* A set of natural numbers has a least one.
LEMMA Smallest ==
    ASSUME NEW T \in SUBSET Nat, T # {}
    PROVE  \E m \in T : \A k \in T : m <= k
<1>1. PICK m \in T : \A k \in T : ~(<<k, m>> \in OpToRel(<, Nat))
  BY WFMin, NatLessThanWellFounded
<1>2. ASSUME NEW k \in T, k < m  PROVE FALSE
  <2>1. <<k, m>> \in OpToRel(<, Nat)
    BY <1>2, Zenon DEF OpToRel
  <2> QED
    BY <1>1, <2>1
<1>3. \A k \in T : m <= k
  BY <1>2
<1> QED
  BY <1>3

\* The sequences of a sequence, one behind another, are a sequence: the function by which
\* FlattenSeq is defined exists for every length, and has sequences as values.
LEMMA FlattenTyped ==
    ASSUME NEW S, NEW s \in Seq(Seq(S))
    PROVE  FlattenSeq(s) \in Seq(S)
<1> DEFINE Step(f, i) == IF i = 1 THEN s[i] ELSE f[i - 1] \o s[i]
<1> DEFINE Flat(f, n) == f = [i \in 1..n |-> Step(f, i)]
<1>1. Len(s) \in Nat /\ \A i \in 1..Len(s) : s[i] \in Seq(S)
  BY LenProperties, ElementOfSeq
<1>2. \A n \in Nat : \E f : Flat(f, n)
  <2> DEFINE Bad == {n \in Nat : \A f : ~Flat(f, n)}
  <2> SUFFICES ASSUME Bad # {} PROVE FALSE
    <3> HIDE DEF Flat
    <3> QED
      OBVIOUS
  <2>1. PICK n \in Bad : \A k \in Bad : n <= k
    BY Smallest
  <2>2. n # 0
    <3> DEFINE f == [i \in 1..0 |-> 0]
    <3>1. Flat(f, 0)
      OBVIOUS
    <3> QED
      BY <2>1, <3>1
  <2>3. n \in Nat /\ n - 1 \in Nat /\ n - 1 \notin Bad
    <3>1. n \in Nat
      BY <2>1
    <3> HIDE DEF Bad
    <3> QED
      BY <2>1, <2>2, <3>1
  <2>4. PICK f : Flat(f, n - 1)
    BY <2>3
  <2> DEFINE g == [i \in 1..n |-> IF i < n THEN f[i] ELSE Step(f, n)]
  <2>5. ASSUME NEW i \in 1..n  PROVE g[i] = Step(g, i)
    <3>1. CASE i < n
      <4>1. i \in 1..n - 1
        BY <2>3, <3>1
      <4>2. g[i] = f[i] /\ f[i] = Step(f, i)
        BY <2>4, <3>1, <4>1
      <4>3. i # 1 => g[i - 1] = f[i - 1]
        BY <2>3, <3>1
      <4> QED
        BY <4>2, <4>3
    <3>2. CASE i = n
      <4>1. g[i] = Step(f, n)
        BY <3>2
      <4>2. n # 1 => g[n - 1] = f[n - 1]
        BY <2>3
      <4> QED
        BY <3>2, <4>1, <4>2
    <3> QED
      BY <2>3, <3>1, <3>2
  <2>6. Flat(g, n)
    BY <2>5
  <2> QED
    BY <2>1, <2>6
<1>3. CASE Len(s) = 0
  <2>1. s = <<>>
    BY <1>3, EmptySeq
  <2> QED
    BY <1>3, <2>1, EmptySeq DEF FlattenSeq
<1>4. CASE Len(s) # 0
  <2> DEFINE f == CHOOSE h : Flat(h, Len(s))
  <2>1. FlattenSeq(s) = f[Len(s)]
    BY <1>4 DEF FlattenSeq
  <2>2. Flat(f, Len(s))
    BY <1>1, <1>2
  <2> HIDE DEF f
  <2> DEFINE Bad == {i \in 1..Len(s) : f[i] \notin Seq(S)}
  <2>3. Bad = {}
    <3> SUFFICES ASSUME Bad # {} PROVE FALSE
      OBVIOUS
    <3>1. PICK i \in Bad : \A k \in Bad : i <= k
      <4>1. Bad \in SUBSET Nat
        BY <1>1
      <4> HIDE DEF Bad
      <4> QED
        BY <4>1, Smallest
    <3>2. f[i] = Step(f, i) /\ s[i] \in Seq(S)
      BY <1>1, <2>2
    <3>3. i # 1 => i - 1 \in 1..Len(s) /\ i - 1 \notin Bad
      BY <1>1, <3>1
    <3>4. CASE i = 1
      BY <3>1, <3>2, <3>4
    <3>5. CASE i # 1
      <4>1. f[i - 1] \in Seq(S) /\ s[i] \in Seq(S) /\ f[i] = f[i - 1] \o s[i]
        BY <3>2, <3>3, <3>5
      <4> DEFINE t == f[i - 1]
      <4> HIDE DEF t, Bad
      <4>2. t \o s[i] \in Seq(S)
        BY <4>1, ConcatProperties DEF t
      <4>3. f[i] \in Seq(S)
        BY <4>1, <4>2 DEF t
      <4> QED
        BY <3>1, <4>3 DEF Bad
    <3> QED
      BY <3>4, <3>5
  <2> QED
    BY <1>1, <1>4, <2>1, <2>3
<1> QED
  BY <1>3, <1>4

\* The specifications users can write.
LEMMA SpecFacts ==
    ASSUME NEW s \in Specs
    PROVE  /\ s.containers \in Seq(ContainerPolicy) /\ s.cluster \in BOOLEAN
           /\ s.transforms \in Seq(Transform)
           /\ s.cluster => s.output \in Output
<1>1. CASE s \in NamespacedSpec
  BY <1>1 DEF NamespacedSpec
<1>2. CASE s \in ClusterSpec
  BY <1>2, EmptySeq DEF ClusterSpec
<1> QED
  BY <1>1, <1>2, PoliciesAssumption

\* An output whose keys the validation has found is built, unless a value is not what its
\* key asks for (validateOutput, NewFromSpec, NewHTTPOutput).
LEMMA OutputBuilds ==
    ASSUME NEW o \in Output, ValidOutput(o), ~Garbled(o.config)
    PROVE  BuildsOutput(o)
<1> DEFINE Found(key) == key \in DOMAIN o.config => o.config[key] \in Wanted(key)
<1>1. Found("url") /\ Found("path") /\ Found("tlsCACert")
  BY DEF Garbled
<1> QED
  BY <1>1 DEF Wanted, ValidOutput, BuildsOutput, HasString

\* The same of a transform (validateTransforms, NewFromSpec).
LEMMA TransformBuilds ==
    ASSUME NEW t \in Transform, ValidTransform(t), ~Garbled(t.config)
    PROVE  BuildsTransform(t)
<1> DEFINE Found(key) == key \in DOMAIN t.config => t.config[key] \in Wanted(key)
<1>1. Found("fields") /\ Found("key") /\ Found("value")
  BY DEF Garbled
<1> QED
  BY <1>1 DEF Wanted, ValidTransform, BuildsTransform, HasString, HasStrings

\* The container policies the webhook finds.
LEMMA MatchingTyped ==
    ASSUME Typed
    PROVE  Matching \in Seq(ContainerPolicy)
<1> DEFINE of(i) ==
        IF Exists(Names[i]) /\ ~policies[Names[i]].spec.cluster
              /\ policies[Names[i]].spec.selector = "pod"
        THEN policies[Names[i]].spec.containers ELSE <<>>
<1>1. Len(Names) \in Nat /\ DOMAIN Names = 1..Len(Names) /\ \A i \in 1..Len(Names) : Names[i] \in Policy
  BY PoliciesAssumption, LenProperties, ElementOfSeq
<1>2. ASSUME NEW i \in 1..Len(Names)  PROVE of(i) \in Seq(ContainerPolicy)
  <2>1. CASE Exists(Names[i])
    <3>1. policies[Names[i]] \in Version
      BY <1>1, <2>1 DEF Typed, Exists
    <3> QED
      BY <3>1, SpecFacts, EmptySeq DEF Version
  <2>2. CASE ~Exists(Names[i])
    BY <2>2, EmptySeq
  <2> QED
    BY <2>1, <2>2
<1> HIDE DEF of
<1>3. [i \in 1..Len(Names) |-> of(i)] \in Seq(Seq(ContainerPolicy))
  BY <1>1, <1>2
<1>4. FlattenSeq([i \in 1..Len(Names) |-> of(i)]) \in Seq(ContainerPolicy)
  BY <1>3, FlattenTyped
<1> QED
  BY <1>1, <1>4 DEF Matching, of

\* What the validation lets through can be built, or is malformed (validateLogPilotPolicy,
\* validateClusterLogPilotPolicy, NewFromSpec, NewSliceFromSpecs).
LEMMA ValidCanRun ==
    ASSUME NEW s \in Specs, Valid(s)
    PROVE  CanRun(s) \/ Malformed(s)
<1> SUFFICES ASSUME ~Malformed(s) PROVE CanRun(s)
  OBVIOUS
<1>1. ASSUME NEW ts \in Seq(Transform), ValidTransforms(ts),
             \A i \in DOMAIN ts : ~Garbled(ts[i].config)
      PROVE  \A i \in DOMAIN ts : BuildsTransform(ts[i])
  <2> SUFFICES ASSUME NEW i \in DOMAIN ts PROVE BuildsTransform(ts[i])
    OBVIOUS
  <2>1. ts[i] \in Transform
    BY LenProperties, ElementOfSeq
  <2> QED
    BY <1>1, <2>1, TransformBuilds DEF ValidTransforms
<1>2. CASE s.cluster
  <2>1. s.output \in Output /\ s.transforms \in Seq(Transform)
    BY <1>2, SpecFacts
  <2>2. ValidOutput(s.output) /\ ValidTransforms(s.transforms)
    BY <1>2 DEF Valid, ValidCluster
  <2>3. ~Garbled(s.output.config) /\ \A i \in DOMAIN s.transforms : ~Garbled(s.transforms[i].config)
    BY <2>1, PoliciesAssumption DEF Malformed
  <2> QED
    BY <1>1, <1>2, <2>1, <2>2, <2>3, OutputBuilds DEF CanRun, Builds
<1>3. CASE ~s.cluster
  <2> SUFFICES ASSUME NEW i \in DOMAIN s.containers PROVE Builds(s.containers[i])
    BY <1>3 DEF CanRun
  <2> DEFINE cp == s.containers[i]
  <2>1. cp \in ContainerPolicy
    BY SpecFacts, LenProperties, ElementOfSeq
  <2>2. ~Garbled(cp.output.config) /\ \A j \in DOMAIN cp.transforms : ~Garbled(cp.transforms[j].config)
    BY DEF Malformed
  <2>3. ValidOutput(cp.output) /\ ValidTransforms(cp.transforms)
    BY <1>3 DEF Valid, ValidNamespaced, ValidContainer
  <2>4. cp.output \in Output /\ cp.transforms \in Seq(Transform)
    BY <2>1 DEF ContainerPolicy
  <2> HIDE DEF cp
  <2>5. Builds(cp)
    BY <1>1, <2>2, <2>3, <2>4, OutputBuilds DEF Builds
  <2> QED
    BY <2>5 DEF cp
<1> QED
  BY <1>2, <1>3, SpecFacts

-----------------------------------------------------------------------------
(* The invariant.                                                          *)

LEMMA TypedStep ==
    ASSUME Typed, Judgement, Next
    PROVE  Typed'
<1>1. ASSUME NEW p \in Policy, NEW s \in Specs, CreatePolicy(p, s)  PROVE Typed'
  <2>1. [spec |-> s, gen |-> 1, status |-> Unknown] \in Version
    BY PoliciesAssumption DEF Version, Status, Unknown
  <2> QED
    BY <1>1, <2>1 DEF Typed, CreatePolicy, operator
<1>2. ASSUME NEW p \in Policy, NEW s \in Specs, EditPolicy(p, s)  PROVE Typed'
  <2> DEFINE old == policies[p]
  <2>1. old \in Version /\ old.gen <= changes + 1 /\ changes \in 0..MaxChanges /\ changes < MaxChanges
    BY <1>2 DEF Typed, Judgement, EditPolicy, Exists
  <2>2. policies' = [policies EXCEPT ![p] = [old EXCEPT !.spec = s, !.gen = @ + 1]]
    BY <1>2, <2>1 DEF EditPolicy, Typed, Version
  <2>3. [old EXCEPT !.spec = s, !.gen = @ + 1] \in Version
    <3>1. old.gen + 1 \in 1..MaxChanges + 1
      BY <2>1, PoliciesAssumption DEF Version
    <3> HIDE DEF old
    <3> QED
      BY <2>1, <3>1 DEF Version
  <2>4. changes' \in 0..MaxChanges
    BY <1>2, <2>1, PoliciesAssumption DEF EditPolicy
  <2> QED
    BY <1>2, <2>2, <2>3, <2>4 DEF Typed, EditPolicy, operator
<1>3. ASSUME NEW p \in Policy, DeletePolicy(p)  PROVE Typed'
  BY <1>3, PoliciesAssumption DEF Typed, DeletePolicy, operator
<1>4. ASSUME NEW p \in Policy, CacheSync(p)  PROVE Typed'
  BY <1>4 DEF Typed, CacheSync, users
<1>5. ASSUME NEW p \in Policy, Begin(p)  PROVE Typed'
  BY <1>5 DEF Typed, Begin, users
<1>6. ASSUME NEW spec \in PodSpecs, CreatePod(spec)  PROVE Typed'
  BY <1>6 DEF Typed, CreatePod, users, operator
<1>7. CASE UpdateStatus
  <2> DEFINE p == view.name
  <2> DEFINE status == [ok |-> Valid(view.policy.spec), gen |-> view.policy.gen]
  <2>1. p \in Policy /\ policies[p] \in Version /\ view.policy \in Version
    BY <1>7 DEF Typed, UpdateStatus
  <2>2. status \in Status
    <3>1. Valid(view.policy.spec) \in BOOLEAN
      BY DEF Valid, ValidCluster, ValidNamespaced
    <3> QED
      BY <2>1, <3>1 DEF Version, Status
  <2>3. policies' = [policies EXCEPT ![p] = [policies[p] EXCEPT !.status = status]]
    BY <1>7 DEF UpdateStatus
  <2> HIDE DEF status
  <2>4. [policies[p] EXCEPT !.status = status] \in Version
    BY <2>1, <2>2 DEF Version
  <2>5. policies' \in [Policy -> Version \cup {Absent}]
    BY <2>1, <2>3, <2>4 DEF Typed
  <2> QED
    BY <1>7, <2>5 DEF Typed, UpdateStatus
<1>8. CASE ReconcileFails
  BY <1>8 DEF Typed, ReconcileFails, users
<1>9. CASE OnPodAdd
  BY <1>9 DEF Typed, OnPodAdd, users, operator
<1> QED
  BY <1>1, <1>2, <1>3, <1>4, <1>5, <1>6, <1>7, <1>8, <1>9 DEF Next

LEMMA JudgementStep ==
    ASSUME Typed, Judgement, Next
    PROVE  Judgement'
<1> SUFFICES ASSUME NEW q \in Policy, Exists(q)'
             PROVE  /\ policies'[q].gen <= changes' + 1
                    /\ policies'[q].status.gen <= policies'[q].gen
                    /\ policies'[q].status.gen = policies'[q].gen =>
                           policies'[q].status.ok = Valid(policies'[q].spec)
  BY DEF Judgement
<1>1. changes \in Nat /\ policies \in [Policy -> Version \cup {Absent}]
  BY PoliciesAssumption DEF Typed
<1>2. Exists(q) => policies[q] \in Version /\ policies[q].gen \in Nat /\ policies[q].status.gen \in Nat
  BY PoliciesAssumption DEF Typed, Exists, Version, Status
<1>3. ASSUME policies'[q] = policies[q], changes' \in {changes, changes + 1}
      PROVE  /\ policies'[q].gen <= changes' + 1
             /\ policies'[q].status.gen <= policies'[q].gen
             /\ policies'[q].status.gen = policies'[q].gen =>
                    policies'[q].status.ok = Valid(policies'[q].spec)
  BY <1>1, <1>2, <1>3 DEF Judgement, Exists
<1>4. ASSUME NEW p \in Policy, NEW s \in Specs, CreatePolicy(p, s), p = q
      PROVE  /\ policies'[q].gen = 1 /\ policies'[q].status = Unknown /\ changes' = changes
  BY <1>1, <1>4 DEF CreatePolicy
<1>5. ASSUME NEW p \in Policy, NEW s \in Specs, EditPolicy(p, s), p = q
      PROVE  /\ policies'[q].gen = policies[q].gen + 1 /\ changes' = changes + 1
             /\ policies'[q].status = policies[q].status
             /\ Exists(q)
  BY <1>1, <1>2, <1>5 DEF EditPolicy, Version, Exists
<1>6. ASSUME UpdateStatus, view.name = q
      PROVE  /\ policies'[q].gen = policies[q].gen /\ policies'[q].spec = policies[q].spec
             /\ policies'[q].status = [ok |-> Valid(policies[q].spec), gen |-> policies[q].gen]
             /\ changes' = changes
             /\ Exists(q)
  <2>1. policies[q] \in Version /\ view.policy = policies[q] /\ Exists(q)
    BY <1>6 DEF UpdateStatus, Typed, Exists
  <2> DEFINE status == [ok |-> Valid(view.policy.spec), gen |-> view.policy.gen]
  <2>2. policies'[q] = [policies[q] EXCEPT !.status = status]
    BY <1>1, <1>6 DEF UpdateStatus
  <2>3. changes' = changes
    BY <1>6 DEF UpdateStatus
  <2> HIDE DEF status
  <2>4. /\ policies'[q].gen = policies[q].gen /\ policies'[q].spec = policies[q].spec
        /\ policies'[q].status = status
    BY <2>1, <2>2 DEF Version
  <2> QED
    BY <2>1, <2>3, <2>4 DEF status
<1>7. CASE policies'[q] = policies[q] /\ changes' \in {changes, changes + 1}
  BY <1>3, <1>7
<1>8. CASE \E s \in Specs : CreatePolicy(q, s)
  BY <1>1, <1>4, <1>8 DEF Unknown
<1>9. CASE \E s \in Specs : EditPolicy(q, s)
  BY <1>1, <1>2, <1>5, <1>9 DEF Judgement
<1>10. CASE UpdateStatus /\ view.name = q
  BY <1>1, <1>2, <1>6, <1>10 DEF Judgement
<1>11. ~DeletePolicy(q)
  BY <1>1 DEF DeletePolicy, Exists
<1>12. \/ \E p \in Policy, s \in Specs : CreatePolicy(p, s) \/ EditPolicy(p, s)
       \/ \E p \in Policy : DeletePolicy(p)
       \/ UpdateStatus
       \/ UNCHANGED users
  BY DEF Next, CacheSync, Begin, CreatePod, ReconcileFails, OnPodAdd
<1>13. ASSUME NEW p \in Policy, NEW s \in Specs, CreatePolicy(p, s) \/ EditPolicy(p, s), p # q
       PROVE  policies'[q] = policies[q] /\ changes' \in {changes, changes + 1}
  BY <1>1, <1>13 DEF CreatePolicy, EditPolicy
<1>14. ASSUME NEW p \in Policy, DeletePolicy(p), p # q
       PROVE  policies'[q] = policies[q] /\ changes' \in {changes, changes + 1}
  BY <1>1, <1>14 DEF DeletePolicy
<1>15. ASSUME UpdateStatus, view.name # q
       PROVE  policies'[q] = policies[q] /\ changes' \in {changes, changes + 1}
  BY <1>1, <1>15 DEF UpdateStatus
<1>16. UNCHANGED users => policies'[q] = policies[q] /\ changes' \in {changes, changes + 1}
  BY DEF users
<1> QED
  BY <1>7, <1>8, <1>9, <1>10, <1>11, <1>12, <1>13, <1>14, <1>15, <1>16

\* The agent keeps its directory.
LEMMA LogDirStep ==
    ASSUME Next
    PROVE  logDir' = logDir
  BY DEF Next, CreatePolicy, EditPolicy, DeletePolicy, CacheSync, Begin, CreatePod, UpdateStatus,
         ReconcileFails, OnPodAdd, users

\* The webhook makes the pod, and the agent its Runners; nobody changes them afterwards.
LEMMA MadeStep ==
    ASSUME Typed, Made, Next
    PROVE  Made'
<1>1. CASE UNCHANGED <<pod, runners>>
  BY <1>1, LogDirStep DEF Made
<1>2. ASSUME NEW spec \in PodSpecs, CreatePod(spec)  PROVE Made'
  <2>1. PICK cps \in Seq(ContainerPolicy) : pod' = Inject(spec, cps)
    BY <1>2, MatchingTyped, EmptySeq DEF CreatePod
  <2>2. runners' = <<>>
    BY <1>2 DEF CreatePod, Made
  <2> QED
    BY <2>1, <2>2 DEF Made
<1>3. CASE OnPodAdd
  BY <1>3, LogDirStep DEF OnPodAdd, Made
<1> QED
  BY <1>1, <1>2, <1>3
  DEF Next, CreatePolicy, EditPolicy, DeletePolicy, CacheSync, Begin, UpdateStatus, ReconcileFails

-----------------------------------------------------------------------------
(* What is written is read.                                                *)

\* The mount of a container policy that is the first for its container and path.
LEMMA OneMount ==
    ASSUME NEW spec, NEW cps \in Seq(ContainerPolicy), NEW i \in DOMAIN cps, Mounted(spec, cps, i)
    PROVE  {m \in Mounts(spec, cps) : m.at = <<cps[i].name, cps[i].path>>} =
               {[at |-> <<cps[i].name, cps[i].path>>, sub |-> SubPath(cps[i])]}
<1>1. DOMAIN cps = 1..Len(cps) /\ Len(cps) \in Nat
  BY LenProperties
<1>2. ASSUME NEW k \in DOMAIN cps, Mounted(spec, cps, k),
             <<cps[k].name, cps[k].path>> = <<cps[i].name, cps[i].path>>
      PROVE  k = i
  <2>1. ~(k < i) /\ ~(i < k)
    BY <1>1, <1>2 DEF Mounted
  <2> QED
    BY <1>1, <2>1
<1> QED
  BY <1>2 DEF Mounts

\* The Runner for a container and kind of log is that of a container policy for it.
LEMMA RunnerOf ==
    ASSUME NEW dir, NEW cps, NEW k \in DOMAIN RunnersFor(dir, cps)
    PROVE  \E i \in DOMAIN cps : Key(cps[i]) = k /\ RunnersFor(dir, cps)[k] = LogPath(dir, cps, i)
<1> DEFINE Runs(i) == Starts(dir, cps, i) /\ \A j \in 1..i - 1 :
                          ~(Key(cps[j]) = Key(cps[i]) /\ Starts(dir, cps, j))
<1> DEFINE first == CHOOSE i \in DOMAIN cps : Key(cps[i]) = k /\ Runs(i)
<1>1. \E i \in DOMAIN cps : Key(cps[i]) = k /\ Runs(i)
  BY DEF RunnersFor
<1>2. first \in DOMAIN cps /\ Key(cps[first]) = k
  BY <1>1
<1>3. RunnersFor(dir, cps)[k] = LogPath(dir, cps, first)
  BY DEF RunnersFor
<1> QED
  BY <1>2, <1>3

\* Where container policies for one container and kind of log are of one kind, their log
\* path is the place of that kind.
LEMMA PathIsPlace ==
    ASSUME NEW dir, NEW cps \in Seq(ContainerPolicy), NEW i \in DOMAIN cps, NEW f \in DOMAIN cps,
           Key(cps[f]) = Key(cps[i]),
           \A j \in DOMAIN cps : Key(cps[j]) = Key(cps[i]) => Kind(cps[j]) = Kind(cps[i])
    PROVE  LogPath(dir, cps, f) = Place(dir, cps[i])
<1>1. DOMAIN cps = 1..Len(cps) /\ Len(cps) \in Nat
  BY LenProperties
<1>2. Kind(cps[f]) = Kind(cps[i])
  OBVIOUS
<1>3. cps[f].name = cps[i].name /\ cps[f].logType = cps[i].logType
  BY DEF Key
<1>4. Place(dir, cps[f]) = Place(dir, cps[i])
  BY <1>2, <1>3 DEF Place, AgentPath
<1>5. CASE Kind(cps[i]) # "guaranteed"
  BY <1>2, <1>4, <1>5 DEF LogPath
<1>6. CASE Kind(cps[i]) = "guaranteed"
  <2>1. \A j \in 1..f - 1 : j \in DOMAIN cps
    BY <1>1
  <2>2. {j \in 1..f - 1 : Key(cps[j]) = Key(cps[f]) /\ Kind(cps[j]) # "guaranteed"} = {}
    BY <1>6, <2>1
  <2> QED
    BY <1>4, <2>2 DEF LogPath
<1> QED
  BY <1>5, <1>6

LEMMA PlaceIsWritten ==
    ASSUME NEW spec, NEW cps \in Seq(ContainerPolicy), pod = Inject(spec, cps),
           NEW i \in DOMAIN cps, Undisturbed(cps, i)
    PROVE  Place(logDir, cps[i]) = WritesTo(cps[i].name, cps[i].path)
<1> DEFINE cp == cps[i]
<1>1. cp \in ContainerPolicy /\ cps # <<>>
  BY LenProperties, ElementOfSeq, EmptySeq
<1>2. /\ pod.spec = spec /\ pod.mounts = Mounts(spec, cps) /\ pod.volume = Volume(spec, cps)
  BY <1>1 DEF Inject
<1>3. CASE Kind(cp) = "stdout"
  <2>1. cp.path = "-"
    BY <1>1, <1>3 DEF Kind, ContainerPolicy
  <2> QED
    BY <1>3, <2>1 DEF Place, WritesTo
<1>4. CASE Kind(cp) # "stdout"
  <2>1. cp.path # "-" /\ Kind(cp) = cp.delivery /\ cp.delivery \in {"guaranteed", "bestEffort"}
    BY <1>1, <1>4 DEF Kind, ContainerPolicy
  <2>2. /\ Mounted(spec, cps, i) /\ ~spec.ownVolume
        /\ BestEffort(cp) => \A j \in DOMAIN cps : BestEffort(cps[j])
    BY <1>2, <1>4 DEF Undisturbed
  <2>3. WritesTo(cp.name, cp.path) = <<Volume(spec, cps), SubPath(cp)>>
    <3> DEFINE at == <<cp.name, cp.path>>
    <3> DEFINE mount == {m \in Mounts(spec, cps) : m.at = at}
    <3>1. mount = {[at |-> at, sub |-> SubPath(cp)]}
      BY <2>2, OneMount
    <3> HIDE DEF mount
    <3>2. (CHOOSE m \in mount : TRUE).sub = SubPath(cp) /\ mount # {}
      <4>1. \E m \in mount : TRUE
        BY <3>1
      <4>2. (CHOOSE m \in mount : TRUE) \in mount
        BY <4>1
      <4> QED
        BY <3>1, <4>2
    <3>3. WritesTo(cp.name, cp.path) = <<pod.volume, (CHOOSE m \in mount : TRUE).sub>>
      BY <1>2, <2>1, <3>2 DEF WritesTo, mount
    <3> QED
      BY <1>2, <3>2, <3>3
  <2>4. CASE cp.delivery = "bestEffort"
    <3>1. Volume(spec, cps) = "emptyDir" /\ SubPath(cp) = <<"volume", cp.name, cp.logType>>
      BY <2>2, <2>4 DEF Volume, SubPath, BestEffort
    <3> QED
      BY <2>1, <2>3, <2>4, <3>1 DEF Place
  <2>5. CASE cp.delivery = "guaranteed"
    <3>1. Volume(spec, cps) = LogHostPath /\ SubPath(cp) = <<"pod", cp.name, cp.logType>>
      BY <2>2, <2>5 DEF Volume, SubPath, BestEffort
    <3>2. logDir = LogHostPath
      BY <2>1, <2>5 DEF Undisturbed
    <3> QED
      BY <2>1, <2>3, <2>5, <3>1, <3>2 DEF Place, AgentPath
  <2> QED
    BY <2>1, <2>4, <2>5
<1> QED
  BY <1>3, <1>4

-----------------------------------------------------------------------------

\* The inductive invariant: what is judged is the version that is there, and pod and Runners
\* are as the webhook and the agent have made them (Reconcile, injectPod, OnPodAdd).
THEOREM Invariant == Spec => []IInv
<1>1. Init => IInv
  BY PoliciesAssumption DEF Init, IInv, Typed, Judgement, Made, Exists
<1>2. IInv /\ [Next]_vars => IInv'
  <2> SUFFICES ASSUME IInv, [Next]_vars PROVE IInv'
    OBVIOUS
  <2>1. CASE Next
    BY <2>1, TypedStep, JudgementStep, MadeStep, LogDirStep DEF IInv
  <2>2. CASE UNCHANGED vars
    BY <2>2 DEF vars, users, operator, IInv, Typed, Judgement, Made, Exists
  <2> QED
    BY <2>1, <2>2
<1> QED
  BY <1>1, <1>2, PTL DEF Spec

\* Every state of the policies, the operator, the pod and its Runners is well typed
\* (Reconcile, Mutation, OnPodAdd).
THEOREM TypeCorrect == Spec => []TypeOK
<1>1. IInv => TypeOK
  <2> SUFFICES ASSUME IInv PROVE TypeOK
    OBVIOUS
  <2>1. \A p \in Policy : \A version \in {policies[p], cached[p]} \ {Absent} : version \in Version
    BY DEF IInv, Typed
  <2>2. view # Absent => view.name \in Policy /\ view.policy # Absent
    BY DEF IInv, Typed
  <2>3. ASSUME pod # Absent
        PROVE  pod.spec \in PodSpecs /\ pod.volume \in {"none", "own", "emptyDir", LogHostPath}
    <3>1. PICK spec \in PodSpecs, cps \in Seq(ContainerPolicy) : pod = Inject(spec, cps)
      BY <2>3 DEF IInv, Made
    <3>2. pod.spec = spec /\ pod.volume = IF cps = <<>> THEN "none" ELSE Volume(spec, cps)
      BY <3>1 DEF Inject
    <3> QED
      BY <3>2 DEF Volume
  <2> QED
    BY <2>1, <2>2, <2>3 DEF TypeOK, Version, IInv, Typed
<1> QED
  BY <1>1, Invariant, PTL

\* A condition for the generation that is there says what the validation says of it, however
\* often the policy is edited while a Reconcile is under way (Reconcile, acceptedCondition).
THEOREM VerdictIsRight ==
    Spec => [](\A p \in Policy :
                  Exists(p) /\ policies[p].status.gen = policies[p].gen =>
                      policies[p].status.ok = Valid(policies[p].spec))
<1> DEFINE Right == \A p \in Policy :
                        Exists(p) /\ policies[p].status.gen = policies[p].gen =>
                            policies[p].status.ok = Valid(policies[p].spec)
<1>1. IInv => Right
  BY DEF IInv, Judgement
<1> QED
  BY <1>1, Invariant, PTL

\* What the operator has accepted, the agent can build, unless a config is malformed
\* (validateOutput, validateTransforms, the two NewFromSpec).
THEOREM AcceptedRuns == Spec => []AcceptedCanRun
<1>1. IInv => AcceptedCanRun
  <2> SUFFICES ASSUME IInv, NEW p \in Policy, Exists(p),
                      policies[p].status.gen = policies[p].gen, policies[p].status.ok
               PROVE  CanRun(policies[p].spec) \/ Malformed(policies[p].spec)
    BY DEF AcceptedCanRun
  <2>1. policies[p].spec \in Specs /\ Valid(policies[p].spec)
    BY DEF IInv, Typed, Judgement, Exists, Version
  <2> QED
    BY <2>1, ValidCanRun
<1> QED
  BY <1>1, Invariant, PTL

\* The Runner of an undisturbed container policy reads what the container writes to its
\* path (injectPod, ensureLogVolume, ensureLogPath, OnPodAdd).
THEOREM WrittenIsRead == Spec => []ReadsWhatIsWritten
<1>1. IInv => ReadsWhatIsWritten
  <2> SUFFICES ASSUME IInv, pod # Absent, NEW i \in DOMAIN pod.policies,
                      Key(pod.policies[i]) \in DOMAIN runners, Undisturbed(pod.policies, i)
               PROVE  runners[Key(pod.policies[i])] =
                          WritesTo(pod.policies[i].name, pod.policies[i].path)
    BY DEF ReadsWhatIsWritten
  <2>1. PICK spec \in PodSpecs, cps \in Seq(ContainerPolicy) : pod = Inject(spec, cps)
    BY DEF IInv, Made
  <2>2. pod.policies = cps
    BY <2>1 DEF Inject
  <2>3. runners = RunnersFor(logDir, cps)
    BY <2>2 DEF IInv, Made
  <2>4. PICK f \in DOMAIN cps :
            Key(cps[f]) = Key(cps[i]) /\ runners[Key(cps[i])] = LogPath(logDir, cps, f)
    BY <2>2, <2>3, RunnerOf
  <2>5. LogPath(logDir, cps, f) = Place(logDir, cps[i])
    BY <2>2, <2>4, PathIsPlace DEF Undisturbed
  <2>6. Place(logDir, cps[i]) = WritesTo(cps[i].name, cps[i].path)
    BY <2>1, <2>2, PlaceIsWritten
  <2> QED
    BY <2>2, <2>4, <2>5, <2>6
<1> QED
  BY <1>1, Invariant, PTL
=============================================================================
