------------------------------ MODULE Policies ------------------------------
(* A policy on its way from the user to the agent: the operator validates it *)
(* (operator/policy_validation.go and the two controllers), the webhook      *)
(* injects what matches into a new pod (log-pilot-api), and the agent builds *)
(* Runners from the pod's annotation (watcher, transform and output          *)
(* factories) and reads where the pod's containers write.                    *)
EXTENDS Integers, SequencesExt

CONSTANTS
    Names,      \* the policies, in the order of a List; a name is used once
    Specs,      \* what users write into them
    PodSpecs,   \* the pods they create: [containers, mounts, ownVolume, ownEnv]
    LogDirs,    \* the directories an agent may be told to keep its log paths in
    MaxChanges, \* bound: edits and deletions
    Absent      \* no object

Policy == ToSet(Names)
ClusterInputs == {"k8sEvent", "k8sObjectState"}

\* What the values of a config can be: a string, one that holds a certificate or is empty,
\* an object of strings, or anything else (but null, which is read as empty).
Values == {"string", "certificate", "strings", "other"}

Configs(keys) == UNION {[ks -> Values] : ks \in SUBSET keys}

Output == [type : {"http", "file"},
           config : Configs({"url", "headers", "tlsSkipVerify", "tlsCACert", "path"})]

Transform == [type : {"json", "label", "drop"}, config : Configs({"fields", "key", "value"})]

\* What the API server lets into the spec of a LogPilotPolicy and of a
\* ClusterLogPilotPolicy, which has no selector and no containers.
ContainerPolicy ==
    [name : STRING, logType : STRING, path : STRING, delivery : {"guaranteed", "bestEffort"},
     output : Output, transforms : Seq(Transform)]

NamespacedSpec ==
    [cluster : {FALSE}, selector : {"none", "pod", "other"}, containers : Seq(ContainerPolicy),
     input : {"none", "file", "dir"} \cup ClusterInputs, output : Output \cup {Absent},
     transforms : Seq(Transform)]

ClusterSpec ==
    [cluster : {TRUE}, selector : {"none"}, containers : {<<>>},
     input : {"file", "dir"} \cup ClusterInputs, output : Output, transforms : Seq(Transform)]

ASSUME PoliciesAssumption ==
    /\ Names \in Seq(Policy)
    /\ Specs \subseteq NamespacedSpec \cup ClusterSpec
    /\ LogDirs # {} /\ LogDirs \cap {"none", "own", "emptyDir", "stdout", "container"} = {}
    /\ Absent \notin Output
    /\ MaxChanges \in Nat

VARIABLES
    logDir,     \* spec.agent.logDir of the LogPilot, which the agent has been started with
    policies,   \* [Policy -> [spec, gen, status] at the API server, or Absent]
    deleted,    \* the policies that have been deleted
    changes,    \* edits and deletions so far
    cached,     \* [Policy -> as policies, in the operator's cache]
    dirty,      \* the names in the controllers' work queues
    view,       \* what a Reconcile has read: [name, policy], or Absent
    pod,        \* the pod: [spec, policies, mounts, volume, env], or Absent
    runners     \* the agent's Runners: [<<container, logType>> -> directory it reads]

users == <<logDir, policies, deleted, changes>>
operator == <<cached, dirty, view>>
vars == <<users, operator, pod, runners>>

Unknown == [ok |-> FALSE, gen |-> 0]   \* no Accepted condition yet
Exists(p) == policies[p] # Absent

-----------------------------------------------------------------------------
(* policy_validation.go: what the operator accepts.                        *)

\* validateOutput and validateTransforms: the keys are there.
ValidOutput(o) ==
    \/ o.type = "http" /\ "url" \in DOMAIN o.config
    \/ o.type = "file" /\ "path" \in DOMAIN o.config

ValidTransform(t) ==
    \/ t.type = "json"
    \/ t.type = "label" /\ "fields" \in DOMAIN t.config
    \/ t.type = "drop" /\ {"key", "value"} \subseteq DOMAIN t.config

ValidTransforms(ts) == \A i \in DOMAIN ts : ValidTransform(ts[i])

ValidContainer(cp) == ValidOutput(cp.output) /\ ValidTransforms(cp.transforms)

\* validateLogPilotPolicy.
ValidNamespaced(s) ==
    LET standalone == s.input # "none" /\ s.output # Absent IN
    /\ (s.selector # "none" /\ s.containers # <<>>) \/ standalone
    /\ standalone => s.input \notin ClusterInputs /\ ValidOutput(s.output)
    /\ \A i \in DOMAIN s.containers : ValidContainer(s.containers[i])
    /\ ValidTransforms(s.transforms)

\* validateClusterLogPilotPolicy; an output it must have.
ValidCluster(s) ==
    s.input \in ClusterInputs /\ ValidOutput(s.output) /\ ValidTransforms(s.transforms)

Valid(s) == IF s.cluster THEN ValidCluster(s) ELSE ValidNamespaced(s)

-----------------------------------------------------------------------------
(* The factories: what the agent can build.                                *)

\* extractString, extractStringMap.
HasString(config, key) == key \in DOMAIN config /\ config[key] \in {"string", "certificate"}
HasStrings(config, key) == key \in DOMAIN config /\ config[key] = "strings"

\* NewFromSpec of the outputs: an optional value of another type is passed over, but a
\* string that should be a certificate is not (NewHTTPOutput).
BuildsOutput(o) ==
    \/ /\ o.type = "http"
       /\ HasString(o.config, "url")
       /\ HasString(o.config, "tlsCACert") => o.config["tlsCACert"] = "certificate"
    \/ o.type = "file" /\ HasString(o.config, "path")

\* NewFromSpec of the transforms.
BuildsTransform(t) ==
    \/ t.type = "json"
    \/ t.type = "label" /\ HasStrings(t.config, "fields")
    \/ t.type = "drop" /\ HasString(t.config, "key") /\ HasString(t.config, "value")

\* NewSliceFromSpecs: all of them.
Builds(x) == BuildsOutput(x.output) /\ \A i \in DOMAIN x.transforms : BuildsTransform(x.transforms[i])

\* buildRunner for each container policy, startClusterPolicyRunner for a cluster policy.
CanRun(s) ==
    IF s.cluster THEN Builds(s)
    ELSE \A i \in DOMAIN s.containers : Builds(s.containers[i])

-----------------------------------------------------------------------------
(* injector.go: what the webhook makes of a pod.                           *)

BestEffort(cp) == cp.delivery = "bestEffort"

\* volumeSubPathExpr: below the pod's own directory, or below the volume.
SubPath(cp) == <<IF BestEffort(cp) THEN "volume" ELSE "pod", cp.name, cp.logType>>

\* injectVolumeMounts: the first policy of a container with a path that has no mount yet
\* mounts its directory there.
Mounted(spec, cps, i) ==
    /\ cps[i].path # "-"
    /\ cps[i].name \in spec.containers
    /\ <<cps[i].name, cps[i].path>> \notin spec.mounts
    /\ \A j \in 1..i - 1 : <<cps[j].name, cps[j].path>> # <<cps[i].name, cps[i].path>>

Mounts(spec, cps) ==
    {[at |-> <<cps[i].name, cps[i].path>>, sub |-> SubPath(cps[i])] :
        i \in {k \in DOMAIN cps : Mounted(spec, cps, k)}}

\* The host's directory for guaranteed delivery: a constant of the webhook.
LogHostPath == "/var/log/log-pilot"

\* Mutation: the first container policy decides on the volume.
MutVolume(spec, cps) ==
    IF spec.ownVolume THEN "own" ELSE IF BestEffort(cps[1]) THEN "emptyDir" ELSE LogHostPath

\* ensureLogVolume: the pod's own volume of that name, the host's directory when any
\* container policy is for guaranteed delivery, or an empty one.
Volume(spec, cps) ==
    CASE spec.ownVolume -> "own"
      [] ~spec.ownVolume /\ (\E i \in DOMAIN cps : ~BestEffort(cps[i])) -> LogHostPath
      [] OTHER -> "emptyDir"

\* injectPod: the container policies of every policy that matches, accepted or not.
Matching ==
    FlattenSeq([i \in DOMAIN Names |->
        IF Exists(Names[i]) /\ ~policies[Names[i]].spec.cluster
              /\ policies[Names[i]].spec.selector = "pod"
        THEN policies[Names[i]].spec.containers ELSE <<>>])

\* injectEnvVars: the variables of a subPathExpr, unless the containers have their own.
Env(spec) == IF spec.ownEnv THEN "own" ELSE "pod"

Inject(spec, cps) ==
    [spec |-> spec, policies |-> cps,
     mounts |-> Mounts(spec, cps),
     volume |-> IF cps = <<>> THEN "none" ELSE Volume(spec, cps),
     env |-> IF cps = <<>> THEN "none" ELSE Env(spec)]

-----------------------------------------------------------------------------
(* Users and the API server.                                               *)

\* The agent's directory is set once, by the LogPilot (buildAgentDaemonSet).
Init ==
    /\ logDir \in LogDirs
    /\ policies = [p \in Policy |-> Absent] /\ deleted = {} /\ changes = 0
    /\ cached = [p \in Policy |-> Absent] /\ dirty = {} /\ view = Absent
    /\ pod = Absent /\ runners = <<>>

CreatePolicy(p, s) ==
    /\ ~Exists(p) /\ p \notin deleted
    /\ policies' = [policies EXCEPT ![p] = [spec |-> s, gen |-> 1, status |-> Unknown]]
    /\ UNCHANGED <<logDir, deleted, changes, operator, pod, runners>>

EditPolicy(p, s) ==
    /\ Exists(p) /\ changes < MaxChanges
    /\ s # policies[p].spec /\ s.cluster = policies[p].spec.cluster
    /\ policies' = [policies EXCEPT ![p].spec = s, ![p].gen = @ + 1]
    /\ changes' = changes + 1
    /\ UNCHANGED <<logDir, deleted, operator, pod, runners>>

DeletePolicy(p) ==
    /\ Exists(p) /\ changes < MaxChanges
    /\ policies' = [policies EXCEPT ![p] = Absent]
    /\ deleted' = deleted \cup {p}
    /\ changes' = changes + 1
    /\ UNCHANGED <<logDir, operator, pod, runners>>

\* mutatePod lists the policies and patches the pod; without an answer of the webhook, the
\* pod is created as it is (failurePolicy Ignore).
CreatePod(spec) ==
    /\ pod = Absent
    /\ \E cps \in {Matching, <<>>} : pod' = Inject(spec, cps)
    /\ UNCHANGED <<users, operator, runners>>

-----------------------------------------------------------------------------
(* The controllers of the two kinds of policy.                             *)

CacheSync(p) ==
    /\ cached[p] # policies[p]
    /\ cached' = [cached EXCEPT ![p] = policies[p]]
    /\ dirty' = dirty \cup {p}
    /\ UNCHANGED <<users, view, pod, runners>>

\* Mutation: that the policy is gone is not noticed.
MutBegin(p) ==
    /\ view = Absent /\ p \in dirty
    /\ dirty' = dirty \ {p}
    /\ view' = [name |-> p, policy |-> cached[p]]
    /\ UNCHANGED <<users, cached, pod, runners>>

\* Reconcile reads the policy from the cache.
Begin(p) ==
    /\ view = Absent /\ p \in dirty
    /\ dirty' = dirty \ {p}
    /\ view' = IF cached[p] = Absent THEN Absent ELSE [name |-> p, policy |-> cached[p]]
    /\ UNCHANGED <<users, cached, pod, runners>>

\* Mutation: the condition is set for the generation that is there by now.
MutUpdateStatus ==
    /\ view # Absent /\ Exists(view.name)
    /\ policies' = [policies EXCEPT
           ![view.name].status =
               [ok |-> Valid(view.policy.spec), gen |-> policies[view.name].gen]]
    /\ view' = Absent
    /\ UNCHANGED <<logDir, deleted, changes, cached, dirty, pod, runners>>

\* The Accepted condition is set for the generation that was read, and written over that
\* version only.
UpdateStatus ==
    /\ view # Absent
    /\ policies[view.name] = view.policy
    /\ policies' = [policies EXCEPT
           ![view.name].status = [ok |-> Valid(view.policy.spec), gen |-> view.policy.gen]]
    /\ view' = Absent
    /\ UNCHANGED <<logDir, deleted, changes, cached, dirty, pod, runners>>

\* Mutation: a Reconcile that fails is not tried again.
MutReconcileFails ==
    /\ view # Absent
    /\ view' = Absent
    /\ UNCHANGED <<users, cached, dirty, pod, runners>>

\* The write fails, because of a newer version or for any other reason: the name is queued.
ReconcileFails ==
    /\ view # Absent
    /\ view' = Absent
    /\ dirty' = dirty \cup {view.name}
    /\ UNCHANGED <<users, cached, pod, runners>>

-----------------------------------------------------------------------------
(* The agent.                                                              *)

Key(cp) == <<cp.name, cp.logType>>
Kind(cp) == IF cp.path = "-" THEN "stdout" ELSE cp.delivery

\* Watcher.logPath: below the agent's directory dir.
AgentPath(dir, cp) == <<dir, <<"pod", cp.name, cp.logType>>>>

\* ensureLogPath: what a container policy is read from; the log path of the first two kinds
\* is a link to it.
Place(dir, cp) ==
    CASE Kind(cp) = "stdout" -> <<"stdout", cp.name>>
      [] Kind(cp) = "bestEffort" -> <<"emptyDir", <<"volume", cp.name, cp.logType>>>>
      [] Kind(cp) = "guaranteed" -> AgentPath(dir, cp)

\* ensureLogPath for the i-th policy: a new link replaces what is there; a directory is made
\* unless the link of an earlier policy is there.
LogPath(dir, cps, i) ==
    LET links == {j \in 1..i - 1 : Key(cps[j]) = Key(cps[i]) /\ Kind(cps[j]) # "guaranteed"} IN
    IF Kind(cps[i]) # "guaranteed" \/ links = {} THEN Place(dir, cps[i])
    ELSE Place(dir, cps[CHOOSE j \in links : \A k \in links : k <= j])

\* ensureLogPath and buildRunner succeed: no directory can be made over a link to nowhere
\* (a pod with a guaranteed policy has no emptyDir).
Starts(dir, cps, i) ==
    /\ Builds(cps[i])
    /\ LogPath(dir, cps, i)[1] = "emptyDir" => Kind(cps[i]) = "bestEffort"

\* OnPodAdd: of the container policies in the annotation, the first that can be started for
\* a container and kind of log has the Runner.
RunnersFor(dir, cps) ==
    LET Runs(i) == Starts(dir, cps, i) /\ \A j \in 1..i - 1 :
                       ~(Key(cps[j]) = Key(cps[i]) /\ Starts(dir, cps, j)) IN
    [k \in {Key(cps[i]) : i \in {j \in DOMAIN cps : Runs(j)}} |->
        LogPath(dir, cps, CHOOSE i \in DOMAIN cps : Key(cps[i]) = k /\ Runs(i))]

OnPodAdd ==
    /\ pod # Absent /\ runners = <<>>
    /\ runners' = RunnersFor(logDir, pod.policies)
    /\ UNCHANGED <<users, operator, pod>>

-----------------------------------------------------------------------------

Next ==
    \/ \E p \in Policy, s \in Specs : CreatePolicy(p, s) \/ EditPolicy(p, s)
    \/ \E p \in Policy : DeletePolicy(p) \/ CacheSync(p) \/ Begin(p)
    \/ \E spec \in PodSpecs : CreatePod(spec)
    \/ UpdateStatus \/ ReconcileFails \/ OnPodAdd

\* The informer and the workers go on; a write that can succeed does so now and then.
Fairness ==
    /\ \A p \in Policy : WF_vars(CacheSync(p)) /\ SF_vars(Begin(p))
    /\ WF_vars(ReconcileFails) /\ SF_vars(UpdateStatus)

Spec == Init /\ [][Next]_vars /\ Fairness

-----------------------------------------------------------------------------

TypeOK ==
    /\ \A p \in Policy : \A version \in {policies[p], cached[p]} \ {Absent} :
           version.spec \in Specs /\ version.gen \in 1..MaxChanges + 1
    /\ deleted \subseteq Policy /\ dirty \subseteq Policy
    /\ view # Absent => view.name \in Policy /\ view.policy # Absent
    /\ pod # Absent => pod.spec \in PodSpecs /\ pod.volume \in {"none", "own", "emptyDir", LogHostPath}
    /\ logDir \in LogDirs

\* A value that is not what its key asks for.
Wanted(key) ==
    CASE key \in {"url", "path", "key", "value"} -> {"string", "certificate"}
      [] key \in {"headers", "fields"} -> {"strings"}
      [] key = "tlsCACert" -> {"certificate"}
      [] key = "tlsSkipVerify" -> {"other"}

Garbled(config) == \E key \in DOMAIN config : config[key] \notin Wanted(key)

Malformed(s) ==
    \/ s.output # Absent /\ Garbled(s.output.config)
    \/ \E i \in DOMAIN s.transforms : Garbled(s.transforms[i].config)
    \/ \E i \in DOMAIN s.containers :
           \/ Garbled(s.containers[i].output.config)
           \/ \E j \in DOMAIN s.containers[i].transforms : Garbled(s.containers[i].transforms[j].config)

\* What the operator has accepted, the agent can build, however often the policy is edited
\* while a Reconcile is under way (acceptedCondition), unless a config has a value of another
\* type than the factories ask for (validateOutput and validateTransforms against the two
\* NewFromSpec).
AcceptedCanRun ==
    \A p \in Policy :
        LET spec == policies[p].spec IN
        Exists(p) /\ policies[p].status.gen = policies[p].gen /\ policies[p].status.ok =>
            CanRun(spec) \/ Malformed(spec)

\* Where a container's writes to a path go.
WritesTo(name, path) ==
    LET mount == {m \in pod.mounts : m.at = <<name, path>>} IN
    CASE path = "-" -> <<"stdout", name>>
      [] path # "-" /\ mount = {} -> <<"container", path>>
      [] OTHER -> <<pod.volume, (CHOOSE m \in mount : TRUE).sub>>

\* The container policy gets the volume and the mount its delivery needs: the pod has no
\* mount, volume or variable of its own in the way, no policy before it has the path, a
\* best-effort one shares the pod with no guaranteed one, no policy of another kind is for
\* the same container and kind of log, and the agent keeps its log paths where the webhook
\* has the logs of a guaranteed one written.
Undisturbed(cps, i) ==
    /\ \A j \in DOMAIN cps : Key(cps[j]) = Key(cps[i]) => Kind(cps[j]) = Kind(cps[i])
    /\ \/ Kind(cps[i]) = "stdout"
       \/ /\ Mounted(pod.spec, cps, i) /\ ~pod.spec.ownVolume
          /\ Kind(cps[i]) = "guaranteed" => pod.env = "pod" /\ logDir = LogHostPath
          /\ BestEffort(cps[i]) => \A j \in DOMAIN cps : BestEffort(cps[j])

\* The Runner of an undisturbed container policy reads what the container writes to its
\* path, whatever has become of the policy since the pod was created (injectPod,
\* ensureLogVolume, ensureLogPath, OnPodAdd).
ReadsWhatIsWritten ==
    pod # Absent =>
        \A i \in DOMAIN pod.policies :
            LET cp == pod.policies[i] IN
            Key(cp) \in DOMAIN runners /\ Undisturbed(pod.policies, i) =>
                runners[Key(cp)] = WritesTo(cp.name, cp.path)

\* Every generation of a policy that stays gets its Accepted condition (Reconcile).
Judged ==
    \A p \in Policy :
        Exists(p) ~> (~Exists(p) \/ policies[p].status.gen = policies[p].gen)
=============================================================================
