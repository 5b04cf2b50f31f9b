----------------------------- MODULE MCPolicies -----------------------------
(* Two policies and one pod with two containers; two specs can disturb each  *)
(* other in every way the webhook and the agent know.                        *)
EXTENDS Policies

Of(type, config) == [type |-> type, config |-> config]

Http == Of("http", "url" :> "string")
Drop(config) == Of("drop", config)

Cp(name, logType, path, delivery) ==
    [name |-> name, logType |-> logType, path |-> path, delivery |-> delivery,
     output |-> Http, transforms |-> <<>>]

Base == [cluster |-> FALSE, selector |-> "pod", containers |-> <<>>,
         input |-> "none", output |-> Absent, transforms |-> <<>>]

For(containers) == [Base EXCEPT !.containers = containers]

MCNames == <<"p1", "p2">>

MCSpecs == {
    For(<<Cp("c1", "a", "/p", "guaranteed"), Cp("c1", "b", "/q", "guaranteed")>>),
    [For(<<Cp("c1", "a", "/p", "bestEffort"),
           [Cp("c2", "a", "-", "bestEffort") EXCEPT
                !.transforms = <<Drop("key" :> "string" @@ "value" :> "string")>>]>>)
        EXCEPT !.input = "dir", !.output = Of("file", "path" :> "string")],
    For(<<[Cp("c1", "a", "-", "guaranteed") EXCEPT !.transforms = <<Drop("key" :> "string")>>]>>),
    [Base EXCEPT !.cluster = TRUE, !.selector = "none", !.input = "k8sEvent",
                 !.output = Of("http", "url" :> "string" @@ "tlsCACert" :> "string"),
                 !.transforms = <<Of("label", "fields" :> "strings")>>]}

MCLogDirs == {LogHostPath, "/data/logs"}

Pod(mounts, ownVolume, ownEnv) ==
    [containers |-> {"c1", "c2"}, mounts |-> mounts, ownVolume |-> ownVolume, ownEnv |-> ownEnv]

\* A plain pod, and one with a mount, a volume and variables of its own.
MCPodSpecs == {Pod({}, FALSE, FALSE), Pod({<<"c1", "/p">>}, TRUE, TRUE)}
=============================================================================
