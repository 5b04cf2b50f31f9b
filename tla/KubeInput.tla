----------------------------- MODULE KubeInput -----------------------------
(* The input of a cluster policy's Runner: startClusterPolicyRunner makes    *)
(* one of the two kinds.                                                     *)
EXTENDS K8sEventInput, K8sObjectStateInput

CONSTANTS
    MaxEventChanges,   \* bound: as MaxChanges, for the larger event input
    MaxFaults          \* bound: calls that fail and watches that end

ASSUME KubeInputAssumption == MaxEventChanges <= MaxChanges /\ MaxFaults \in Nat

VARIABLES
    kind,    \* the type of the policy's input
    faults   \* the calls that have failed and the watches that have ended

vars == <<kind, faults, eventVars, shown>>

Kinds == {"k8sEvent", "k8sObjectState"}
Event == kind = "k8sEvent"
State == kind = "k8sObjectState"

TypeOK ==
    /\ kind \in Kinds /\ faults \in 0..MaxFaults
    /\ Event => EventTypeOK
    /\ State => ObjectTypeOK

Init == kind \in Kinds /\ faults = 0 /\ EventInit /\ ObjectInit

AsEvent(A) == Event /\ A /\ Len(log') <= MaxEventChanges /\ UNCHANGED <<kind, faults, shown>>
AsState(A) == State /\ A /\ UNCHANGED <<kind, faults, own>>

Fault ==
    /\ faults < MaxFaults
    /\ faults' = faults + 1
    /\ \E g \in Collector :
           \/ Event /\ EventFault(g) /\ UNCHANGED <<kind, shown>>
           \/ State /\ ObjectFault(g) /\ UNCHANGED <<kind, own>>

Next == AsEvent(EventNext) \/ AsState(ObjectNext) \/ Fault

Reads == AsEvent(ReadBatch) \/ AsState(ReadObjects)
Goes(g) == AsEvent(EventGoes(g)) \/ AsState(ObjectGoes(g))

Fairness == WF_vars(Reads) /\ \A g \in Collector : WF_vars(Goes(g))

Spec == Init /\ [][Next]_vars /\ Fairness

\* An event input goes past no event without putting it into the queue, but for the gaps
\* K8sEventInput names (listNamespace, watchNamespace, consumeWatch).
NoEventMissed == Event => NoEventIsMissed

\* The records of an object state input end with the state of each object, but for
\* deletions that no watch was open for (startPodCollectors, handleObject).
ShowsTheState == State => RecordsShowTheState

\* Every change reaches the queue in the end, or is left out for a reason the kind's module
\* names, however often watches end, calls fail and versions expire; but for an event input
\* whose goroutine watches at an expired version for ever (consumeWatch skips ERROR events).
ChangesCollected ==
    \A v \in 1..MaxChanges :
        (v \in Versions) ~>
            \/ v \in Versions => closed \/ (Event /\ EventCollected(v)) \/ (State /\ StateShown(v))
            \/ [](Event /\ v \in Versions /\ Stuck(CollectorOf[log[v].object]))
=============================================================================
