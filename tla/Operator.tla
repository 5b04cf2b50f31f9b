------------------------------ MODULE Operator ------------------------------
(* The operator's LogPilot controller (operator/logpilot_controller.go,      *)
(* deploy.go): one worker that reads a LogPilot from its cache and applies,  *)
(* or cleans up, the objects that run the system, while users edit the       *)
(* LogPilot and the webhook's own process fills in its certificate.          *)
EXTENDS Integers, Sequences

CONSTANTS
    MaxLogPilots,   \* bound: how often the LogPilot is created
    MaxEdits,       \* bound: specifications it is given
    MaxCerts,       \* bound: certificates of the webhook
    MaxDamage,      \* bound: managed objects somebody else deletes
    Absent          \* no object

LogPilot ==
    [uid : 1..MaxLogPilots, spec : 1..MaxEdits, deleting : BOOLEAN, finalizer : BOOLEAN]
Objects == [spec : 1..MaxEdits, ca : 0..MaxCerts]

ASSUME OperatorAssumption ==
    /\ MaxLogPilots \in Nat \ {0} /\ MaxEdits \in Nat \ {0}
    /\ MaxCerts \in Nat /\ MaxDamage \in Nat
    /\ Absent \notin LogPilot /\ Absent \notin Objects

VARIABLES
    lp,        \* the LogPilot at the API server, or Absent
    uids,      \* LogPilots created so far
    objects,   \* [Managed -> the object at the API server, or Absent]
    certs,     \* certificates issued so far
    damage,    \* managed objects deleted by others so far
    cached,    \* the LogPilot in the operator's cache
    dirty,     \* its key is in the work queue
    pc,        \* where the worker is
    view,      \* the LogPilot Reconcile has read
    at,        \* the index in Order of the object it is at
    held       \* that object, as it has read it

server == <<lp, uids, objects, certs, damage>>
worker == <<pc, view, at, held>>
vars == <<server, cached, dirty, worker>>

\* The objects in the order of Reconcile: a support object (service accounts, service,
\* roles), the webhook, and a workload (Deployment, DaemonSet).
Order == <<"support", "webhook", "workload">>
Managed == {Order[i] : i \in 1..Len(Order)}

TypeOK ==
    /\ lp \in LogPilot \cup {Absent}
    /\ uids \in 0..MaxLogPilots
    /\ objects \in [Managed -> Objects \cup {Absent}]
    /\ certs \in 0..MaxCerts
    /\ damage \in 0..MaxDamage
    /\ cached \in LogPilot \cup {Absent}
    /\ dirty \in BOOLEAN
    /\ pc \in {"idle", "adopt", "read", "write", "cleanup", "release"}
    /\ view \in LogPilot \cup {Absent}
    /\ pc # "idle" => view # Absent
    /\ at \in 1..Len(Order)
    /\ held \in Objects \cup {Absent}

Idle == pc' = "idle" /\ view' = Absent /\ at' = 1 /\ held' = Absent

Init ==
    /\ lp = Absent /\ uids = 0 /\ certs = 0 /\ damage = 0
    /\ objects = [o \in Managed |-> Absent]
    /\ cached = Absent /\ dirty = FALSE
    /\ pc = "idle" /\ view = Absent /\ at = 1 /\ held = Absent

-----------------------------------------------------------------------------
(* Users, the webhook's process, and the cache.                            *)

CreateLogPilot ==
    /\ lp = Absent /\ uids < MaxLogPilots
    /\ uids' = uids + 1
    /\ lp' = [uid |-> uids + 1, spec |-> 1, deleting |-> FALSE, finalizer |-> FALSE]
    /\ UNCHANGED <<objects, certs, damage, cached, dirty, worker>>

EditLogPilot ==
    /\ lp # Absent /\ lp.spec < MaxEdits
    /\ lp' = [lp EXCEPT !.spec = @ + 1]
    /\ UNCHANGED <<uids, objects, certs, damage, cached, dirty, worker>>

\* With a finalizer it is only marked.
DeleteLogPilot ==
    /\ lp # Absent /\ ~lp.deleting
    /\ lp' = IF lp.finalizer THEN [lp EXCEPT !.deleting = TRUE] ELSE Absent
    /\ UNCHANGED <<uids, objects, certs, damage, cached, dirty, worker>>

\* The process behind the webhook writes its certificate authority into it.
IssueCert ==
    /\ objects["webhook"] # Absent /\ certs < MaxCerts
    /\ certs' = certs + 1
    /\ objects' = [objects EXCEPT !["webhook"].ca = certs + 1]
    /\ UNCHANGED <<lp, uids, damage, cached, dirty, worker>>

Damage(o) ==
    /\ objects[o] # Absent /\ damage < MaxDamage
    /\ damage' = damage + 1
    /\ objects' = [objects EXCEPT ![o] = Absent]
    /\ UNCHANGED <<lp, uids, certs, cached, dirty, worker>>

\* The informer catches up with the API server, and its event handler adds the key.
CacheSync ==
    /\ cached # lp
    /\ cached' = lp
    /\ dirty' = TRUE
    /\ UNCHANGED <<server, worker>>

\* The informer hands out what it has again, every ten hours.
Resync ==
    /\ cached # Absent
    /\ dirty' = TRUE
    /\ UNCHANGED <<server, cached, worker>>

-----------------------------------------------------------------------------
(* Reconcile.                                                              *)

\* The worker takes the key; Reconcile reads the LogPilot from the cache and returns when
\* it is not there, or deleted without our finalizer.
Begin ==
    /\ pc = "idle" /\ dirty
    /\ dirty' = FALSE
    /\ IF cached = Absent \/ (cached.deleting /\ ~cached.finalizer)
       THEN UNCHANGED worker
       ELSE /\ view' = cached
            /\ pc' = CASE cached.deleting -> "cleanup"
                       [] ~cached.deleting /\ ~cached.finalizer -> "adopt"
                       [] OTHER -> "read"
            /\ UNCHANGED <<at, held>>
    /\ UNCHANGED <<server, cached>>

\* An update of the LogPilot writes all of what was read, and only over that version.
Update(new) ==
    /\ lp = view
    /\ lp' = IF new.deleting /\ ~new.finalizer THEN Absent ELSE new

\* AddFinalizer; the event of the update brings the worker back.
Adopt ==
    /\ pc = "adopt"
    /\ Update([view EXCEPT !.finalizer = TRUE])
    /\ Idle
    /\ UNCHANGED <<uids, objects, certs, damage, cached, dirty>>

\* reconcileObject, reconcileDeployment, reconcileDaemonSet: the object is read, from the
\* cache or not; one read that is old makes the write fail.
Read ==
    /\ pc = "read"
    /\ held' = objects[Order[at]]
    /\ pc' = "write"
    /\ UNCHANGED <<server, cached, dirty, view, at>>

\* preserveImmutableAndRuntimeFields.
Desired == [spec |-> view.spec, ca |-> IF held = Absent THEN 0 ELSE held.ca]

\* Mutation: the loop does not end behind the last object.
MutLoop == pc' = "read" /\ at' = at + 1 /\ held' = Absent /\ UNCHANGED view

\* Mutation: Reconcile returns behind each object, as it does behind AddFinalizer.
MutReturn == Idle

Following ==
    IF at < Len(Order)
    THEN pc' = "read" /\ at' = at + 1 /\ held' = Absent /\ UNCHANGED view
    ELSE Idle

\* Mutation: the object is written over whatever is there by now.
MutWrite ==
    /\ pc = "write"
    /\ objects' = [objects EXCEPT ![Order[at]] = Desired]
    /\ Following
    /\ UNCHANGED <<lp, uids, certs, damage, cached, dirty>>

\* Create, when nothing was found, or Update of the version that was read.
Write ==
    /\ pc = "write"
    /\ objects[Order[at]] = held
    /\ objects' = [objects EXCEPT ![Order[at]] = Desired]
    /\ Following
    /\ UNCHANGED <<lp, uids, certs, damage, cached, dirty>>

CleanNext ==
    IF at < Len(Order) THEN at' = at + 1 /\ UNCHANGED pc ELSE at' = 1 /\ pc' = "release"

\* Mutation: an object that cannot be deleted does not stop cleanupLogPilot.
MutCleanup ==
    /\ pc = "cleanup"
    /\ objects' = [objects EXCEPT ![Order[at]] = Absent] \/ UNCHANGED objects
    /\ CleanNext
    /\ UNCHANGED <<lp, uids, certs, damage, cached, dirty, view, held>>

\* cleanupLogPilot deletes one object; that it is gone already is no error.
Cleanup ==
    /\ pc = "cleanup"
    /\ objects' = [objects EXCEPT ![Order[at]] = Absent]
    /\ CleanNext
    /\ UNCHANGED <<lp, uids, certs, damage, cached, dirty, view, held>>

\* RemoveFinalizer.
Release ==
    /\ pc = "release"
    /\ Update([view EXCEPT !.finalizer = FALSE])
    /\ Idle
    /\ UNCHANGED <<uids, objects, certs, damage, cached, dirty>>

\* A call fails, also because what was read is not the newest, or could not be read: the
\* key is added again.
Fail ==
    /\ pc \notin {"idle", "read"}
    /\ Idle
    /\ dirty' = TRUE
    /\ UNCHANGED <<server, cached>>

\* The operator is started again, or another one becomes the leader: it reads everything.
\* (In front of a Read it shows the same as behind it; so does a failure.)
Restart ==
    /\ pc # "read"
    /\ Idle
    /\ cached' = lp
    /\ dirty' = (lp # Absent)
    /\ UNCHANGED server

Step == Adopt \/ Read \/ Write \/ Cleanup \/ Release

Next ==
    \/ CreateLogPilot \/ EditLogPilot \/ DeleteLogPilot
    \/ IssueCert \/ (\E o \in Managed : Damage(o))
    \/ CacheSync \/ Resync
    \/ Begin \/ Step \/ Fail \/ Restart

\* The informer and the worker go on; a call of each kind that can succeed does so now and
\* then; a Reconcile that cannot go on has failed.
Fairness ==
    /\ WF_vars(CacheSync) /\ WF_vars(Resync) /\ SF_vars(Begin) /\ WF_vars(Fail)
    /\ WF_vars(Read) /\ SF_vars(Adopt) /\ SF_vars(Release)
    /\ \A i \in 1..Len(Order) : SF_vars(at = i /\ (Write \/ Cleanup))

Spec == Init /\ [][Next]_vars
FairSpec == Spec /\ Fairness

-----------------------------------------------------------------------------

\* A LogPilot goes only behind the last of its objects: the finalizer is there before the
\* first is created, and is removed behind the last is deleted, whatever the cache shows
\* and wherever the worker fails.  Nobody would delete the cluster-scoped ones (Reconcile,
\* cleanupLogPilot).
NothingLeft == (\E o \in Managed : objects[o] # Absent) => lp # Absent /\ lp.finalizer

\* A Reconcile never takes a certificate authority out of the webhook or puts an older one
\* in (reconcileObject, preserveImmutableAndRuntimeFields).
CertKept ==
    [][\/ objects["webhook"] = Absent \/ objects'["webhook"] = Absent
       \/ objects'["webhook"].ca >= objects["webhook"].ca]_vars

Applied == \A o \in Managed : objects[o] # Absent /\ objects[o].spec = lp.spec

\* The objects follow the LogPilot, over failures, restarts, edits, a cache that lags and
\* objects that others delete; a LogPilot that is deleted goes in the end (Reconcile,
\* cleanupLogPilot).
Settles == (lp # Absent) ~> (lp = Absent \/ (~lp.deleting /\ Applied))
=============================================================================
