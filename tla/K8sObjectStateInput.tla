------------------------ MODULE K8sObjectStateInput ------------------------
(* The object state input (agent/input/k8sobjectstate.go): one goroutine per *)
(* resource and namespace snapshots the objects with a List, then reports    *)
(* every event of a watch from the version of the List on; when the watch    *)
(* ends it begins again.  The state of an object is data: its version.       *)
EXTENDS ListWatch

VARIABLE shown   \* history: [Object -> the version of its last record in the queue]

objectVars == <<common, shown>>

\* The resource and namespace of a goroutine list at the version kept in asked.
ObjectTypeOK ==
    /\ ListWatchTypeOK({"list", "put", "dial", "consume", "exit"})
    /\ shown \in [Object -> 0..Len(log)]

ObjectInit ==
    /\ ServerInit
    /\ Fresh
    /\ shown = [o \in Object |-> 0]

Show(v) == shown' = [shown EXCEPT ![log[v].object] = v]

-----------------------------------------------------------------------------
(* The loop of startPodCollectors, collectNodes and the others.            *)

Snapshot(g, at) ==
    /\ pc[g] = "list" /\ ~closed
    /\ asked' = [asked EXCEPT ![g] = at]
    /\ \E order \in SetToSeqs(ListAt(g, at)) : items' = [items EXCEPT ![g] = order]
    /\ Goto(g, IF ListAt(g, at) = {} THEN "dial" ELSE "put")
    /\ UNCHANGED <<api, queue, closed, position, shown>>

\* Mutation: the List may be answered from the server's cache (resourceVersion "0").
MutListObjects(g) == \E at \in 1..Len(log) : Snapshot(g, at)

\* The List is answered from the newest version.
ListObjects(g) == Snapshot(g, Len(log))

\* The watch opens from the version of the List on.
WatchObjects(g) ==
    /\ pc[g] = "dial" /\ ~closed
    /\ asked[g] >= oldest
    /\ Open(g, asked[g], <<>>)
    /\ UNCHANGED <<asked, shown>>

ListAgain(g) ==
    /\ asked' = [asked EXCEPT ![g] = 0]
    /\ Goto(g, "list")
    /\ UNCHANGED <<api, queue, closed, items, position, shown>>

\* A Watch that fails leads to another List, an expired one and any other; so does one
\* that brings an ERROR event, which handleObject skips, and is closed.
ObjectWatchExpires(g) == pc[g] = "dial" /\ ~closed /\ asked[g] < oldest /\ ListAgain(g)
WatchFails(g) == pc[g] = "dial" /\ ~closed /\ ListAgain(g)

\* So does a watch that ends.
EndObjectWatch(g) == WatchEnds(g, "list") /\ UNCHANGED shown

\* Mutation: a deletion is skipped, as the event input does.
MutHandleObject(g) ==
    /\ pc[g] = "consume" /\ ~closed
    /\ Coming(g) # {}
    /\ LET v == NextChange(g) IN
           /\ position' = [position EXCEPT ![g] = v]
           /\ IF log[v].type = "DELETED"
              THEN UNCHANGED <<items, pc>>
              ELSE items' = [items EXCEPT ![g] = <<v>>] /\ Goto(g, "put")
    /\ UNCHANGED <<api, queue, closed, asked, shown>>

\* handleObject: every event goes into the queue, a deletion too.
HandleObject(g) ==
    /\ pc[g] = "consume" /\ ~closed
    /\ Coming(g) # {}
    /\ position' = [position EXCEPT ![g] = NextChange(g)]
    /\ items' = [items EXCEPT ![g] = <<NextChange(g)>>]
    /\ Goto(g, "put")
    /\ UNCHANGED <<api, queue, closed, asked, shown>>

PutObject(g) ==
    /\ Enqueue(g, CASE position[g] # NoWatch -> "consume"
                    [] position[g] = NoWatch /\ Len(items[g]) > 1 -> "put"
                    [] OTHER -> "dial")
    /\ Show(Head(items[g]))

-----------------------------------------------------------------------------

ReadObjects == \E n \in 1..QueueSize : Read(n) /\ UNCHANGED shown
CloseObjects == Cancel /\ UNCHANGED shown
EndObjects(g) == Exit(g) /\ UNCHANGED shown

ObjectGoes(g) ==
    \/ ListObjects(g) \/ WatchObjects(g) \/ ObjectWatchExpires(g)
    \/ HandleObject(g) \/ PutObject(g) \/ EndObjects(g)
ObjectFault(g) == WatchFails(g) \/ EndObjectWatch(g)

ObjectNext ==
    \/ (ChangeObject \/ Compact) /\ UNCHANGED shown
    \/ \E g \in Collector : ObjectGoes(g)
    \/ ReadObjects \/ CloseObjects

-----------------------------------------------------------------------------

\* When a goroutine has nothing more to put, the last record of each of its objects is the
\* object's state where the watch is, or it was deleted before the List the watch
\* continues: no snapshot shows that (startPodCollectors, handleObject).
RecordsShowTheState ==
    \A g \in Collector : \A v \in Of(g) :
        pc[g] = "consume" /\ v <= position[g] /\ ~Superseded(v, position[g]) =>
            shown[log[v].object] = v \/ (log[v].type = "DELETED" /\ v <= asked[g])

\* A record never shows an older state of an object than one before it, over the ends of
\* watches and the Lists behind them (the List without a version, startPodCollectors).
NeverBackwards == [][\A o \in Object : shown'[o] >= shown[o]]_shown

\* The change of an object, or a later one, is shown; or the object is deleted, maybe
\* before any List has seen it (startPodCollectors, watch).
StateShown(v) == shown[log[v].object] >= v \/ ~Present(log[v].object)
=============================================================================
