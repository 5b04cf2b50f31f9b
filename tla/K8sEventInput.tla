--------------------------- MODULE K8sEventInput ---------------------------
(* The Kubernetes event input (agent/input/k8sevent.go): one goroutine per   *)
(* namespace lists once and then watches.  They share the version to go on   *)
(* from, and a file keeps a version for the next process.                    *)
EXTENDS ListWatch

CONSTANT MaxRestarts   \* bound: new inputs behind the first

VARIABLES
    last,      \* lastResourceVersion, shared by all goroutines; 0 is ""
    read,      \* readResourceVersion: of the last record read; 0 is ""
    saved,     \* the version in the file; 0 when there is none
    restarts,
    writer,    \* history: the goroutine that has written last, or Nobody
    done       \* history: the versions put into the queue, or known to be left out

own == <<last, read, saved, restarts, writer, done>>
eventVars == <<common, own>>

Nobody == "nobody"

ASSUME EventInputAssumption == Nobody \notin Collector /\ MaxRestarts \in Nat

EventTypeOK ==
    /\ ListWatchTypeOK({"list", "listing", "relist", "relisting", "watch", "dial",
                        "put", "consume", "exit"})
    /\ last \in 0..Len(log) /\ read \in 0..Len(log) /\ saved \in 0..Len(log)
    /\ restarts \in 0..MaxRestarts
    /\ writer \in Collector \cup {Nobody}
    /\ done \subseteq Versions

EventInit ==
    /\ ServerInit
    /\ Fresh
    /\ last = 0 /\ read = 0 /\ saved = 0
    /\ writer = Nobody /\ done = {}
    /\ restarts = 0

\* The input goes on behind a version: what g has not put into the queue by then stays out.
LeaveOut(g, vs) == done' = done \cup (Of(g) \cap vs)

-----------------------------------------------------------------------------
(* runNamespace and listNamespace.                                         *)

Calling == [list |-> "listing", relist |-> "relisting", watch |-> "dial"]

\* getLastResourceVersion, for the List or the Watch that comes next.  A watch that opens
\* at the version of another goroutine leaves out what is before it.
ReadVersion(g) ==
    /\ pc[g] \in DOMAIN Calling /\ ~closed
    /\ asked' = [asked EXCEPT ![g] = last]
    /\ Goto(g, Calling[pc[g]])
    /\ LeaveOut(g, IF pc[g] = "watch" /\ writer # g THEN 1..last ELSE {})
    /\ UNCHANGED <<api, queue, closed, items, position, last, read, saved, restarts, writer>>

Listed(g, at, order) ==
    /\ pc[g] \in {"listing", "relisting"} /\ ~closed
    /\ last' = at /\ writer' = g
    /\ asked' = [asked EXCEPT ![g] = 0]
    /\ items' = [items EXCEPT ![g] = order]
    /\ Goto(g, IF order = <<>> THEN "watch" ELSE "put")
    /\ UNCHANGED <<api, queue, closed, position, read, saved, restarts>>

\* The List without a version is answered from the newest; its items, in the order of
\* their names, go into the queue.
ListAll(g) ==
    /\ asked[g] = 0
    /\ LET now == Len(log) IN
           /\ \E order \in SetToSeqs(ListAt(g, now)) :
                  Listed(g, now, order)
           /\ LeaveOut(g, (1..now) \ ListAt(g, now))

\* A resumed List may be answered from any version not older than the one it asks for, of
\* those a watch can go on from; the input goes on from there, without the items.
ListResumes(g) ==
    /\ asked[g] # 0
    /\ \E at \in oldest..Len(log) :
           at >= asked[g] /\ Listed(g, at, <<>>) /\ LeaveOut(g, 1..at)

Expired(g) == asked[g] # 0 /\ asked[g] < oldest /\ ~closed

\* Mutation: the List behind an expired one is taken for a resumed one.
MutListExpires(g) ==
    /\ pc[g] \in {"listing", "relisting"}
    /\ Expired(g)
    /\ Listed(g, Len(log), <<>>)
    /\ UNCHANGED done

\* The version asked for is expired: it is cleared, and a List without one follows.
ListExpires(g) ==
    /\ pc[g] \in {"listing", "relisting"}
    /\ Expired(g)
    /\ last' = 0
    /\ asked' = [asked EXCEPT ![g] = 0]
    /\ UNCHANGED <<api, queue, closed, pc, items, position>>
    /\ UNCHANGED <<read, saved, restarts, writer, done>>

\* Mutation: the goroutine ends with a Watch that fails.
MutCallFails(g) ==
    /\ pc[g] \in {"listing", "relisting", "dial"} /\ ~closed
    /\ asked' = [asked EXCEPT ![g] = 0]
    /\ Goto(g, IF pc[g] = "dial" THEN "exit" ELSE IF pc[g] = "listing" THEN "list" ELSE "watch")
    /\ UNCHANGED <<api, queue, closed, items, position, own>>

\* A call fails: runNamespace tries its List again; watchNamespace tries a Watch again, and
\* opens one behind a List that failed.
CallFails(g) ==
    /\ pc[g] \in {"listing", "relisting", "dial"} /\ ~closed
    /\ asked' = [asked EXCEPT ![g] = 0]
    /\ Goto(g, IF pc[g] = "listing" THEN "list" ELSE "watch")
    /\ UNCHANGED <<api, queue, closed, items, position, own>>

-----------------------------------------------------------------------------
(* watchNamespace and consumeWatch.                                        *)

\* The watch opens behind the version, and delivers what came since.
OpenWatch(g) ==
    /\ pc[g] = "dial" /\ ~closed
    /\ asked[g] # 0 /\ asked[g] >= oldest
    /\ Open(g, asked[g], <<>>)
    /\ asked' = [asked EXCEPT ![g] = 0]
    /\ UNCHANGED own

\* A watch without a version begins with all that is there, as events in any order.
OpenWatchOfAll(g) ==
    /\ pc[g] = "dial" /\ ~closed
    /\ asked[g] = 0
    /\ LET now == Len(log) IN
           /\ \E order \in SetToSeqs(ListAt(g, now)) :
                  Open(g, now, order)
           /\ LeaveOut(g, (1..now) \ ListAt(g, now))
    /\ UNCHANGED asked
    /\ UNCHANGED <<last, read, saved, restarts, writer>>

\* The version is expired, which the call itself reports: it is cleared, and
\* watchNamespace lists anew.
WatchExpires(g) ==
    /\ pc[g] = "dial"
    /\ Expired(g)
    /\ last' = 0
    /\ asked' = [asked EXCEPT ![g] = 0]
    /\ Goto(g, "relist")
    /\ UNCHANGED <<api, queue, closed, items, position>>
    /\ UNCHANGED <<read, saved, restarts, writer, done>>

\* The other way to report it: the watch opens, brings an ERROR event, whose object is no
\* Event, and is closed.  consumeWatch skips the event; watchNamespace opens the watch again,
\* at the version there is.
WatchErrors(g) ==
    /\ pc[g] = "dial"
    /\ Expired(g)
    /\ asked' = [asked EXCEPT ![g] = 0]
    /\ Goto(g, "watch")
    /\ UNCHANGED <<api, queue, closed, items, position, own>>

Handle(g, v) ==
    /\ last' = v /\ writer' = g
    /\ Goto(g, "put")

\* An event of the watch: a deletion is skipped; of any other, the version is noted and
\* the event goes on to the queue.
WatchEvent(g) ==
    /\ pc[g] = "consume" /\ ~closed
    /\ \/ /\ items[g] # <<>>
          /\ Handle(g, Head(items[g]))
          /\ UNCHANGED <<items, position>>
       \/ /\ items[g] = <<>>
          /\ Coming(g) # {}
          /\ LET v == NextChange(g) IN
                 /\ position' = [position EXCEPT ![g] = v]
                 /\ IF log[v].type = "DELETED"
                    THEN UNCHANGED <<last, writer, pc, items>>
                    ELSE Handle(g, v) /\ items' = [items EXCEPT ![g] = <<v>>]
    /\ UNCHANGED <<api, queue, closed, asked, read, saved, restarts, done>>

\* The watch ends, with an error event or without: watchNamespace opens another.  When it
\* ends amid its first events, those before the version noted stay out.
CloseWatch(g) ==
    /\ WatchEnds(g, "watch")
    /\ LeaveOut(g, {v \in ToSet(items[g]) : v <= last})
    /\ UNCHANGED <<last, read, saved, restarts, writer>>

\* The items of a List go into the queue one by one, an event of a watch at once.
Put(g) ==
    /\ Enqueue(g, CASE position[g] # NoWatch -> "consume"
                    [] position[g] = NoWatch /\ Len(items[g]) > 1 -> "put"
                    [] OTHER -> "watch")
    /\ done' = done \cup {Head(items[g])}
    /\ UNCHANGED <<last, read, saved, restarts, writer>>

-----------------------------------------------------------------------------
(* The Runner's side, the end of the input and the next one.               *)

ReadBatch ==
    /\ \E n \in 1..QueueSize : Read(n) /\ read' = queue[n]
    /\ UNCHANGED <<last, saved, restarts, writer, done>>

\* The version of the last record read is written, or else the last one seen.
Save == saved' = IF read # 0 THEN read ELSE IF last # 0 THEN last ELSE saved

\* The Runner commits what it has read.
Commit ==
    /\ read # 0 /\ ~closed
    /\ Save
    /\ UNCHANGED <<common, last, read, restarts, writer, done>>

\* Close cancels and commits; the file may not be written.
Close ==
    /\ Cancel
    /\ Save \/ UNCHANGED saved
    /\ UNCHANGED <<last, read, restarts, writer, done>>

\* The process is started again, at any time: NewK8sEventInput loads the version.
Restart ==
    /\ restarts < MaxRestarts
    /\ restarts' = restarts + 1
    /\ queue' = <<>> /\ closed' = FALSE
    /\ pc' = Everyone("list") /\ asked' = Everyone(0)
    /\ items' = Everyone(<<>>) /\ position' = Everyone(NoWatch)
    /\ last' = saved /\ read' = 0 /\ writer' = Nobody /\ done' = {}
    /\ UNCHANGED <<api, saved>>

-----------------------------------------------------------------------------

Answered(g) ==
    \/ ListAll(g) \/ ListResumes(g) \/ ListExpires(g)
    \/ OpenWatch(g) \/ OpenWatchOfAll(g) \/ WatchExpires(g) \/ WatchErrors(g)
Ends(g) == Exit(g) /\ UNCHANGED own

EventGoes(g) == ReadVersion(g) \/ Answered(g) \/ WatchEvent(g) \/ Put(g) \/ Ends(g)
EventFault(g) == CallFails(g) \/ CloseWatch(g)

EventNext ==
    \/ (ChangeObject \/ Compact) /\ UNCHANGED own
    \/ \E g \in Collector : EventGoes(g)
    \/ ReadBatch \/ Commit \/ Close \/ Restart

-----------------------------------------------------------------------------

\* A goroutine whose watch is open has gone past no event without putting it into the
\* queue, over ended watches, expired versions and failed calls, except where the code
\* goes on from a version that is not its own: of the file, of another namespace, or of a
\* watch without a version that ended amid its first events (listNamespace,
\* watchNamespace, consumeWatch).
NoEventIsMissed ==
    \A g \in Collector : \A v \in Of(g) :
        v <= position[g] =>
            v \in done \/ v \in ToSet(items[g]) \/ log[v].type = "DELETED"

EventCollected(v) == v \in done \/ log[v].type = "DELETED"

\* A goroutine that opens its watch at an expired version: as long as an ERROR event tells
\* it so and no other goroutine notes a newer version, it does nothing else.
Stuck(g) == pc[g] \in {"watch", "dial"} /\ last # 0 /\ last < oldest
=============================================================================
