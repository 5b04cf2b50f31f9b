----------------------------- MODULE ListWatch -----------------------------
(* What the two inputs that read the Kubernetes API have in common: the API  *)
(* server with its versions, the goroutines that list and watch it, and the  *)
(* queue between them and ReadBatch.  K8sEventInput and K8sObjectStateInput   *)
(* add the loops of their goroutines.                                        *)
EXTENDS Integers, Sequences, SequencesExt

CONSTANTS
    Object,       \* the objects of the API server
    Collector,    \* one goroutine each: a namespace, or a resource in a namespace
    CollectorOf,  \* [Object -> Collector]: whose Lists and watches show the object
    QueueSize,    \* the capacity of the queue: 1000 in the code
    MaxChanges    \* bound: changes at the API server

ASSUME ListWatchAssumption ==
    /\ Object # {}
    /\ CollectorOf \in [Object -> Collector]
    /\ QueueSize \in Nat \ {0}
    /\ MaxChanges \in Nat

VARIABLES
    log,       \* the changes at the API server; the index is the resourceVersion
    oldest,    \* a watch from a version below this one is expired
    queue,     \* the records not yet read: a record is the version it shows
    closed,    \* the context of the goroutines is cancelled
    pc,        \* [Collector -> where its goroutine is]
    asked,     \* [Collector -> the resourceVersion of its next call; 0 is ""]
    items,     \* [Collector -> versions still to be put into the queue]
    position   \* [Collector -> how far its watch has delivered]

api == <<log, oldest>>
common == <<log, oldest, queue, closed, pc, asked, items, position>>

NoWatch == -1
Types == {"ADDED", "MODIFIED", "DELETED"}
Versions == 1..Len(log)
Of(g) == {v \in Versions : CollectorOf[log[v].object] = g}
Superseded(v, at) == \E u \in v + 1..at : log[u].object = log[v].object

\* The items of a List of g answered at a version: each object's last change.
ListAt(g, at) ==
    {v \in Of(g) : v <= at /\ ~Superseded(v, at) /\ log[v].type # "DELETED"}

Present(o) == \E v \in ListAt(CollectorOf[o], Len(log)) : log[v].object = o

\* The changes the watch of g has still to deliver.
Coming(g) == {v \in Of(g) : v > position[g]}
NextChange(g) == CHOOSE v \in Coming(g) : \A u \in Coming(g) : v <= u

ListWatchTypeOK(labels) ==
    /\ log \in Seq([object : Object, type : Types])
    /\ oldest \in 0..Len(log)
    /\ queue \in Seq(Versions) /\ Len(queue) <= QueueSize
    /\ closed \in BOOLEAN
    /\ pc \in [Collector -> labels]
    /\ asked \in [Collector -> 0..Len(log)]
    /\ items \in [Collector -> Seq(Versions)]
    /\ position \in [Collector -> NoWatch..Len(log)]

\* The server when the first input starts has an object, any one of them, as all are
\* alike: no version is 0.
ServerInit ==
    /\ log = <<[object |-> CHOOSE o \in Object : TRUE, type |-> "ADDED"]>>
    /\ oldest = 0

\* The variables of a new input: its goroutines are about to list.
Everyone(x) == [g \in Collector |-> x]

Fresh ==
    /\ queue = <<>>
    /\ closed = FALSE
    /\ pc = Everyone("list")
    /\ asked = Everyone(0)
    /\ items = Everyone(<<>>)
    /\ position = Everyone(NoWatch)

-----------------------------------------------------------------------------
(* The API server.                                                         *)

ChangeObject ==
    /\ Len(log) < MaxChanges
    /\ \E o \in Object, t \in Types :
           /\ t = "ADDED" <=> ~Present(o)
           /\ log' = Append(log, [object |-> o, type |-> t])
    /\ UNCHANGED <<oldest, queue, closed, pc, asked, items, position>>

\* It forgets its changes: watches from before are expired.
Compact ==
    /\ oldest < Len(log)
    /\ oldest' = Len(log)
    /\ UNCHANGED <<log, queue, closed, pc, asked, items, position>>

-----------------------------------------------------------------------------
(* The goroutines and the Runner.                                          *)

Goto(g, label) == pc' = [pc EXCEPT ![g] = label]

\* Mutation: the queue has no limit.
MutEnqueue(g, next) ==
    /\ pc[g] = "put"
    /\ queue' = Append(queue, Head(items[g]))
    /\ items' = [items EXCEPT ![g] = Tail(@)]
    /\ Goto(g, next)
    /\ UNCHANGED <<log, oldest, closed, asked, position>>

\* enqueue: waits while the queue is full; then the goroutine goes on at a label.
Enqueue(g, next) ==
    /\ pc[g] = "put"
    /\ Len(queue) < QueueSize
    /\ queue' = Append(queue, Head(items[g]))
    /\ items' = [items EXCEPT ![g] = Tail(@)]
    /\ Goto(g, next)
    /\ UNCHANGED <<log, oldest, closed, asked, position>>

\* The watch is open from a version on, with what it sends first.
Open(g, from, first) ==
    /\ position' = [position EXCEPT ![g] = from]
    /\ items' = [items EXCEPT ![g] = first]
    /\ Goto(g, "consume")
    /\ UNCHANGED <<log, oldest, queue, closed>>

\* The channel of the watch is closed; the goroutine goes on at a label.
WatchEnds(g, next) ==
    /\ pc[g] = "consume" /\ ~closed
    /\ position' = [position EXCEPT ![g] = NoWatch]
    /\ items' = [items EXCEPT ![g] = <<>>]
    /\ asked' = [asked EXCEPT ![g] = 0]
    /\ Goto(g, next)
    /\ UNCHANGED <<log, oldest, queue, closed>>

\* Mutation: a goroutine that waits for room in the queue does not look at its context.
MutExit(g) ==
    /\ closed
    /\ pc[g] \notin {"put", "exit"}
    /\ Goto(g, "exit")
    /\ asked' = [asked EXCEPT ![g] = 0]
    /\ items' = [items EXCEPT ![g] = <<>>]
    /\ position' = [position EXCEPT ![g] = NoWatch]
    /\ UNCHANGED <<log, oldest, queue, closed>>

\* Every wait and every loop of a goroutine ends once the context is cancelled.
Exit(g) ==
    /\ closed
    /\ pc[g] # "exit"
    /\ Goto(g, "exit")
    /\ asked' = [asked EXCEPT ![g] = 0]
    /\ items' = [items EXCEPT ![g] = <<>>]
    /\ position' = [position EXCEPT ![g] = NoWatch]
    /\ UNCHANGED <<log, oldest, queue, closed>>

\* ReadBatch takes what is there, up to its size; it never waits.
Read(n) ==
    /\ ~closed
    /\ n \in 1..Len(queue)
    /\ queue' = SubSeq(queue, n + 1, Len(queue))
    /\ UNCHANGED <<log, oldest, closed, pc, asked, items, position>>

\* Close cancels the context.
Cancel ==
    /\ ~closed
    /\ closed' = TRUE
    /\ UNCHANGED <<log, oldest, queue, pc, asked, items, position>>

\* Close ends every goroutine, one that waits for room in the queue too (enqueue).
CollectorsEnd == closed ~> (closed => pc = Everyone("exit"))
=============================================================================
