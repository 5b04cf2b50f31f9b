-------------------------- MODULE PodWatcherProofs --------------------------
(***************************************************************************)
(* Proofs about PodWatcher, for every finite set of pods with any policies,*)
(* any number of updates and restarts, log paths that fail and Runners     *)
(* that hang.                                                              *)
(*                                                                         *)
(* That a policy gets one Runner rests on what is known of a pod whose     *)
(* Runners have left the map: it is gone for good, and neither the List    *)
(* syncPods works on nor the watch will name it again (Over).  This in turn*)
(* rests on the order of the watch (Announced) and on the List being no    *)
(* older than what is seen (Listed).                                       *)
(***************************************************************************)
EXTENDS PodWatcher, SequenceTheorems, FiniteSetTheorems, TLAPS

InAdd == pc \in {"add", "update"}

\* syncPods is at work: in its loops, or in the OnPodAdd it has called.
Syncing == pc = "sync" \/ (InAdd /\ resume = "sync")

\* The locals of OnPodAdd, which only Start's goroutine has.
Locals ==
    /\ IF InAdd THEN adding \in Pod /\ pods[adding] # "unborn" /\ todo \subseteq KeysOf(adding)
                ELSE adding = NoPod
    /\ IF pc = "update" THEN newKey \in Key ELSE newKey = NoKey
    /\ main = "down" => pc = "down"

\* What is seen and no longer listed is gone; what is to be added was listed.
Listed ==
    /\ toAdd \subseteq current
    /\ ~Syncing => toAdd = {}
    /\ Syncing => (InAdd => adding \in current)
                  /\ \A p \in seen : p \in current \/ pods[p] = "gone"
    /\ \A p \in seen \cup current : pods[p] # "unborn"

\* The watch tells of a deletion behind everything else about a pod.
Announced ==
    /\ ~WatchOpen => stream = <<>>
    /\ \A i \in 1..Len(stream) :
           /\ pods[stream[i].pod] # "unborn"
           /\ stream[i].type = "Deleted" =>
                  /\ pods[stream[i].pod] = "gone"
                  /\ \A j \in i + 1..Len(stream) : stream[j].pod # stream[i].pod

\* Nothing will call OnPodAdd for the pod any more.
Over(p) ==
    /\ pods[p] = "gone"
    /\ p \notin toAdd /\ p # adding
    /\ \A i \in 1..Len(stream) : stream[i].pod # p

\* A Runner is entered into the map once, and its goroutine of onPodDeleted comes behind.
Once ==
    \A k \in Key :
        /\ starts[k] \in 0..1
        /\ k \in runners => starts[k] = 1 /\ reaper[k] = "none"
        /\ starts[k] = 0 => reaper[k] = "none" /\ runner[k] = "none"
        /\ starts[k] = 1 /\ k \notin runners => Over(PodOf(k))

IInv ==
    /\ TypeOK /\ Locals /\ Listed /\ Announced /\ Once
    /\ DrainKeepsPathAndStatus

-----------------------------------------------------------------------------

\* The keys of a pod are keys, and a key has its pod.
LEMMA KeyFacts ==
    /\ \A p \in Pod : \A k \in KeysOf(p) : k \in Key /\ PodOf(k) = p
    /\ \A k \in Key : PodOf(k) \in Pod /\ k \in KeysOf(PodOf(k))
    /\ \A p \in Pod : KeysOf(p) \subseteq Key
<1>1. \A p \in Pod : \A k \in KeysOf(p) : k \in Key /\ PodOf(k) = p
  BY DEF Key, KeysOf, PodOf
<1>2. \A k \in Key : \E p \in Pod : k \in KeysOf(p)
  BY DEF Key
<1> QED
  BY <1>1, <1>2

\* An event behind those of the watch (the API server).
LEMMA EmitTyped ==
    ASSUME stream \in Seq(Event), NEW p \in Pod, NEW type \in {"Added", "Modified", "Deleted"},
           Emit(type, p)
    PROVE  /\ stream' \in Seq(Event)
           /\ WatchOpen =>
                  /\ Len(stream') = Len(stream) + 1
                  /\ \A i \in 1..Len(stream) : stream'[i] = stream[i]
                  /\ stream'[Len(stream) + 1] = [type |-> type, pod |-> p]
           /\ ~WatchOpen => stream' = stream
<1>1. [type |-> type, pod |-> p] \in Event
  BY DEF Event
<1> QED
  BY <1>1, AppendProperties DEF Emit

\* The watch without the event that is taken.
LEMMA TailTyped ==
    ASSUME stream \in Seq(Event), stream # <<>>
    PROVE  /\ Head(stream).pod \in Pod
           /\ Head(stream) = stream[1]
           /\ Tail(stream) \in Seq(Event)
           /\ Len(stream) \in Nat /\ 1 \in 1..Len(stream)
           /\ Len(Tail(stream)) = Len(stream) - 1
           /\ \A i \in 1..Len(Tail(stream)) : Tail(stream)[i] = stream[i + 1]
<1>1. Head(stream) \in Event
  BY HeadTailProperties
<1> QED
  BY <1>1, HeadTailProperties, EmptySeq, LenProperties DEF Event

\* A new watch begins with the pods that are there (consumePodWatch).
LEMMA OpenedTyped ==
    ASSUME NEW s \in SetToSeqs(Present), stream' = [i \in DOMAIN s |-> [type |-> "Added", pod |-> s[i]]]
    PROVE  /\ stream' \in Seq(Event)
           /\ \A i \in 1..Len(stream') : stream'[i].type = "Added" /\ stream'[i].pod \in Present
<1>1. IsFiniteSet(Present)
  BY WatcherAssumption, FS_Subset DEF Present
<1>2. PICK n \in Nat : DOMAIN s = 1..n /\ s \in [1..n -> Present]
  BY <1>1, FS_CardinalityType DEF SetToSeqs
<1>3. \A i \in 1..n : [type |-> "Added", pod |-> s[i]] \in Event
  BY <1>2 DEF Event, Present
<1>4. stream' \in Seq(Event) /\ Len(stream') = n
  BY <1>2, <1>3
<1> QED
  BY <1>2, <1>4

\* onPodDeleted leaves what it writes of its type.
LEMMA OnPodDeletedTyped ==
    ASSUME TypeOK, NEW p \in Pod, OnPodDeleted(p)
    PROVE  /\ runners' \subseteq Key
           /\ runner' \in [Key -> {"none", "runs", "stopping", "done", "over"}]
           /\ reaper' \in [Key -> {"none", "wait", "end", "overdue"}]
           /\ UNCHANGED <<status, ticking, logPaths>>
BY DEF TypeOK, OnPodDeleted

\* OnPodAdd starts at the policies of its pod.
LEMMA BeginAddTyped ==
    ASSUME NEW p \in Pod, NEW caller \in {"sync", "events"}, BeginAdd(p, caller)
    PROVE  /\ adding' \in Pod /\ todo' \subseteq Key /\ newKey' = NoKey
           /\ ready' \in BOOLEAN /\ resume' \in {"sync", "events"} /\ pc' = "add"
BY KeyFacts DEF BeginAdd

\* Every step leaves the state of its type; that a Runner is started at most once is
\* what bounds starts.
LEMMA TypeStep ==
    ASSUME TypeOK, Locals, Listed, Once, [Next]_vars
    PROVE  TypeOK'
<1> USE WatcherAssumption DEF TypeOK
<1>1. CASE CreatePod
  <2>1. PICK p \in Pod : pods' = [pods EXCEPT ![p] = "present"] /\ Emit("Added", p)
    BY <1>1 DEF CreatePod
  <2>2. stream' \in Seq(Event)
    BY <2>1, EmitTyped
  <2> QED
    BY <1>1, <2>1, <2>2 DEF CreatePod, start, onPodAdd, shared, process
<1>2. CASE ModifyPod
  <2>1. stream' \in Seq(Event)
    BY <1>2, EmitTyped DEF ModifyPod, Present
  <2>2. modified' \in 0..MaxModified
    BY <1>2 DEF ModifyPod
  <2> QED
    BY <1>2, <2>1, <2>2 DEF ModifyPod, start, onPodAdd, shared, process
<1>3. CASE DeletePod
  <2>1. PICK p \in Present : pods' = [pods EXCEPT ![p] = "gone"] /\ Emit("Deleted", p)
    BY <1>3 DEF DeletePod
  <2>2. stream' \in Seq(Event) /\ p \in Pod
    BY <2>1, EmitTyped DEF Present
  <2> QED
    BY <1>3, <2>1, <2>2 DEF DeletePod, start, onPodAdd, shared, process
<1>4. CASE List \/ ListFails \/ SyncEnds
  BY <1>4 DEF List, ListFails, SyncEnds, Present, api, onPodAdd, shared, process
<1>5. CASE SyncAdd
  <2>1. PICK p \in toAdd : toAdd' = toAdd \ {p} /\ BeginAdd(p, "sync")
    BY <1>5 DEF SyncAdd
  <2> QED
    BY <1>5, <2>1, BeginAddTyped DEF SyncAdd, api, shared, process
<1>6. CASE SyncDelete
  <2>1. PICK p \in seen \ current : seen' = seen \ {p} /\ OnPodDeleted(p)
    BY <1>6 DEF SyncDelete
  <2> QED
    BY <1>6, <2>1, OnPodDeletedTyped DEF SyncDelete, api, onPodAdd, process
<1>7. CASE OpenWatch
  <2>1. stream' \in Seq(Event)
    BY <1>7, OpenedTyped DEF OpenWatch
  <2> QED
    BY <1>7, <2>1 DEF OpenWatch, onPodAdd, shared, process
<1>8. CASE SkipEvent
  BY <1>8, TailTyped DEF SkipEvent, start, onPodAdd, shared, process
<1>9. CASE AddEvent
  BY <1>9, TailTyped, BeginAddTyped DEF AddEvent, shared, process
<1>10. CASE DeleteEvent
  <2>1. Head(stream).pod \in Pod /\ Tail(stream) \in Seq(Event)
    BY <1>10, TailTyped DEF DeleteEvent
  <2> QED
    BY <1>10, <2>1, OnPodDeletedTyped DEF DeleteEvent, onPodAdd, process
<1>11. CASE CloseWatch \/ StartReturns
  BY <1>11, EmptySeq DEF CloseWatch, StartReturns, onPodAdd, shared, process
<1>12. CASE HasRunner
  BY <1>12 DEF HasRunner, api, shared, process
<1>13. CASE PathFails
  BY <1>13 DEF PathFails, api, process
<1>14. CASE StartRunner
  <2>1. PICK k \in todo \ runners : pc = "add" /\ Launch(k)
    BY <1>14 DEF StartRunner
  <2>2. starts[k] \in 0..1
    BY DEF Once
  <2>3. starts' \in [Key -> 0..2]
    BY <2>1, <2>2 DEF Launch
  <2> QED
    BY <2>1, <2>3 DEF Launch, api, process
<1>15. CASE FirstStatus
  BY <1>15 DEF FirstStatus, Locals, api, process
<1>16. CASE EndAdd
  BY <1>16 DEF EndAdd, Locals, InAdd, api, shared, process
<1>17. CASE RunReturns \/ RunnerOver \/ Tick \/ TickUpdates
  BY <1>17 DEF RunReturns, RunnerOver, Tick, TickUpdates, api, start, onPodAdd, process
<1>18. CASE Reaped \/ Overdue
  BY <1>18 DEF Reaped, Overdue, Alive, Reap, api, start, onPodAdd, process
<1>19. CASE Terminate \/ StopRunners \/ StopAllReturns
  BY <1>19 DEF Terminate, StopRunners, StopAllReturns, api, start, onPodAdd, shared
<1>20. CASE Die
  BY <1>20, EmptySeq DEF Die
<1>21. CASE NewAgent
  BY <1>21 DEF NewAgent, api, onPodAdd, shared
<1>22. CASE UNCHANGED vars
  BY <1>22 DEF vars, api, start, onPodAdd, shared, process
<1> QED
  BY <1>1, <1>2, <1>3, <1>4, <1>5, <1>6, <1>7, <1>8, <1>9, <1>10, <1>11, <1>12, <1>13, <1>14,
     <1>15, <1>16, <1>17, <1>18, <1>19, <1>20, <1>21, <1>22
     DEF Next, Start, Goroutines, StopAll

-----------------------------------------------------------------------------

\* OnPodAdd works on a pod that was created (AddEvent, SyncAdd).
LEMMA LocalsStep ==
    ASSUME TypeOK, Locals, Listed, Announced, [Next]_vars
    PROVE  Locals'
<1> USE NoneAssumption DEF TypeOK, Locals, InAdd
<1>1. CASE CreatePod \/ ModifyPod \/ DeletePod
  BY <1>1 DEF CreatePod, ModifyPod, DeletePod, Present, start, onPodAdd, process
<1>2. CASE List \/ ListFails \/ SyncEnds \/ OpenWatch
  BY <1>2 DEF List, ListFails, SyncEnds, OpenWatch, CtxDone, api, onPodAdd, process
<1>3. CASE SyncAdd
  <2>1. PICK p \in toAdd : BeginAdd(p, "sync")
    BY <1>3 DEF SyncAdd
  <2>2. p \in Pod /\ pods[p] # "unborn"
    BY <2>1 DEF Listed
  <2> QED
    BY <1>3, <2>1, <2>2 DEF SyncAdd, BeginAdd, api, process
<1>4. CASE SyncDelete \/ DeleteEvent \/ SkipEvent
  BY <1>4 DEF SyncDelete, DeleteEvent, SkipEvent, api, start, onPodAdd, process
<1>5. CASE AddEvent
  <2>1. Head(stream).pod \in Pod /\ pods[Head(stream).pod] # "unborn"
    BY <1>5, TailTyped DEF AddEvent, Announced
  <2> QED
    BY <1>5, <2>1 DEF AddEvent, BeginAdd, process
<1>6. CASE CloseWatch \/ StartReturns
  BY <1>6 DEF CloseWatch, StartReturns, onPodAdd, process
<1>7. CASE HasRunner \/ PathFails
  BY <1>7 DEF HasRunner, PathFails, api, process
<1>8. CASE StartRunner
  <2>1. PICK k \in todo \ runners : pc = "add" /\ Launch(k)
    BY <1>8 DEF StartRunner
  <2> QED
    BY <2>1 DEF Launch, api, process
<1>9. CASE FirstStatus \/ EndAdd
  BY <1>9 DEF FirstStatus, EndAdd, api, shared, process
<1>10. CASE RunReturns \/ RunnerOver \/ Tick \/ TickUpdates
  BY <1>10 DEF RunReturns, RunnerOver, Tick, TickUpdates, api, start, onPodAdd, process
<1>11. CASE Reaped \/ Overdue
  BY <1>11 DEF Reaped, Overdue, Reap, api, start, onPodAdd, process
<1>12. CASE Terminate \/ StopRunners \/ StopAllReturns
  BY <1>12 DEF Terminate, StopRunners, StopAllReturns, api, start, onPodAdd
<1>13. CASE Die \/ NewAgent
  BY <1>13 DEF Die, NewAgent, api, onPodAdd
<1>14. CASE UNCHANGED vars
  BY <1>14 DEF vars, api, start, onPodAdd, process
<1> QED
  BY <1>1, <1>2, <1>3, <1>4, <1>5, <1>6, <1>7, <1>8, <1>9, <1>10, <1>11, <1>12, <1>13, <1>14
     DEF Next, Start, Goroutines, StopAll

\* A List is never older than what is seen (syncPods).
LEMMA ListedStep ==
    ASSUME TypeOK, Locals, Listed, [Next]_vars
    PROVE  Listed'
<1> USE NoneAssumption DEF TypeOK, Listed, Syncing, InAdd
<1>1. CASE CreatePod \/ ModifyPod \/ DeletePod
  BY <1>1 DEF CreatePod, ModifyPod, DeletePod, Present, start, onPodAdd
<1>2. CASE List
  BY <1>2 DEF List, Present, api, onPodAdd
<1>3. CASE ListFails \/ SyncEnds \/ OpenWatch
  BY <1>3 DEF ListFails, SyncEnds, OpenWatch, api, onPodAdd
<1>4. CASE SyncAdd
  BY <1>4 DEF SyncAdd, BeginAdd, api
<1>5. CASE SyncDelete \/ DeleteEvent \/ SkipEvent
  BY <1>5 DEF SyncDelete, DeleteEvent, SkipEvent, api, start, onPodAdd
<1>6. CASE AddEvent
  BY <1>6 DEF AddEvent, BeginAdd
<1>7. CASE CloseWatch \/ StartReturns
  BY <1>7 DEF CloseWatch, StartReturns, onPodAdd
<1>8. CASE HasRunner \/ PathFails
  BY <1>8 DEF HasRunner, PathFails, api
<1>9. CASE StartRunner
  BY <1>9 DEF StartRunner, Launch, api
<1>10. CASE FirstStatus
  BY <1>10 DEF FirstStatus, api
<1>11. CASE EndAdd
  <2>1. adding \in Pod /\ pods[adding] # "unborn"
    BY <1>11 DEF EndAdd, Locals
  <2> QED
    BY <1>11, <2>1 DEF EndAdd, api
<1>12. CASE RunReturns \/ RunnerOver \/ Tick \/ TickUpdates
  BY <1>12 DEF RunReturns, RunnerOver, Tick, TickUpdates, api, start, onPodAdd
<1>13. CASE Reaped \/ Overdue
  BY <1>13 DEF Reaped, Overdue, Reap, api, start, onPodAdd
<1>14. CASE Terminate \/ StopRunners \/ StopAllReturns
  BY <1>14 DEF Terminate, StopRunners, StopAllReturns, api, start, onPodAdd
<1>15. CASE Die
  BY <1>15 DEF Die
<1>16. CASE NewAgent
  BY <1>16 DEF NewAgent, Locals, api, onPodAdd
<1>17. CASE UNCHANGED vars
  BY <1>17 DEF vars, api, start, onPodAdd
<1> QED
  BY <1>1, <1>2, <1>3, <1>4, <1>5, <1>6, <1>7, <1>8, <1>9, <1>10, <1>11, <1>12, <1>13, <1>14,
     <1>15, <1>16, <1>17 DEF Next, Start, Goroutines, StopAll

\* A pod that is not gone has no Deleted event yet, and an event goes behind those there
\* are (the API server).
LEMMA EmitAnnounced ==
    ASSUME TypeOK, Announced, WatchOpen' = WatchOpen,
           NEW p \in Pod, NEW type \in {"Added", "Modified", "Deleted"},
           Emit(type, p), pods[p] # "gone",
           pods'[p] = IF type = "Deleted" THEN "gone" ELSE "present",
           \A r \in Pod \ {p} : pods'[r] = pods[r]
    PROVE  Announced'
<1>1. stream \in Seq(Event) /\ Len(stream) \in Nat
  BY LenProperties DEF TypeOK
<1>2. CASE WatchOpen
  <2> DEFINE n == Len(stream)
  <2>1. /\ Len(stream') = n + 1
        /\ \A i \in 1..n : stream'[i] = stream[i]
        /\ stream'[n + 1] = [type |-> type, pod |-> p]
    BY <1>1, <1>2, EmitTyped
  <2>2. \A i \in 1..n : stream[i].pod \in Pod
    <3>1. \A i \in 1..n : stream[i] \in Event
      BY <1>1
    <3> QED
      BY <3>1 DEF Event
  <2>3. \A i \in 1..n : stream[i].type = "Deleted" => stream[i].pod # p
    BY DEF Announced
  <2>4. \A i \in 1..n + 1 : pods'[stream'[i].pod] # "unborn"
    <3> SUFFICES ASSUME NEW i \in 1..n + 1
                 PROVE  pods'[stream'[i].pod] # "unborn"
      OBVIOUS
    <3>1. CASE i = n + 1
      BY <2>1, <3>1
    <3>2. CASE i \in 1..n
      BY <2>1, <2>2, <3>2 DEF Announced
    <3> QED
      BY <1>1, <3>1, <3>2
  <2>5. \A i \in 1..n + 1 : stream'[i].type = "Deleted" => pods'[stream'[i].pod] = "gone"
    <3> SUFFICES ASSUME NEW i \in 1..n + 1, stream'[i].type = "Deleted"
                 PROVE  pods'[stream'[i].pod] = "gone"
      OBVIOUS
    <3>1. CASE i = n + 1
      BY <2>1, <3>1
    <3>2. CASE i \in 1..n
      BY <2>1, <2>2, <2>3, <3>2 DEF Announced
    <3> QED
      BY <1>1, <3>1, <3>2
  <2>6. \A i \in 1..n + 1 : stream'[i].type = "Deleted" =>
            \A j \in i + 1..n + 1 : stream'[j].pod # stream'[i].pod
    <3> SUFFICES ASSUME NEW i \in 1..n + 1, stream'[i].type = "Deleted",
                        NEW j \in i + 1..n + 1
                 PROVE  stream'[j].pod # stream'[i].pod
      OBVIOUS
    <3>1. i \in 1..n /\ stream'[i] = stream[i]
      BY <1>1, <2>1
    <3>2. CASE j = n + 1
      BY <2>1, <2>3, <3>1, <3>2
    <3>3. CASE j \in i + 1..n
      BY <2>1, <3>1, <3>3 DEF Announced
    <3> QED
      BY <1>1, <3>2, <3>3
  <2> QED
    BY <1>2, <2>1, <2>4, <2>5, <2>6 DEF Announced
<1>3. CASE ~WatchOpen
  <2>1. stream' = <<>>
    BY <1>1, <1>3, EmitTyped DEF Announced
  <2>2. Len(stream') = 0
    BY <2>1, EmptySeq
  <2> QED
    BY <2>1, <2>2 DEF Announced
<1> QED
  BY <1>2, <1>3

\* The events of a pod come in the order of its life: a watch that is open gets each one
\* behind those before it, and a new one begins with what is there (consumePodWatch).
LEMMA AnnouncedStep ==
    ASSUME TypeOK, Locals, Announced, [Next]_vars
    PROVE  Announced'
<1> USE NoneAssumption DEF TypeOK, Announced
<1>1. CASE CreatePod \/ ModifyPod \/ DeletePod
  <2>1. PICK p \in Pod, type \in {"Added", "Modified", "Deleted"} :
             /\ Emit(type, p) /\ pods[p] # "gone"
             /\ pods'[p] = IF type = "Deleted" THEN "gone" ELSE "present"
             /\ \A r \in Pod \ {p} : pods'[r] = pods[r]
    BY <1>1 DEF CreatePod, ModifyPod, DeletePod, Present
  <2>2. WatchOpen' = WatchOpen
    BY <1>1 DEF CreatePod, ModifyPod, DeletePod, start, onPodAdd, WatchOpen
  <2> QED
    BY <2>1, <2>2, EmitAnnounced
<1>2. CASE OpenWatch
  <2>1. /\ stream' \in Seq(Event) /\ pods' = pods
        /\ \A i \in 1..Len(stream') : stream'[i].type = "Added" /\ stream'[i].pod \in Present
    BY <1>2, OpenedTyped DEF OpenWatch
  <2>2. WatchOpen'
    BY <1>2 DEF OpenWatch, WatchOpen
  <2> QED
    BY <2>1, <2>2 DEF Present
<1>3. CASE SkipEvent \/ AddEvent \/ DeleteEvent
  <2>1. /\ stream # <<>> /\ stream' = Tail(stream) /\ pods' = pods
        /\ WatchOpen'
    BY <1>3 DEF SkipEvent, AddEvent, DeleteEvent, BeginAdd, WatchOpen, start, onPodAdd
  <2>2. /\ Len(stream) \in Nat /\ Len(stream') = Len(stream) - 1
        /\ \A i \in 1..Len(stream') : stream'[i] = stream[i + 1]
    BY <2>1, TailTyped
  <2> QED
    BY <2>1, <2>2
<1>4. CASE CloseWatch \/ StartReturns \/ Die
  BY <1>4, EmptySeq DEF CloseWatch, StartReturns, Die
<1>5. CASE /\ UNCHANGED <<stream, pods>>
           /\ WatchOpen => WatchOpen'
  BY <1>5
<1>6. CASE UNCHANGED vars
  BY <1>6 DEF vars, api, start, onPodAdd, WatchOpen
<1>7. CASE List \/ ListFails \/ SyncAdd \/ SyncDelete \/ SyncEnds
  <2>1. UNCHANGED <<stream, pods>> /\ ~WatchOpen
    BY <1>7 DEF List, ListFails, SyncAdd, SyncDelete, SyncEnds, api, WatchOpen
  <2> QED
    BY <1>5, <2>1
<1>8. CASE HasRunner \/ PathFails \/ StartRunner \/ FirstStatus \/ EndAdd
  <2>1. UNCHANGED <<stream, pods>> /\ (WatchOpen => WatchOpen')
    BY <1>8 DEF HasRunner, PathFails, StartRunner, Launch, FirstStatus, EndAdd, api, WatchOpen
  <2> QED
    BY <1>5, <2>1
<1>9. CASE \/ RunReturns \/ RunnerOver \/ Tick \/ TickUpdates \/ Reaped \/ Overdue
            \/ Terminate \/ StopRunners \/ StopAllReturns
  <2>1. UNCHANGED <<stream, pods>> /\ (WatchOpen => WatchOpen')
    BY <1>9 DEF RunReturns, RunnerOver, Tick, TickUpdates, Reaped, Overdue, Reap, Terminate,
                 StopRunners, StopAllReturns, api, start, onPodAdd, WatchOpen
  <2> QED
    BY <1>5, <2>1
<1>10. CASE NewAgent
  <2>1. UNCHANGED <<stream, pods>> /\ ~WatchOpen
    BY <1>10 DEF NewAgent, Locals, api, WatchOpen
  <2> QED
    BY <1>5, <2>1
<1> QED
  BY <1>1, <1>2, <1>3, <1>4, <1>6, <1>7, <1>8, <1>9, <1>10
     DEF Next, Start, Goroutines, StopAll

\* A pod that is over stays so (UIDs are not used again).
LEMMA OverKept ==
    ASSUME TypeOK, Locals, [Next]_vars, NEW p \in Pod, Over(p)
    PROVE  Over(p)'
<1> USE NoneAssumption DEF TypeOK, Over
<1>1. CASE CreatePod \/ ModifyPod \/ DeletePod
  <2>1. PICK r \in Pod, type \in {"Added", "Modified", "Deleted"} :
             Emit(type, r) /\ r # p /\ pods'[p] = pods[p]
    BY <1>1 DEF CreatePod, ModifyPod, DeletePod, Present
  <2>2. UNCHANGED <<toAdd, adding>>
    BY <1>1 DEF CreatePod, ModifyPod, DeletePod, start, onPodAdd
  <2>3. \A i \in 1..Len(stream') : stream'[i].pod # p
    <3>1. CASE WatchOpen
      <4>1. /\ Len(stream') = Len(stream) + 1
            /\ \A i \in 1..Len(stream) : stream'[i] = stream[i]
            /\ stream'[Len(stream) + 1] = [type |-> type, pod |-> r]
        BY <2>1, <3>1, EmitTyped
      <4>2. Len(stream) \in Nat
        BY LenProperties
      <4> QED
        BY <2>1, <4>1, <4>2
    <3>2. CASE ~WatchOpen
      BY <2>1, <3>2, EmitTyped
    <3> QED
      BY <3>1, <3>2
  <2> QED
    BY <2>1, <2>2, <2>3
<1>2. CASE List
  BY <1>2 DEF List, Present, api, onPodAdd
<1>3. CASE ListFails \/ SyncEnds
  BY <1>3 DEF ListFails, SyncEnds, api, onPodAdd
<1>4. CASE SyncAdd
  BY <1>4 DEF SyncAdd, BeginAdd, api
<1>5. CASE SyncDelete
  BY <1>5 DEF SyncDelete, api, onPodAdd
<1>6. CASE OpenWatch
  <2>1. \A i \in 1..Len(stream') : stream'[i].pod \in Present
    BY <1>6, OpenedTyped DEF OpenWatch
  <2> QED
    BY <1>6, <2>1 DEF OpenWatch, Present, onPodAdd
<1>7. CASE SkipEvent \/ AddEvent \/ DeleteEvent
  <2>1. stream # <<>> /\ stream' = Tail(stream)
    BY <1>7 DEF SkipEvent, AddEvent, DeleteEvent
  <2>2. Head(stream).pod # p /\ \A i \in 1..Len(stream') : stream'[i].pod # p
    BY <2>1, TailTyped
  <2> QED
    BY <1>7, <2>2 DEF SkipEvent, AddEvent, DeleteEvent, BeginAdd, start, onPodAdd
<1>8. CASE CloseWatch \/ StartReturns
  BY <1>8, EmptySeq DEF CloseWatch, StartReturns, onPodAdd
<1>9. CASE HasRunner \/ PathFails \/ StartRunner \/ FirstStatus \/ EndAdd
  BY <1>9 DEF HasRunner, PathFails, StartRunner, Launch, FirstStatus, EndAdd, api
<1>10. CASE \/ RunReturns \/ RunnerOver \/ Tick \/ TickUpdates \/ Reaped \/ Overdue
            \/ Terminate \/ StopRunners \/ StopAllReturns \/ NewAgent
  BY <1>10 DEF RunReturns, RunnerOver, Tick, TickUpdates, Reaped, Overdue, Reap, Terminate,
               StopRunners, StopAllReturns, NewAgent, api, start, onPodAdd
<1>11. CASE Die
  BY <1>11, EmptySeq DEF Die
<1>12. CASE UNCHANGED vars
  BY <1>12 DEF vars, api, start, onPodAdd
<1> QED
  BY <1>1, <1>2, <1>3, <1>4, <1>5, <1>6, <1>7, <1>8, <1>9, <1>10, <1>11, <1>12
     DEF Next, Start, Goroutines, StopAll

\* When the Runners of a pod leave the map, the pod is over: it was in no List since it was
\* seen, or this is the last the watch tells of it (SyncDelete, DeleteEvent).
LEMMA DeletedIsOver ==
    ASSUME TypeOK, Locals, Listed, Announced, NEW p \in Pod,
           \/ SyncDelete /\ p \in seen \ current
           \/ DeleteEvent /\ p = Head(stream).pod
    PROVE  Over(p)'
<1> USE NoneAssumption DEF TypeOK, Over
<1>1. CASE SyncDelete /\ p \in seen \ current
  <2>1. pods[p] = "gone" /\ toAdd = {} /\ adding = NoPod
    BY <1>1 DEF SyncDelete, Listed, Locals, Syncing, InAdd
  <2>2. stream = <<>>
    BY <1>1 DEF SyncDelete, Announced, WatchOpen
  <2>3. UNCHANGED <<pods, toAdd, adding, stream>>
    BY <1>1 DEF SyncDelete, api, onPodAdd
  <2> QED
    BY <2>1, <2>2, <2>3, EmptySeq
<1>2. CASE DeleteEvent /\ p = Head(stream).pod
  <2>1. /\ stream # <<>> /\ stream[1].type = "Deleted" /\ stream[1].pod = p
        /\ Len(stream) \in Nat /\ Len(Tail(stream)) = Len(stream) - 1
        /\ \A i \in 1..Len(Tail(stream)) : Tail(stream)[i] = stream[i + 1]
    BY <1>2, TailTyped DEF DeleteEvent
  <2>2. pods[p] = "gone" /\ \A j \in 2..Len(stream) : stream[j].pod # p
    <3>1. 1 \in 1..Len(stream)
      BY <2>1, TailTyped
    <3> QED
      BY <2>1, <3>1 DEF Announced
  <2>3. toAdd = {} /\ adding = NoPod
    BY <1>2 DEF DeleteEvent, Listed, Locals, Syncing, InAdd
  <2>4. UNCHANGED <<pods, toAdd, adding>> /\ stream' = Tail(stream)
    BY <1>2 DEF DeleteEvent, onPodAdd
  <2>5. \A i \in 1..Len(stream') : stream'[i].pod # p
    BY <2>1, <2>2, <2>4
  <2> QED
    BY <2>2, <2>3, <2>4, <2>5
<1> QED
  BY <1>1, <1>2

\* Once stays true: a key that has had its Runner is in the map, or its pod is over.
LEMMA OnceStep ==
    ASSUME TypeOK, Locals, Listed, Announced, Once, [Next]_vars
    PROVE  Once'
<1> USE DEF TypeOK, Once
<1>1. CASE /\ UNCHANGED <<starts, runners, reaper>>
           /\ \A k \in Key : runner[k] = "none" => runner'[k] = "none"
  BY <1>1, OverKept, KeyFacts
<1>2. CASE SyncDelete \/ DeleteEvent
  <2>1. PICK p \in Pod : OnPodDeleted(p) /\ Over(p)'
    BY <1>2, DeletedIsOver, TailTyped DEF SyncDelete, DeleteEvent
  <2>2. starts' = starts
    BY <1>2 DEF SyncDelete, DeleteEvent
  <2> SUFFICES ASSUME NEW k \in Key
               PROVE  /\ k \in runners' => starts[k] = 1 /\ reaper'[k] = "none"
                      /\ starts[k] = 0 => reaper'[k] = "none" /\ runner'[k] = "none"
                      /\ starts[k] = 1 /\ k \notin runners' => Over(PodOf(k))'
    BY <2>2
  <2>3. CASE k \in runners \cap KeysOf(p)
    BY <2>1, <2>3, KeyFacts DEF OnPodDeleted
  <2>4. CASE k \notin runners \cap KeysOf(p)
    BY <2>1, <2>4, OverKept, KeyFacts DEF OnPodDeleted
  <2> QED
    BY <2>3, <2>4
<1>3. CASE StartRunner
  <2>1. PICK k \in todo \ runners : pc = "add" /\ Launch(k)
    BY <1>3 DEF StartRunner
  <2>2. k \in Key /\ PodOf(k) = adding
    BY <2>1, KeyFacts DEF Locals, InAdd
  <2>3. starts[k] = 0 /\ reaper[k] = "none"
    BY <2>1, <2>2 DEF Over
  <2>4. /\ starts' = [starts EXCEPT ![k] = 1]
        /\ runners' = runners \cup {k} /\ reaper' = reaper
        /\ runner' = [runner EXCEPT ![k] = "runs"]
    BY <2>1, <2>2, <2>3 DEF Launch
  <2> QED
    BY <2>2, <2>3, <2>4, OverKept, KeyFacts
<1>4. CASE Reaped \/ Overdue
  <2>1. PICK k \in Key, end \in {"end", "overdue"} : Reap(k, end)
    BY <1>4 DEF Reaped, Overdue, Alive
  <2>2. starts[k] # 0 /\ k \notin runners
    BY <2>1 DEF Reap
  <2>3. /\ reaper' = [reaper EXCEPT ![k] = end]
        /\ UNCHANGED <<starts, runners, runner>>
    BY <2>1 DEF Reap
  <2> QED
    BY <2>2, <2>3, OverKept, KeyFacts
<1>5. CASE Die
  BY <1>5 DEF Die
<1>6. CASE UNCHANGED vars
  BY <1>1, <1>6 DEF vars, shared
<1>7. CASE \/ CreatePod \/ ModifyPod \/ DeletePod \/ List \/ ListFails \/ SyncAdd \/ SyncEnds
           \/ OpenWatch \/ SkipEvent \/ AddEvent \/ CloseWatch \/ StartReturns
           \/ HasRunner \/ PathFails \/ FirstStatus \/ EndAdd
           \/ Tick \/ TickUpdates
           \/ Terminate \/ StopAllReturns \/ NewAgent
  BY <1>1, <1>7
     DEF CreatePod, ModifyPod, DeletePod, List, ListFails, SyncAdd, SyncEnds,
         OpenWatch, SkipEvent, AddEvent, CloseWatch, StartReturns,
         HasRunner, PathFails, FirstStatus, EndAdd,
         Tick, TickUpdates,
         Terminate, StopAllReturns, NewAgent, shared
<1>8. CASE RunReturns \/ RunnerOver \/ StopRunners
  BY <1>1, <1>8 DEF RunReturns, RunnerOver, StopRunners
<1> QED
  BY <1>2, <1>3, <1>4, <1>5, <1>6, <1>7, <1>8 DEF Next, Start, Goroutines, StopAll

\* A Runner that is not done has its log path and status: both are removed behind its end
\* only, or by a goroutine of onPodDeleted that has waited too long.
LEMMA DrainStep ==
    ASSUME TypeOK, Locals, Once, DrainKeepsPathAndStatus, [Next]_vars
    PROVE  DrainKeepsPathAndStatus'
<1> USE NoneAssumption DEF TypeOK, DrainKeepsPathAndStatus, Alive
<1>1. CASE UNCHANGED <<runner, reaper, logPaths, status, newKey>>
  BY <1>1
<1>2. CASE SyncAdd \/ AddEvent
  <2>1. newKey = NoKey
    BY <1>2 DEF SyncAdd, AddEvent, Locals
  <2> QED
    BY <1>2, <2>1 DEF SyncAdd, AddEvent, BeginAdd, shared
<1>3. CASE SyncDelete \/ DeleteEvent
  <2>1. PICK p \in Pod : OnPodDeleted(p)
    BY <1>3, TailTyped DEF SyncDelete, DeleteEvent
  <2>2. newKey' = newKey
    BY <1>3 DEF SyncDelete, DeleteEvent, onPodAdd
  <2> QED
    BY <2>1, <2>2 DEF OnPodDeleted, Once
<1>4. CASE PathFails
  <2>1. PICK k \in todo \ runners : logPaths' \in {logPaths, logPaths \cup {k}, logPaths \ {k}}
    BY <1>4 DEF PathFails
  <2>2. k \in Key /\ PodOf(k) = adding
    BY <1>4, <2>1, KeyFacts DEF PathFails, Locals, InAdd
  <2>3. runner[k] = "none"
    BY <2>1, <2>2 DEF Once, Over
  <2>4. UNCHANGED <<runner, reaper, status, newKey>>
    BY <1>4 DEF PathFails
  <2> QED
    BY <2>1, <2>3, <2>4
<1>5. CASE StartRunner
  <2>1. PICK k \in todo \ runners : pc = "add" /\ Launch(k)
    BY <1>5 DEF StartRunner
  <2>2. newKey = NoKey
    BY <2>1 DEF Locals
  <2> QED
    BY <2>1, <2>2 DEF Launch
<1>6. CASE FirstStatus
  BY <1>6 DEF FirstStatus
<1>7. CASE RunReturns \/ RunnerOver \/ TickUpdates
  BY <1>7 DEF RunReturns, RunnerOver, TickUpdates, start, onPodAdd
<1>8. CASE Reaped \/ Overdue
  BY <1>8 DEF Reaped, Overdue, Reap, start, onPodAdd
<1>9. CASE StopRunners
  BY <1>9 DEF StopRunners, start, onPodAdd
<1>10. CASE Die
  BY <1>10 DEF Die
<1>11. CASE UNCHANGED vars
  BY <1>1, <1>11 DEF vars, start, onPodAdd, shared
<1>12. CASE \/ CreatePod \/ ModifyPod \/ DeletePod \/ List \/ ListFails \/ SyncEnds
            \/ OpenWatch \/ SkipEvent \/ CloseWatch \/ StartReturns \/ HasRunner \/ EndAdd
            \/ Tick \/ Terminate \/ StopAllReturns \/ NewAgent
  BY <1>1, <1>12
     DEF CreatePod, ModifyPod, DeletePod, List, ListFails, SyncEnds,
         OpenWatch, SkipEvent, CloseWatch, StartReturns, HasRunner, EndAdd,
         Tick, Terminate, StopAllReturns, NewAgent, start, onPodAdd, shared
<1> QED
  BY <1>2, <1>3, <1>4, <1>5, <1>6, <1>7, <1>8, <1>9, <1>10, <1>11, <1>12
     DEF Next, Start, Goroutines, StopAll

-----------------------------------------------------------------------------

\* The inductive invariant holds in every state of the watcher.
THEOREM Invariant == Spec => []IInv
<1>1. Init => IInv
  <2> SUFFICES ASSUME Init
               PROVE  IInv
    OBVIOUS
  <2> USE WatcherAssumption, NoneAssumption, EmptySeq DEF Init
  <2>1. TypeOK
    BY DEF TypeOK
  <2>2. Locals /\ Listed /\ Announced
    BY DEF Locals, InAdd, Listed, Syncing, Announced
  <2>3. Once /\ DrainKeepsPathAndStatus
    BY DEF Once, DrainKeepsPathAndStatus, Alive
  <2> QED
    BY <2>1, <2>2, <2>3 DEF IInv
<1>2. IInv /\ [Next]_vars => IInv'
  BY TypeStep, LocalsStep, ListedStep, AnnouncedStep, OnceStep, DrainStep DEF IInv
<1> QED
  BY <1>1, <1>2, PTL DEF Spec

\* Every variable keeps its type: of the API server, Start, the goroutines and main.
THEOREM TypeCorrect == Spec => []TypeOK
<1>1. IInv => TypeOK
  BY DEF IInv
<1> QED
  BY <1>1, Invariant, PTL

\* No policy of a pod gets a second Runner in the life of an agent, whatever Lists fail,
\* watches end and pods are retried (`seen', `exists').
THEOREM OneRunner == Spec => []OneRunnerPerKey
<1>1. IInv => OneRunnerPerKey
  BY DEF IInv, Once, OneRunnerPerKey
<1> QED
  BY <1>1, Invariant, PTL

\* A Runner that reads or drains has its log path and its status, unless it has not
\* returned within 30 s (onPodDeleted).
THEOREM DrainKeeps == Spec => []DrainKeepsPathAndStatus
<1>1. IInv => DrainKeepsPathAndStatus
  BY DEF IInv
<1> QED
  BY <1>1, Invariant, PTL

\* While a pod is there, a Runner leaves the map only when the process ends, and a log path
\* goes only in the hands of OnPodAdd, without a Runner, and with the pod to be tried again
\* (syncPods, consumePodWatch, forceSymlink).
THEOREM LivePodsLeftAlone == Spec => LivePodsUndisturbed
<1> DEFINE Undisturbed ==
        \A k \in Key :
            pods[PodOf(k)] = "present" =>
                /\ k \in runners => k \in runners' \/ main' = "down"
                /\ k \in logPaths =>
                       k \in logPaths' \/ (k \notin runners /\ adding = PodOf(k) /\ ~ready')
<1>1. IInv /\ [Next]_vars => [Undisturbed]_vars
  <2> SUFFICES ASSUME IInv, Next
               PROVE  Undisturbed
    OBVIOUS
  <2> USE DEF IInv, TypeOK
  <2>1. CASE SyncDelete \/ DeleteEvent
    <3>1. PICK p \in Pod : OnPodDeleted(p) /\ Over(p)'
      BY <2>1, DeletedIsOver, TailTyped DEF SyncDelete, DeleteEvent
    <3>2. pods[p] = "gone"
      BY <2>1, <3>1 DEF SyncDelete, DeleteEvent, Over, api
    <3> QED
      BY <3>1, <3>2, KeyFacts DEF OnPodDeleted
  <2>2. CASE Reaped \/ Overdue
    <3>1. PICK k \in Key, end \in {"end", "overdue"} : Reap(k, end)
      BY <2>2 DEF Reaped, Overdue, Alive
    <3>2. pods[PodOf(k)] = "gone"
      BY <3>1 DEF Reap, Once, Over
    <3> QED
      BY <3>1, <3>2 DEF Reap
  <2>3. CASE PathFails
    <3>1. PICK k \in todo \ runners : logPaths' \in {logPaths, logPaths \cup {k}, logPaths \ {k}}
      BY <2>3 DEF PathFails
    <3>2. adding = PodOf(k)
      BY <2>3, <3>1, KeyFacts DEF PathFails, Locals, InAdd
    <3>3. runners' = runners /\ ~ready'
      BY <2>3 DEF PathFails
    <3> QED
      BY <3>1, <3>2, <3>3
  <2>4. CASE Die
    BY <2>4 DEF Die
  <2>5. CASE StartRunner
    BY <2>5 DEF StartRunner, Launch
  <2>6. CASE UNCHANGED <<runners, logPaths>>
    BY <2>6
  <2> QED
    BY <2>1, <2>2, <2>3, <2>4, <2>5, <2>6
       DEF Next, Start, Goroutines, StopAll,
           CreatePod, ModifyPod, DeletePod, List, ListFails, SyncAdd, SyncEnds,
           OpenWatch, SkipEvent, AddEvent, CloseWatch, StartReturns,
           HasRunner, FirstStatus, EndAdd, RunReturns, RunnerOver, Tick, TickUpdates,
           Terminate, StopRunners, StopAllReturns, NewAgent, shared
<1> QED
  BY <1>1, Invariant, PTL DEF Spec, LivePodsUndisturbed
=============================================================================
