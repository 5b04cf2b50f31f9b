-------------------------- MODULE KubeInputProofs --------------------------
(***************************************************************************)
(* Proofs about KubeInput, for every set of objects and goroutines, every  *)
(* size of the queue and any number of changes, faults and restarts.       *)
(*                                                                         *)
(* Both kinds of input keep the same promise between their calls: what a   *)
(* goroutine will not be told again is in the queue or in its hands.  The  *)
(* event input shares one version among its goroutines, so this is said of *)
(* a version together with the goroutine that wrote it (Accounted); the    *)
(* object state input goes on from its own List (Current).                 *)
(***************************************************************************)
EXTENDS KubeInput, SequenceTheorems, FiniteSetTheorems, TLAPS

EventLabels == {"list", "listing", "relist", "relisting", "watch", "dial", "put", "consume", "exit"}
ObjectLabels == {"list", "put", "dial", "consume", "exit"}

\* Only who waits for the queue, or has a watch, has records in hand.
InHand ==
    \A g \in Collector :
        /\ pc[g] = "put" => items[g] # <<>>
        /\ pc[g] \notin {"put", "consume"} => items[g] = <<>> /\ position[g] = NoWatch
        /\ pc[g] = "consume" => position[g] # NoWatch

-----------------------------------------------------------------------------
(* The event input.                                                        *)

\* Of the events of g up to a version, none is missed.
Accounted(g, n) ==
    \A v \in Of(g) :
        v <= n => v \in done \/ v \in ToSet(items[g]) \/ log[v].type = "DELETED"

\* So it is up to the version that g has noted, that it asks for, and that its watch has
\* reached; what the watch began with lies behind that.
Collected(g) ==
    /\ writer = g /\ pc[g] # "exit" => Accounted(g, last)
    /\ pc[g] = "dial" => Accounted(g, asked[g])
    /\ Accounted(g, position[g])
    /\ position[g] # NoWatch => \A v \in ToSet(items[g]) : v <= position[g]

EventInv == \A g \in Collector : Collected(g)

-----------------------------------------------------------------------------
(* The object state input.                                                 *)

\* How far g has been told of its objects: by its List, or by the watch from there on.
Horizon(g) == IF position[g] = NoWatch THEN asked[g] ELSE position[g]

\* The state of each object at the horizon is shown, in hand, or a deletion that the List
\* came behind.
Current(g) ==
    \A v \in Of(g) :
        v <= Horizon(g) /\ ~Superseded(v, Horizon(g)) =>
            \/ v \in ToSet(items[g])
            \/ shown[log[v].object] = v
            \/ log[v].type = "DELETED" /\ v <= asked[g]

\* The records in hand show one object each, as it is at the horizon.
Newest(g) ==
    \A i \in DOMAIN items[g] :
        /\ items[g][i] \in Of(g)
        /\ items[g][i] <= Horizon(g)
        /\ ~Superseded(items[g][i], Horizon(g))
        /\ \A j \in DOMAIN items[g] : items[g][i] = items[g][j] => i = j

\* So it is from a List on, and nothing beyond the horizon is shown.
Told(g) ==
    pc[g] \in {"put", "dial", "consume"} =>
        /\ asked[g] <= Horizon(g)
        /\ \A o \in Object : CollectorOf[o] = g => shown[o] <= Horizon(g)
        /\ Current(g)
        /\ Newest(g)
        /\ position[g] # NoWatch => Len(items[g]) <= 1
        /\ pc[g] = "consume" => items[g] = <<>>

\* A record shows its own object.
ShowsItself == \A o \in Object : shown[o] # 0 => log[shown[o]].object = o

ObjectInv == ShowsItself /\ \A g \in Collector : Told(g)

IInv ==
    /\ TypeOK /\ InHand
    /\ Event => EventInv
    /\ State => ObjectInv

-----------------------------------------------------------------------------
(* Sequences of versions.                                                  *)

\* A List puts the items of its answer in some order, each of them once.
LEMMA OrderFacts ==
    ASSUME NEW n \in Nat, NEW S \in SUBSET (1..n), NEW order \in SetToSeqs(S)
    PROVE  /\ order \in Seq(S)
           /\ ToSet(order) = S
           /\ \A i, j \in DOMAIN order : order[i] = order[j] => i = j
           /\ order = <<>> <=> S = {}
<1> DEFINE c == Cardinality(S)
<1>1. IsFiniteSet(S) /\ c \in Nat
  <2>1. IsFiniteSet(1..n)
    BY 1 \in Int, n \in Int, FS_Interval
  <2>2. IsFiniteSet(S)
    BY <2>1, FS_Subset
  <2> QED
    BY <2>2, FS_CardinalityType
<1>2. order \in [1..c -> S] /\ \A i, j \in 1..c : i # j => order[i] # order[j]
  BY DEF SetToSeqs
<1>3. order \in Seq(S) /\ Len(order) = c /\ DOMAIN order = 1..c
  BY <1>1, <1>2
<1>4. order \in Injection(1..c, S)
  BY <1>2 DEF Injection, IsInjective
<1>5. IsFiniteSet(1..c) /\ Cardinality(1..c) = c
  BY <1>1, FS_Interval
<1>6. order \in Surjection(1..c, S)
  BY <1>1, <1>4, <1>5, FS_Injection
<1>7. ToSet(order) = S
  BY <1>2, <1>3, <1>6 DEF ToSet, Surjection
<1>8. order = <<>> <=> S = {}
  <2>1. order = <<>> => S = {}
    BY <1>7 DEF ToSet
  <2>2. S = {} => c = 0
    BY FS_EmptySet
  <2> QED
    BY <1>3, <2>1, <2>2, EmptySeq
<1> QED
  BY <1>2, <1>3, <1>7, <1>8

\* What is in hand is the record that goes into the queue next, and the rest.
LEMMA HeadAndRest ==
    ASSUME NEW S, NEW s \in Seq(S), s # <<>>
    PROVE  /\ Head(s) = s[1] /\ Head(s) \in S /\ Head(s) \in ToSet(s)
           /\ Tail(s) \in Seq(S)
           /\ ToSet(s) = {Head(s)} \cup ToSet(Tail(s))
           /\ Len(s) <= 1 => Tail(s) = <<>>
           /\ Len(s) > 1 => Tail(s) # <<>>
<1>1. Len(s) \in Nat \ {0} /\ DOMAIN s = 1..Len(s)
  BY EmptySeq, LenProperties
<1>2. /\ Head(s) \in S /\ Tail(s) \in Seq(S) /\ Len(Tail(s)) = Len(s) - 1
      /\ \A i \in 1..Len(Tail(s)) : Tail(s)[i] = s[i + 1]
  BY HeadTailProperties
<1>3. DOMAIN Tail(s) = 1..Len(s) - 1
  BY <1>2, LenProperties
<1>4. Head(s) = s[1]
  OBVIOUS
<1>5. ASSUME NEW v \in ToSet(s)  PROVE v = Head(s) \/ v \in ToSet(Tail(s))
  <2>1. PICK i \in 1..Len(s) : v = s[i]
    BY <1>1, <1>5 DEF ToSet
  <2>2. i > 1 => i - 1 \in 1..Len(s) - 1 /\ Tail(s)[i - 1] = s[i]
    BY <1>1, <1>2, <2>1
  <2>3. CASE i = 1
    BY <1>4, <2>1, <2>3
  <2>4. CASE i # 1
    <3>1. i - 1 \in DOMAIN Tail(s) /\ v = Tail(s)[i - 1]
      BY <1>1, <1>3, <2>1, <2>2, <2>4
    <3> QED
      BY <3>1 DEF ToSet
  <2> QED
    BY <2>3, <2>4
<1>6. ASSUME NEW v \in ToSet(Tail(s))  PROVE v \in ToSet(s)
  <2>1. PICK i \in 1..Len(s) - 1 : v = Tail(s)[i]
    BY <1>3, <1>6 DEF ToSet
  <2>2. i + 1 \in 1..Len(s) /\ v = s[i + 1]
    BY <1>1, <1>2, <2>1
  <2> QED
    BY <1>1, <2>2 DEF ToSet
<1>7. Head(s) \in ToSet(s)
  BY <1>1, <1>4 DEF ToSet
<1>8. (Len(s) <= 1 => Tail(s) = <<>>) /\ (Len(s) > 1 => Tail(s) # <<>>)
  <2>1. Len(Tail(s)) = 0 <=> Tail(s) = <<>>
    BY <1>2, EmptySeq
  <2> QED
    BY <1>1, <1>2, <2>1
<1> QED
  BY <1>2, <1>4, <1>5, <1>6, <1>7, <1>8

LEMMA ToSetEmpty == ToSet(<<>>) = {}
  BY DEF ToSet

LEMMA ToSetOne == ASSUME NEW x PROVE ToSet(<<x>>) = {x}
  BY DEF ToSet

\* The elements of a sequence have its type.
LEMMA ToSetTyped == ASSUME NEW S, NEW s \in Seq(S) PROVE ToSet(s) \subseteq S
  BY LenProperties DEF ToSet

-----------------------------------------------------------------------------
(* What ListWatch says of versions.                                        *)

Entry == [object : Object, type : Types]

LEMMA VersionFacts ==
    ASSUME log \in Seq(Entry)
    PROVE  /\ Len(log) \in Nat /\ Versions \subseteq Nat \ {0}
           /\ \A v \in Versions : v <= Len(log) /\ log[v].object \in Object /\ log[v].type \in Types
           /\ \A g : Of(g) \subseteq Versions
           /\ \A g, n : ListAt(g, n) \subseteq Of(g)
           /\ \A g : Coming(g) \subseteq Of(g)
<1>1. Len(log) \in Nat /\ \A v \in Versions : log[v] \in Entry
  BY LenProperties, ElementOfSeq DEF Versions
<1> QED
  BY <1>1 DEF Versions, Of, ListAt, Coming, Entry

\* The items of a List, in the order of its answer.
LEMMA ListOrderFacts ==
    ASSUME log \in Seq(Entry), NEW g, NEW order \in SetToSeqs(ListAt(g, Len(log)))
    PROVE  /\ order \in Seq(Versions)
           /\ ToSet(order) = ListAt(g, Len(log))
           /\ \A i, j \in DOMAIN order : order[i] = order[j] => i = j
           /\ order = <<>> <=> ListAt(g, Len(log)) = {}
<1>1. Len(log) \in Nat /\ Versions = 1..Len(log) /\ ListAt(g, Len(log)) \in SUBSET (1..Len(log))
  BY VersionFacts DEF Versions
<1>2. /\ order \in Seq(ListAt(g, Len(log))) /\ ToSet(order) = ListAt(g, Len(log))
      /\ \A i, j \in DOMAIN order : order[i] = order[j] => i = j
      /\ order = <<>> <=> ListAt(g, Len(log)) = {}
  BY <1>1, OrderFacts
<1> QED
  BY <1>1, <1>2, SeqMonotonic

\* The next event of a watch is the first of those that are coming.
LEMMA NextChangeFacts ==
    ASSUME log \in Seq(Entry), NEW g, Coming(g) # {}
    PROVE  /\ NextChange(g) \in Coming(g)
           /\ \A u \in Coming(g) : NextChange(g) <= u
<1>1. Coming(g) \subseteq Nat
  BY VersionFacts
<1>2. PICK v \in Coming(g) : \A u \in Coming(g) : ~(<<u, v>> \in OpToRel(<, Nat))
  BY <1>1, WFMin, NatLessThanWellFounded
<1>3. ASSUME NEW u \in Coming(g), u < v PROVE FALSE
  <2>1. <<u, v>> \in OpToRel(<, Nat)
    BY <1>1, <1>3, Zenon DEF OpToRel
  <2> QED
    BY <1>2, <2>1
<1>4. \A u \in Coming(g) : v <= u
  BY <1>1, <1>3
<1> QED
  BY <1>4 DEF NextChange

\* A change at the API server adds a version and alters none.
Grew ==
    /\ Len(log) <= Len(log') /\ Versions \subseteq Versions'
    /\ \A v \in Versions : log'[v] = log[v]

LEMMA ServerTyped ==
    ASSUME NEW L, ListWatchTypeOK(L), ChangeObject \/ Compact
    PROVE  ListWatchTypeOK(L)' /\ Grew
<1>1. log \in Seq(Entry) /\ Len(log) \in Nat
  BY VersionFacts DEF ListWatchTypeOK, Entry
<1>2. CASE ChangeObject
  <2>1. PICK e \in Entry : log' = Append(log, e)
    BY <1>2 DEF ChangeObject, Entry
  <2>2. /\ log' \in Seq(Entry) /\ Len(log') = Len(log) + 1
        /\ \A v \in 1..Len(log) : log'[v] = log[v]
    BY <1>1, <2>1
  <2>3. Grew
    BY <1>1, <2>2 DEF Grew, Versions
  <2>4. \A s \in Seq(Versions) : s \in Seq(Versions')
    BY <2>3, SeqMonotonic DEF Grew
  <2>5. UNCHANGED <<oldest, queue, closed, pc, asked, items, position>>
    BY <1>2 DEF ChangeObject
  <2>6. queue' \in Seq(Versions') /\ items' \in [Collector -> Seq(Versions')]
    BY <2>4, <2>5 DEF ListWatchTypeOK
  <2>7. /\ oldest' \in 0..Len(log') /\ asked' \in [Collector -> 0..Len(log')]
        /\ position' \in [Collector -> NoWatch..Len(log')]
    BY <1>1, <2>2, <2>5 DEF ListWatchTypeOK, NoWatch
  <2> QED
    BY <2>2, <2>3, <2>5, <2>6, <2>7 DEF ListWatchTypeOK, Entry
<1>3. CASE Compact
  <2>1. Grew
    BY <1>1, <1>3 DEF Compact, Grew, Versions
  <2>2. Versions' = Versions
    BY <1>3 DEF Compact, Versions
  <2> QED
    BY <1>1, <1>3, <2>1, <2>2 DEF ListWatchTypeOK, Compact
<1> QED
  BY <1>2, <1>3

\* The steps of a goroutine, and of the Runner, that both kinds of input have.
LEMMA EnqueueTyped ==
    ASSUME NEW L, ListWatchTypeOK(L), NEW g \in Collector, items[g] # <<>>,
           NEW next \in L, Enqueue(g, next)
    PROVE  ListWatchTypeOK(L)'
<1>1. /\ Head(items[g]) \in Versions /\ Tail(items[g]) \in Seq(Versions)
  BY HeadAndRest DEF ListWatchTypeOK
<1>2. queue' \in Seq(Versions) /\ Len(queue') <= QueueSize
  BY <1>1, LenProperties, ListWatchAssumption DEF ListWatchTypeOK, Enqueue
<1>3. Versions' = Versions
  BY DEF Enqueue, Versions
<1> QED
  BY <1>1, <1>2, <1>3 DEF ListWatchTypeOK, Enqueue, Goto

LEMMA EndsTyped ==
    ASSUME NEW L, ListWatchTypeOK(L), NEW g \in Collector, NEW next \in L, "exit" \in L,
           WatchEnds(g, next) \/ Exit(g)
    PROVE  ListWatchTypeOK(L)'
<1>1. Versions' = Versions /\ <<>> \in Seq(Versions) /\ Len(log) \in Nat
  BY EmptySeq, VersionFacts DEF WatchEnds, Exit, Versions, ListWatchTypeOK, Entry
<1>2. 0 \in 0..Len(log) /\ NoWatch \in NoWatch..Len(log)
  BY <1>1 DEF NoWatch
<1> QED
  BY <1>1, <1>2 DEF ListWatchTypeOK, WatchEnds, Exit, Goto

LEMMA OpenTyped ==
    ASSUME NEW L, ListWatchTypeOK(L), NEW g \in Collector, "consume" \in L,
           NEW from \in 0..Len(log), NEW first \in Seq(Versions), Open(g, from, first),
           asked' \in [Collector -> 0..Len(log)]
    PROVE  ListWatchTypeOK(L)'
<1>1. Versions' = Versions /\ log' = log /\ Len(log) \in Nat
  BY VersionFacts DEF Open, Versions, ListWatchTypeOK, Entry
<1>2. from \in NoWatch..Len(log)
  BY <1>1 DEF NoWatch
<1>3. position' \in [Collector -> NoWatch..Len(log)]
  BY <1>2 DEF ListWatchTypeOK, Open
<1>4. items' \in [Collector -> Seq(Versions)] /\ pc' \in [Collector -> L]
  BY DEF ListWatchTypeOK, Open, Goto
<1> QED
  BY <1>1, <1>3, <1>4 DEF ListWatchTypeOK, Open

LEMMA RunnerTyped ==
    ASSUME NEW L, ListWatchTypeOK(L), (\E n \in 1..QueueSize : Read(n)) \/ Cancel
    PROVE  ListWatchTypeOK(L)'
<1>1. Versions' = Versions
  BY DEF Read, Cancel, Versions
<1>2. CASE Cancel
  BY <1>1, <1>2 DEF ListWatchTypeOK, Cancel
<1>3. ASSUME NEW n \in 1..QueueSize, Read(n)  PROVE ListWatchTypeOK(L)'
  <2>1. Len(queue) \in Nat /\ \A i \in 1..Len(queue) : queue[i] \in Versions
    BY LenProperties, ElementOfSeq DEF ListWatchTypeOK
  <2>2. n \in 1..Len(queue) /\ queue' = SubSeq(queue, n + 1, Len(queue))
    BY <1>3 DEF Read
  <2>3. /\ SubSeq(queue, n + 1, Len(queue)) \in Seq(Versions)
        /\ Len(SubSeq(queue, n + 1, Len(queue))) <= Len(queue)
    BY <2>1, <2>2, SubSeqProperties
  <2> QED
    BY <1>1, <1>3, <2>1, <2>2, <2>3, ListWatchAssumption DEF ListWatchTypeOK, Read
<1> QED
  BY <1>2, <1>3

-----------------------------------------------------------------------------
(* Types of the event input.                                               *)

EventStep == EventNext \/ \E g \in Collector : EventFault(g)

\* Every goroutine about to list, with nothing in hand.
LEMMA EveryoneTyped ==
    \A L, S : "list" \in L =>
        /\ Everyone("list") \in [Collector -> L]
        /\ Everyone(<<>>) \in [Collector -> Seq(S)]
        /\ Len(log) \in Nat => Everyone(0) \in [Collector -> 0..Len(log)]
        /\ Len(log) \in Nat => Everyone(NoWatch) \in [Collector -> NoWatch..Len(log)]
  BY EmptySeq DEF Everyone, NoWatch

LEMMA LeaveOutTyped ==
    ASSUME NEW g, NEW vs, log \in Seq(Entry), done \subseteq Versions, LeaveOut(g, vs)
    PROVE  done' \subseteq Versions
  BY VersionFacts DEF LeaveOut

LEMMA ListedTyped ==
    ASSUME EventTypeOK, NEW g \in Collector, NEW at \in 0..Len(log), NEW order \in Seq(Versions),
           Listed(g, at, order), done' \subseteq Versions
    PROVE  EventTypeOK'
<1>1. Versions' = Versions /\ Len(log) \in Nat
  BY VersionFacts DEF EventTypeOK, ListWatchTypeOK, Listed, api, Versions, Entry
<1>2. 0 \in 0..Len(log)
  BY <1>1
<1> QED
  BY <1>1, <1>2 DEF EventTypeOK, ListWatchTypeOK, Listed, Goto, api

LEMMA CallingFacts ==
    /\ DOMAIN Calling = {"list", "relist", "watch"}
    /\ Calling["list"] = "listing" /\ Calling["relist"] = "relisting" /\ Calling["watch"] = "dial"
  BY DEF Calling

LEMMA GoroutineTyped ==
    ASSUME EventTypeOK, InHand, NEW g \in Collector, EventGoes(g) \/ EventFault(g)
    PROVE  EventTypeOK'
<1>1. /\ log \in Seq(Entry) /\ Len(log) \in Nat /\ Versions \subseteq Nat /\ Of(g) \subseteq Versions
      /\ \A n : ListAt(g, n) \subseteq 1..Len(log)
      /\ Coming(g) \subseteq Of(g)
      /\ 0 \in 0..Len(log) /\ Len(log) \in 0..Len(log) /\ Versions = 1..Len(log)
      /\ done \subseteq Versions
  BY VersionFacts DEF EventTypeOK, ListWatchTypeOK, Entry, Versions
<1>2. \A order \in SetToSeqs(ListAt(g, Len(log))) : order \in Seq(Versions)
  BY <1>1, ListOrderFacts
<1>3. <<>> \in Seq(Versions)
  BY EmptySeq
<1>4. CASE ReadVersion(g)
  <2>1. done' \subseteq Versions
    BY <1>1, <1>4, LeaveOutTyped DEF ReadVersion
  <2>2. Calling[pc[g]] \in {"listing", "relisting", "dial"}
    BY <1>4, CallingFacts DEF ReadVersion
  <2> QED
    BY <1>1, <1>4, <2>1, <2>2 DEF EventTypeOK, ListWatchTypeOK, ReadVersion, Goto, Versions, api
<1>5. CASE ListAll(g)
  <2>1. done' \subseteq Versions
    BY <1>1, <1>5, LeaveOutTyped DEF ListAll
  <2> QED
    BY <1>1, <1>2, <1>5, <2>1, ListedTyped DEF ListAll
<1>6. CASE ListResumes(g)
  <2>1. done' \subseteq Versions
    BY <1>1, <1>6, LeaveOutTyped DEF ListResumes
  <2>2. PICK at \in oldest..Len(log) : Listed(g, at, <<>>)
    BY <1>6 DEF ListResumes
  <2>3. at \in 0..Len(log)
    BY <1>1 DEF EventTypeOK, ListWatchTypeOK
  <2> QED
    BY <1>3, <2>1, <2>2, <2>3, ListedTyped
<1>7. CASE ListExpires(g)
  BY <1>1, <1>7 DEF EventTypeOK, ListWatchTypeOK, ListExpires, Versions, api
<1>8. CASE OpenWatch(g)
  <2>1. asked[g] \in 0..Len(log) /\ asked' \in [Collector -> 0..Len(log)] /\ log' = log
    BY <1>1, <1>8 DEF EventTypeOK, ListWatchTypeOK, OpenWatch, Open
  <2>2. ListWatchTypeOK(EventLabels)'
    BY <1>3, <1>8, <2>1, OpenTyped DEF EventTypeOK, EventLabels, OpenWatch
  <2> QED
    BY <1>1, <1>8, <2>1, <2>2 DEF EventTypeOK, OpenWatch, own, Versions, EventLabels
<1>9. CASE OpenWatchOfAll(g)
  <2>1. done' \subseteq Versions
    BY <1>1, <1>9, LeaveOutTyped DEF OpenWatchOfAll
  <2>2. PICK order \in Seq(Versions) : Open(g, Len(log), order)
    BY <1>2, <1>9 DEF OpenWatchOfAll
  <2>3. asked' \in [Collector -> 0..Len(log)] /\ log' = log
    BY <1>9, <2>2 DEF EventTypeOK, ListWatchTypeOK, OpenWatchOfAll, Open
  <2>4. ListWatchTypeOK(EventLabels)'
    BY <1>1, <2>2, <2>3, OpenTyped DEF EventTypeOK, EventLabels
  <2> QED
    BY <1>1, <1>9, <2>1, <2>3, <2>4 DEF EventTypeOK, OpenWatchOfAll, Versions, EventLabels
<1>10. CASE WatchExpires(g)
  BY <1>1, <1>10 DEF EventTypeOK, ListWatchTypeOK, WatchExpires, Goto, Versions, api
<1>11. CASE WatchEvent(g)
  <2>1. CASE items[g] # <<>>
    <3>1. Head(items[g]) \in Versions
      BY <2>1, HeadAndRest DEF EventTypeOK, ListWatchTypeOK
    <3>2. /\ last' = Head(items[g]) /\ writer' = g /\ pc' = [pc EXCEPT ![g] = "put"]
          /\ UNCHANGED <<log, oldest, queue, closed, asked, items, position, read, saved, restarts, done>>
      BY <1>11, <2>1 DEF WatchEvent, Handle, Goto, api
    <3>3. last' \in 0..Len(log) /\ Versions' = Versions
      BY <1>1, <3>1, <3>2 DEF Versions
    <3>4. ListWatchTypeOK(EventLabels)'
      BY <3>2, <3>3 DEF EventTypeOK, ListWatchTypeOK, EventLabels
    <3> QED
      BY <3>2, <3>3, <3>4 DEF EventTypeOK, EventLabels
  <2>2. CASE items[g] = <<>>
    <3> DEFINE v == NextChange(g)
    <3>1. v \in Versions /\ <<v>> \in Seq(Versions)
      BY <1>1, <1>11, <2>2, NextChangeFacts DEF WatchEvent
    <3>2. /\ UNCHANGED <<log, oldest, queue, closed, asked, read, saved, restarts, done>>
          /\ position' = [position EXCEPT ![g] = v]
          /\ \/ UNCHANGED <<last, writer, pc, items>>
             \/ /\ last' = v /\ writer' = g /\ pc' = [pc EXCEPT ![g] = "put"]
                /\ items' = [items EXCEPT ![g] = <<v>>]
      BY <1>11, <2>2 DEF WatchEvent, Handle, Goto, api
    <3> HIDE DEF v
    <3>3. v \in 0..Len(log) /\ v \in NoWatch..Len(log) /\ Versions' = Versions
      BY <1>1, <3>1, <3>2 DEF Versions, NoWatch
    <3>4. ListWatchTypeOK(EventLabels)'
      BY <3>1, <3>2, <3>3 DEF EventTypeOK, ListWatchTypeOK, EventLabels
    <3> QED
      BY <3>2, <3>3, <3>4 DEF EventTypeOK, EventLabels
  <2> QED
    BY <2>1, <2>2
<1>12. CASE Put(g)
  <2>1. items[g] # <<>> /\ Head(items[g]) \in Versions
    BY <1>12, HeadAndRest DEF EventTypeOK, ListWatchTypeOK, Put, Enqueue, InHand
  <2>2. PICK next \in {"consume", "put", "watch"} : Enqueue(g, next)
    BY <1>12 DEF Put
  <2>3. ListWatchTypeOK(EventLabels)'
    BY <2>1, <2>2, EnqueueTyped DEF EventTypeOK, EventLabels
  <2> QED
    BY <1>1, <1>12, <2>1, <2>2, <2>3 DEF EventTypeOK, Put, Enqueue, Versions, EventLabels
<1>13. CASE Ends(g)
  <2>1. ListWatchTypeOK(EventLabels)'
    BY <1>13, EndsTyped DEF EventTypeOK, EventLabels, Ends
  <2> QED
    BY <1>1, <1>13, <2>1 DEF EventTypeOK, Ends, Exit, own, Versions, EventLabels
<1>14. CASE CallFails(g) \/ WatchErrors(g)
  BY <1>1, <1>14 DEF EventTypeOK, ListWatchTypeOK, CallFails, WatchErrors, Expired, Goto, Versions, api, own
<1>15. CASE CloseWatch(g)
  <2>1. done' \subseteq Versions
    BY <1>1, <1>15, LeaveOutTyped DEF CloseWatch
  <2>2. ListWatchTypeOK(EventLabels)'
    BY <1>15, EndsTyped DEF EventTypeOK, EventLabels, CloseWatch
  <2> QED
    BY <1>1, <1>15, <2>1, <2>2 DEF EventTypeOK, CloseWatch, WatchEnds, Versions, EventLabels
<1> QED
  BY <1>4, <1>5, <1>6, <1>7, <1>8, <1>9, <1>10, <1>11, <1>12, <1>13, <1>14, <1>15
  DEF EventGoes, EventFault, Answered

LEMMA EventTypeStep ==
    ASSUME EventTypeOK, InHand, EventStep
    PROVE  EventTypeOK'
<1>1. /\ ListWatchTypeOK(EventLabels) /\ Len(log) \in Nat /\ 0 \in 0..Len(log)
  BY VersionFacts DEF EventTypeOK, ListWatchTypeOK, Entry, EventLabels
<1>2. CASE (ChangeObject \/ Compact) /\ UNCHANGED own
  <2>1. ListWatchTypeOK(EventLabels)' /\ Grew
    BY <1>1, <1>2, ServerTyped
  <2>2. Len(log') \in Nat
    BY <2>1, VersionFacts DEF ListWatchTypeOK, Entry
  <2> QED
    BY <1>1, <1>2, <2>1, <2>2 DEF EventTypeOK, own, Grew, EventLabels
<1>3. CASE \E g \in Collector : EventGoes(g) \/ EventFault(g)
  BY <1>3, GoroutineTyped
<1>4. CASE ReadBatch
  <2>1. ListWatchTypeOK(EventLabels)'
    BY <1>1, <1>4, RunnerTyped DEF ReadBatch
  <2>2. PICK n \in 1..Len(queue) : read' = queue[n]
    BY <1>4 DEF ReadBatch, Read
  <2>3. read' \in 0..Len(log)
    BY <1>1, <2>2, ElementOfSeq DEF ListWatchTypeOK, Versions
  <2> QED
    BY <1>1, <1>4, <2>1, <2>3 DEF EventTypeOK, ReadBatch, Read, EventLabels, Versions
<1>5. CASE Commit
  BY <1>1, <1>5 DEF EventTypeOK, ListWatchTypeOK, Commit, Save, common, Versions
<1>6. CASE Close
  <2>1. ListWatchTypeOK(EventLabels)'
    BY <1>1, <1>6, RunnerTyped DEF Close
  <2> QED
    BY <1>1, <1>6, <2>1 DEF EventTypeOK, Close, Cancel, Save, EventLabels, Versions
<1>7. CASE Restart
  <2>1. /\ pc' \in [Collector -> EventLabels] /\ items' \in [Collector -> Seq(Versions)]
        /\ asked' \in [Collector -> 0..Len(log)] /\ position' \in [Collector -> NoWatch..Len(log)]
    BY <1>1, <1>7, EveryoneTyped DEF Restart, EventLabels
  <2>2. queue' \in Seq(Versions) /\ Len(queue') = 0 /\ restarts' \in 0..MaxRestarts
    BY <1>7, EmptySeq, EventInputAssumption DEF Restart, EventTypeOK
  <2>3. /\ UNCHANGED <<log, oldest, saved>> /\ closed' = FALSE
        /\ last' = saved /\ read' = 0 /\ writer' = Nobody /\ done' = {}
    BY <1>7 DEF Restart, api
  <2>4. ListWatchTypeOK(EventLabels)'
    <3>1. Versions' = Versions
      BY <2>3 DEF Versions
    <3>2. Len(queue') <= QueueSize
      BY <2>2, ListWatchAssumption
    <3> QED
      BY <1>1, <2>1, <2>2, <2>3, <3>1, <3>2 DEF ListWatchTypeOK
  <2> QED
    BY <1>1, <2>2, <2>3, <2>4 DEF EventTypeOK, EventLabels
<1> QED
  BY <1>2, <1>3, <1>4, <1>5, <1>6, <1>7 DEF EventStep, EventNext

-----------------------------------------------------------------------------
(* What is in hand, and that no event is missed.                           *)

LEMMA EventHandStep ==
    ASSUME EventTypeOK, InHand, EventStep
    PROVE  InHand'
<1>1. /\ log \in Seq(Entry) /\ Len(log) \in Nat
      /\ pc \in [Collector -> EventLabels] /\ items \in [Collector -> Seq(Versions)]
      /\ position \in [Collector -> NoWatch..Len(log)] /\ asked \in [Collector -> 0..Len(log)]
  BY VersionFacts DEF EventTypeOK, ListWatchTypeOK, Entry, EventLabels
<1>2. CASE UNCHANGED <<pc, items, position>>
  BY <1>2 DEF InHand
<1>3. ASSUME NEW g \in Collector, EventGoes(g) \/ EventFault(g)  PROVE InHand'
  <2>1. CASE ReadVersion(g)
    <3>1. pc[g] \in {"list", "relist", "watch"} /\ Calling[pc[g]] \in {"listing", "relisting", "dial"}
      BY <2>1, CallingFacts DEF ReadVersion
    <3> QED
      BY <1>1, <2>1, <3>1 DEF ReadVersion, Goto, InHand
  <2>2. ASSUME NEW at, NEW order, Listed(g, at, order)  PROVE InHand'
    BY <1>1, <2>2 DEF Listed, Goto, InHand
  <2>3. CASE ListAll(g) \/ ListResumes(g)
    BY <2>2, <2>3 DEF ListAll, ListResumes
  <2>4. CASE ListExpires(g)
    BY <2>4 DEF ListExpires, InHand
  <2>5. CASE WatchExpires(g)
    BY <1>1, <2>5 DEF WatchExpires, Goto, InHand
  <2>6. CASE OpenWatch(g)
    BY <1>1, <2>6 DEF OpenWatch, Open, Goto, InHand, NoWatch
  <2>7. CASE OpenWatchOfAll(g)
    BY <1>1, <2>7 DEF OpenWatchOfAll, Open, Goto, InHand, NoWatch
  <2>8. CASE WatchEvent(g)
    <3>1. CASE items[g] # <<>>
      <4>1. pc' = [pc EXCEPT ![g] = "put"] /\ UNCHANGED <<items, position>>
        BY <2>8, <3>1 DEF WatchEvent, Handle, Goto
      <4> QED
        BY <1>1, <3>1, <4>1 DEF InHand
    <3>2. CASE items[g] = <<>>
      <4>1. NextChange(g) \in 1..Len(log)
        BY <1>1, <2>8, <3>2, NextChangeFacts, VersionFacts DEF WatchEvent, Versions
      <4>2. /\ pc[g] = "consume"
            /\ position' = [position EXCEPT ![g] = NextChange(g)]
            /\ \/ UNCHANGED <<pc, items>>
               \/ /\ pc' = [pc EXCEPT ![g] = "put"]
                  /\ items' = [items EXCEPT ![g] = <<NextChange(g)>>]
        BY <2>8, <3>2 DEF WatchEvent, Handle, Goto
      <4>3. <<NextChange(g)>> # <<>>
        OBVIOUS
      <4>4. CASE UNCHANGED <<pc, items>>
        BY <1>1, <4>1, <4>2, <4>4 DEF InHand, NoWatch
      <4>5. CASE /\ pc' = [pc EXCEPT ![g] = "put"]
                 /\ items' = [items EXCEPT ![g] = <<NextChange(g)>>]
        BY <1>1, <4>1, <4>2, <4>3, <4>5 DEF InHand, NoWatch
      <4> QED
        BY <4>2, <4>4, <4>5
    <3> QED
      BY <3>1, <3>2
  <2>9. CASE Put(g)
    <3>1. items[g] # <<>> /\ Len(items[g]) \in Nat
      BY <1>1, <2>9, LenProperties DEF Put, Enqueue, InHand
    <3>2. /\ Len(items[g]) <= 1 => Tail(items[g]) = <<>>
          /\ Len(items[g]) > 1 => Tail(items[g]) # <<>>
      BY <1>1, <3>1, HeadAndRest
    <3> QED
      BY <1>1, <2>9, <3>1, <3>2 DEF Put, Enqueue, Goto, InHand
  <2>10. CASE Ends(g)
    BY <1>1, <2>10 DEF Ends, Exit, Goto, InHand
  <2>11. CASE CallFails(g) \/ WatchErrors(g)
    BY <1>1, <2>11 DEF CallFails, WatchErrors, Expired, Goto, InHand
  <2>12. CASE CloseWatch(g)
    BY <1>1, <2>12 DEF CloseWatch, WatchEnds, Goto, InHand
  <2> QED
    BY <1>3, <2>1, <2>3, <2>4, <2>5, <2>6, <2>7, <2>8, <2>9, <2>10, <2>11, <2>12
    DEF EventGoes, EventFault, Answered
<1>4. CASE Restart
  BY <1>4 DEF Restart, Everyone, InHand
<1> QED
  BY <1>2, <1>3, <1>4
  DEF EventStep, EventNext, ChangeObject, Compact, ReadBatch, Read, Commit, Close, Cancel, common

\* What a goroutine has collected stays collected while others go on.
LEMMA CollectedKept ==
    ASSUME EventTypeOK, Grew, done \subseteq done', NEW h \in Collector, Collected(h),
           pc'[h] = pc[h], items'[h] = items[h], position'[h] = position[h], asked'[h] = asked[h],
           writer' = h => writer = h /\ last' \in {0, last}
    PROVE  Collected(h)'
<1>1. /\ Len(log) \in Nat /\ Versions \subseteq Nat /\ last \in Nat /\ asked[h] \in Nat
      /\ last <= Len(log) /\ asked[h] <= Len(log) /\ position[h] <= Len(log)
      /\ position[h] \in Int
  BY VersionFacts DEF EventTypeOK, ListWatchTypeOK, Entry, NoWatch
<1>2. ASSUME NEW v \in Of(h)', v <= Len(log)
      PROVE  v \in Of(h) /\ log'[v] = log[v]
  BY <1>1, <1>2 DEF Of, Versions, Grew
<1>3. ASSUME NEW n \in Int, n <= Len(log), Accounted(h, n), NEW v \in Of(h)', v <= n
      PROVE  v \in done' \/ v \in ToSet(items'[h]) \/ log'[v].type = "DELETED"
  <2>1. v \in Int
    BY <1>3 DEF Of, Versions
  <2>2. v \in Of(h) /\ log'[v] = log[v]
    BY <1>1, <1>2, <1>3, <2>1
  <2> QED
    BY <1>3, <2>2 DEF Accounted
<1>4. ASSUME writer' = h, pc'[h] # "exit"  PROVE Accounted(h, last)'
  <2>1. Accounted(h, last) /\ last' <= last /\ last' \in Nat
    BY <1>1, <1>4 DEF Collected
  <2>2. ASSUME NEW v \in Of(h)', v <= last'  PROVE v <= last
    BY <1>1, <2>1, <2>2 DEF Of, Versions
  <2> QED
    BY <1>1, <1>3, <2>1, <2>2 DEF Accounted
<1>5. (pc[h] = "dial" => Accounted(h, asked[h]))'
  BY <1>1, <1>3 DEF Collected, Accounted
<1>6. Accounted(h, position[h])'
  BY <1>1, <1>3 DEF Collected, Accounted
<1> QED
  BY <1>4, <1>5, <1>6 DEF Collected

LEMMA EventGoesCollected ==
    ASSUME EventTypeOK, InHand, NEW g \in Collector, Collected(g), EventGoes(g) \/ EventFault(g)
    PROVE  Collected(g)'
<1>1. /\ log \in Seq(Entry) /\ Len(log) \in Nat
      /\ pc \in [Collector -> EventLabels] /\ items \in [Collector -> Seq(Versions)]
      /\ position \in [Collector -> NoWatch..Len(log)] /\ asked \in [Collector -> 0..Len(log)]
      /\ last \in 0..Len(log) /\ Versions = 1..Len(log)
  BY VersionFacts DEF EventTypeOK, ListWatchTypeOK, Entry, EventLabels, Versions
<1>2. log' = log /\ Of(g)' = Of(g) /\ Of(g) \subseteq Versions
  <2>1. log' = log
    BY DEF EventGoes, EventFault, Answered, ReadVersion, ListAll, ListResumes, Listed, ListExpires, OpenWatch,
           OpenWatchOfAll, Open, WatchExpires, WatchErrors, WatchEvent, Put, Enqueue, Ends, Exit, CallFails,
           CloseWatch, WatchEnds, api
  <2> QED
    BY <1>1, <2>1, VersionFacts DEF Of, Versions
<1>3. \A v \in Of(g) : v \in Nat \ {0}
  BY <1>1, <1>2
<1>4. CASE ReadVersion(g)
  <2>1. /\ asked'[g] = last /\ last' = last /\ writer' = writer
        /\ UNCHANGED <<items, position>> /\ done \subseteq done'
        /\ pc[g] # "exit" /\ (pc'[g] = "dial" => pc[g] = "watch")
    BY <1>1, <1>4, CallingFacts DEF ReadVersion, Goto, LeaveOut
  <2>2. Accounted(g, position[g])' /\ (writer = g => Accounted(g, last)')
    BY <1>2, <2>1 DEF Collected, Accounted
  <2>3. pc[g] = "watch" /\ writer # g => Accounted(g, last)'
    BY <1>1, <1>2, <1>4, <2>1 DEF ReadVersion, LeaveOut, Accounted
  <2>4. pc'[g] = "dial" => Accounted(g, asked[g])'
    BY <2>1, <2>2, <2>3 DEF Accounted
  <2> QED
    BY <2>1, <2>2, <2>4 DEF Collected
<1>5. ASSUME NEW at \in 0..Len(log), NEW order, Listed(g, at, order),
             \A v \in Of(g) : v <= at => v \in done' \/ v \in ToSet(order)
      PROVE  Collected(g)'
  <2>1. /\ last' = at /\ items'[g] = order /\ position'[g] = NoWatch
        /\ pc'[g] \in {"watch", "put"}
    BY <1>1, <1>5 DEF Listed, Goto, InHand
  <2>2. Accounted(g, last)'
    BY <1>2, <1>5, <2>1 DEF Accounted
  <2>3. Accounted(g, position[g])'
    BY <1>2, <1>3, <2>1 DEF Accounted, NoWatch
  <2> QED
    BY <2>1, <2>2, <2>3 DEF Collected
<1>6. CASE ListAll(g)
  <2>1. PICK order \in SetToSeqs(ListAt(g, Len(log))) : Listed(g, Len(log), order)
    BY <1>6 DEF ListAll
  <2>2. ToSet(order) = ListAt(g, Len(log))
    BY <1>1, <2>1, ListOrderFacts
  <2>3. \A v \in Of(g) : v <= Len(log) => v \in done' \/ v \in ToSet(order)
    BY <1>1, <1>2, <1>6, <2>2 DEF ListAll, LeaveOut
  <2>4. Len(log) \in 0..Len(log)
    BY <1>1
  <2> QED
    BY <1>5, <2>1, <2>3, <2>4
<1>7. CASE ListResumes(g)
  <2>1. PICK at \in oldest..Len(log) : Listed(g, at, <<>>) /\ LeaveOut(g, 1..at)
    BY <1>7 DEF ListResumes
  <2>2. at \in 0..Len(log)
    BY <1>1 DEF EventTypeOK, ListWatchTypeOK
  <2>3. \A v \in Of(g) : v <= at => v \in done'
    BY <1>1, <1>2, <2>1, <2>2 DEF LeaveOut
  <2> QED
    BY <1>5, <2>1, <2>2, <2>3
<1>8. CASE ListExpires(g) \/ WatchExpires(g)
  <2>1. /\ last' = 0 /\ items' = items /\ position' = position /\ done' = done
        /\ pc'[g] # "dial"
    BY <1>1, <1>8 DEF ListExpires, WatchExpires, Goto
  <2>2. Accounted(g, last)'
    BY <1>2, <1>3, <2>1 DEF Accounted
  <2>3. Accounted(g, position[g])'
    BY <1>2, <2>1 DEF Collected, Accounted
  <2> QED
    BY <2>1, <2>2, <2>3 DEF Collected
<1>9. CASE OpenWatch(g)
  <2>1. /\ position'[g] = asked[g] /\ pc'[g] = "consume" /\ pc[g] = "dial"
        /\ items[g] = <<>> /\ items'[g] = <<>>
        /\ UNCHANGED <<last, writer, done>>
    BY <1>1, <1>9 DEF OpenWatch, Open, Goto, own, InHand
  <2>2. writer = g => Accounted(g, last)'
    BY <1>2, <2>1 DEF Collected, Accounted
  <2>3. Accounted(g, position[g])'
    BY <1>2, <2>1 DEF Collected, Accounted
  <2> QED
    BY <2>1, <2>2, <2>3, ToSetEmpty DEF Collected
<1>10. CASE OpenWatchOfAll(g)
  <2>1. PICK order \in SetToSeqs(ListAt(g, Len(log))) : Open(g, Len(log), order)
    BY <1>10 DEF OpenWatchOfAll
  <2>2. ToSet(order) = ListAt(g, Len(log))
    BY <1>1, <2>1, ListOrderFacts
  <2>3. /\ position'[g] = Len(log) /\ pc'[g] = "consume"
        /\ items'[g] = order /\ UNCHANGED <<last, writer>>
    BY <1>1, <1>10, <2>1 DEF OpenWatchOfAll, Open, Goto
  <2>4. \A v \in Of(g) : v \in done' \/ v \in ToSet(order)
    BY <1>1, <1>2, <1>10, <2>2 DEF OpenWatchOfAll, LeaveOut
  <2>5. Accounted(g, last)' /\ Accounted(g, position[g])'
    BY <1>2, <2>3, <2>4 DEF Accounted
  <2>6. \A v \in ToSet(order) : v <= Len(log)
    BY <2>2 DEF ListAt
  <2> QED
    BY <2>3, <2>5, <2>6 DEF Collected
<1>11. CASE WatchEvent(g)
  <2>1. pc[g] = "consume" /\ position[g] # NoWatch /\ UNCHANGED done
    BY <1>11 DEF WatchEvent, InHand
  <2>2. CASE items[g] # <<>>
    <3>1. /\ last' = Head(items[g]) /\ pc' = [pc EXCEPT ![g] = "put"]
          /\ UNCHANGED <<items, position>>
      BY <1>11, <2>2 DEF WatchEvent, Handle, Goto
    <3>2. Head(items[g]) <= position[g] /\ Head(items[g]) \in Nat /\ position[g] \in Int
      BY <1>1, <2>1, <2>2, HeadAndRest DEF Collected, NoWatch
    <3>3. Accounted(g, last)'
      BY <1>2, <1>3, <2>1, <3>1, <3>2 DEF Collected, Accounted
    <3>4. Accounted(g, position[g])'
      BY <1>2, <2>1, <3>1 DEF Collected, Accounted
    <3> QED
      BY <1>1, <3>1, <3>3, <3>4 DEF Collected
  <2>3. CASE items[g] = <<>>
    <3> DEFINE n == NextChange(g)
    <3>1. /\ n \in Of(g) /\ n > position[g]
          /\ \A v \in Of(g) : v < n => v <= position[g]
      <4>1. Coming(g) # {}
        BY <1>11, <2>3 DEF WatchEvent
      <4>2. n \in Coming(g) /\ \A u \in Coming(g) : n <= u
        BY <1>1, <4>1, NextChangeFacts
      <4>3. position[g] \in Int
        BY <1>1 DEF NoWatch
      <4> HIDE DEF n
      <4> QED
        BY <1>3, <4>2, <4>3 DEF Coming
    <3>2. position' = [position EXCEPT ![g] = n]
      BY <1>11, <2>3 DEF WatchEvent
    <3> HIDE DEF n
    <3>3. ToSet(items[g]) = {}
      BY <2>3, ToSetEmpty
    <3>4. ASSUME NEW v \in Of(g), v < n
          PROVE  v \in done \/ log[v].type = "DELETED"
      BY <2>1, <3>1, <3>3, <3>4 DEF Collected, Accounted
    <3>5. CASE log[n].type = "DELETED"
      <4>1. UNCHANGED <<last, writer, pc, items>>
        BY <1>11, <2>3, <3>5 DEF WatchEvent, n
      <4>2. \A v \in Of(g) : v <= n => v \in done \/ log[v].type = "DELETED"
        BY <1>3, <3>1, <3>4, <3>5
      <4>3. Accounted(g, position[g])'
        BY <1>1, <1>2, <2>1, <3>2, <4>1, <4>2 DEF Accounted
      <4>4. writer = g => Accounted(g, last)'
        BY <1>2, <2>1, <4>1 DEF Collected, Accounted
      <4> QED
        BY <2>1, <3>3, <4>1, <4>3, <4>4 DEF Collected
    <3>6. CASE log[n].type # "DELETED"
      <4>1. last' = n /\ pc' = [pc EXCEPT ![g] = "put"] /\ items' = [items EXCEPT ![g] = <<n>>]
        BY <1>11, <2>3, <3>6 DEF WatchEvent, Handle, Goto, n
      <4>2. ToSet(items'[g]) = {n}
        BY <1>1, <4>1, ToSetOne
      <4>3. \A v \in Of(g) : v <= n => v \in done \/ v = n \/ log[v].type = "DELETED"
        BY <1>3, <3>1, <3>4
      <4>4. Accounted(g, last)' /\ Accounted(g, position[g])'
        BY <1>1, <1>2, <2>1, <3>2, <4>1, <4>2, <4>3 DEF Accounted
      <4>5. n \in Nat /\ position'[g] = n /\ pc'[g] = "put"
        BY <1>1, <1>3, <3>1, <3>2, <4>1
      <4> QED
        BY <4>2, <4>4, <4>5 DEF Collected
    <3> QED
      BY <3>5, <3>6
  <2> QED
    BY <2>2, <2>3
<1>12. CASE Put(g)
  <2>1. /\ items[g] # <<>> /\ items' = [items EXCEPT ![g] = Tail(@)]
        /\ done' = done \cup {Head(items[g])} /\ UNCHANGED <<last, writer, position, asked>>
        /\ pc[g] = "put" /\ pc'[g] # "dial"
    BY <1>1, <1>12 DEF Put, Enqueue, Goto, InHand
  <2>2. ToSet(items[g]) = {Head(items[g])} \cup ToSet(items'[g])
    BY <1>1, <2>1, HeadAndRest
  <2>3. writer = g => Accounted(g, last)'
    BY <1>2, <2>1, <2>2 DEF Collected, Accounted
  <2>4. Accounted(g, position[g])'
    BY <1>2, <2>1, <2>2 DEF Collected, Accounted
  <2> QED
    BY <2>1, <2>2, <2>3, <2>4 DEF Collected
<1>13. CASE Ends(g)
  <2>1. pc'[g] = "exit" /\ position'[g] = NoWatch
    BY <1>1, <1>13 DEF Ends, Exit, Goto
  <2>2. Accounted(g, position[g])'
    BY <1>2, <1>3, <2>1 DEF Accounted, NoWatch
  <2> QED
    BY <2>1, <2>2 DEF Collected
<1>14. CASE CallFails(g) \/ WatchErrors(g)
  <2>1. /\ pc[g] # "exit" /\ pc'[g] # "dial"
        /\ UNCHANGED <<items, position, last, writer, done>>
    BY <1>1, <1>14 DEF CallFails, WatchErrors, Expired, Goto, own
  <2>2. writer = g => Accounted(g, last)'
    BY <1>2, <2>1 DEF Collected, Accounted
  <2>3. Accounted(g, position[g])'
    BY <1>2, <2>1 DEF Collected, Accounted
  <2> QED
    BY <2>1, <2>2, <2>3 DEF Collected
<1>15. CASE CloseWatch(g)
  <2>1. /\ pc[g] = "consume" /\ pc'[g] = "watch" /\ position'[g] = NoWatch
        /\ UNCHANGED <<last, writer>>
        /\ done' = done \cup (Of(g) \cap {v \in ToSet(items[g]) : v <= last})
    BY <1>1, <1>15 DEF CloseWatch, WatchEnds, Goto, LeaveOut
  <2>2. writer = g => Accounted(g, last)'
    BY <1>2, <2>1 DEF Collected, Accounted
  <2>3. Accounted(g, position[g])'
    BY <1>2, <1>3, <2>1 DEF Accounted, NoWatch
  <2> QED
    BY <2>1, <2>2, <2>3 DEF Collected
<1> QED
  BY <1>4, <1>6, <1>7, <1>8, <1>9, <1>10, <1>11, <1>12, <1>13, <1>14, <1>15
  DEF EventGoes, EventFault, Answered

LEMMA EventInvStep ==
    ASSUME EventTypeOK, InHand, EventInv, EventStep
    PROVE  EventInv'
<1>1. /\ Len(log) \in Nat /\ pc \in [Collector -> EventLabels] /\ items \in [Collector -> Seq(Versions)]
      /\ position \in [Collector -> NoWatch..Len(log)] /\ asked \in [Collector -> 0..Len(log)]
  BY VersionFacts DEF EventTypeOK, ListWatchTypeOK, Entry, EventLabels
<1>2. log' = log => Grew
  BY <1>1 DEF Grew, Versions
<1>3. CASE (ChangeObject \/ Compact) /\ UNCHANGED own
  <2>1. Grew
    BY <1>3, ServerTyped DEF EventTypeOK
  <2>2. UNCHANGED <<pc, items, position, asked, own>>
    BY <1>3 DEF ChangeObject, Compact
  <2> QED
    BY <2>1, <2>2, CollectedKept DEF EventInv, own
<1>4. ASSUME NEW g \in Collector, EventGoes(g) \/ EventFault(g), NEW h \in Collector
      PROVE  Collected(h)'
  <2>1. CASE h = g
    BY <1>4, <2>1, EventGoesCollected DEF EventInv
  <2>2. CASE h # g
    <3>1. /\ log' = log /\ done \subseteq done'
          /\ pc'[h] = pc[h] /\ items'[h] = items[h]
          /\ position'[h] = position[h] /\ asked'[h] = asked[h]
          /\ writer' = h => writer = h /\ last' \in {0, last}
      <4>1. CASE ReadVersion(g)
        BY <1>1, <2>2, <4>1 DEF ReadVersion, LeaveOut, Goto, api
      <4>2. CASE ListAll(g) \/ ListResumes(g)
        BY <1>1, <2>2, <4>2 DEF ListAll, ListResumes, Listed, LeaveOut, Goto, api
      <4>3. CASE ListExpires(g) \/ WatchExpires(g)
        <5>1. UNCHANGED <<log, items, position, done, writer>> /\ last' = 0
          BY <4>3 DEF ListExpires, WatchExpires, api
        <5>2. pc'[h] = pc[h] /\ asked'[h] = asked[h]
          BY <1>1, <2>2, <4>3 DEF ListExpires, WatchExpires, Goto
        <5> QED
          BY <5>1, <5>2
      <4>4. CASE OpenWatch(g)
        BY <1>1, <2>2, <4>4 DEF OpenWatch, Open, Goto, own
      <4>5. CASE OpenWatchOfAll(g)
        BY <1>1, <2>2, <4>5 DEF OpenWatchOfAll, Open, LeaveOut, Goto
      <4>6. CASE WatchEvent(g)
        <5>1. /\ UNCHANGED <<log, asked, done>>
              /\ items'[h] = items[h] /\ position'[h] = position[h] /\ pc'[h] = pc[h]
          BY <1>1, <2>2, <4>6 DEF WatchEvent, Handle, Goto, api
        <5>2. writer' = g \/ UNCHANGED <<writer, last>>
          BY <4>6 DEF WatchEvent, Handle
        <5> QED
          BY <2>2, <5>1, <5>2
      <4>7. CASE Put(g)
        BY <1>1, <2>2, <4>7 DEF Put, Enqueue, Goto
      <4>8. CASE Ends(g)
        BY <1>1, <2>2, <4>8 DEF Ends, Exit, Goto, own
      <4>9. CASE CallFails(g) \/ WatchErrors(g)
        BY <1>1, <2>2, <4>9 DEF CallFails, WatchErrors, Expired, Goto, api, own
      <4>10. CASE CloseWatch(g)
        BY <1>1, <2>2, <4>10 DEF CloseWatch, WatchEnds, LeaveOut, Goto
      <4> QED
        BY <1>4, <4>1, <4>2, <4>3, <4>4, <4>5, <4>6, <4>7, <4>8, <4>9, <4>10
        DEF EventGoes, EventFault, Answered
    <3> QED
      BY <1>2, <1>4, <3>1, CollectedKept DEF EventInv
  <2> QED
    BY <2>1, <2>2
<1>5. CASE ReadBatch \/ Commit \/ Close
  <2>1. UNCHANGED <<log, pc, items, position, asked, last, writer, done>>
    BY <1>5 DEF ReadBatch, Read, Commit, Close, Cancel, common
  <2> QED
    BY <1>2, <2>1, CollectedKept DEF EventInv
<1>6. CASE Restart
  <2> SUFFICES ASSUME NEW h \in Collector PROVE Collected(h)'
    BY DEF EventInv
  <2>1. writer' # h /\ pc'[h] # "dial" /\ position'[h] = NoWatch /\ log' = log
    BY <1>6, EventInputAssumption DEF Restart, Everyone, api
  <2>2. \A v \in Of(h)' : v \in Nat
    BY <1>1 DEF Of, Versions
  <2>3. Accounted(h, position[h])'
    <3>1. \A v \in Of(h)' : ~(v <= NoWatch)
      BY <2>2 DEF NoWatch
    <3> QED
      BY <2>1, <3>1 DEF Accounted
  <2> QED
    BY <2>1, <2>3 DEF Collected
<1> QED
  BY <1>3, <1>4, <1>5, <1>6 DEF EventInv, EventStep, EventNext

-----------------------------------------------------------------------------
(* Types of the object state input, and what is in hand.                   *)

ObjectStep == ObjectNext \/ \E g \in Collector : ObjectFault(g)

LEMMA ObjectTypeStep ==
    ASSUME ObjectTypeOK, InHand, ObjectStep
    PROVE  ObjectTypeOK'
<1>1. /\ ListWatchTypeOK(ObjectLabels) /\ log \in Seq(Entry) /\ Len(log) \in Nat
      /\ Versions = 1..Len(log) /\ 0 \in 0..Len(log) /\ Len(log) \in 0..Len(log)
      /\ shown \in [Object -> 0..Len(log)]
  BY VersionFacts DEF ObjectTypeOK, ListWatchTypeOK, Entry, ObjectLabels, Versions
<1>2. log' = log => Versions' = Versions
  BY DEF Versions
<1>3. ListWatchTypeOK(ObjectLabels)' /\ log' = log /\ shown' = shown => ObjectTypeOK'
  BY <1>1 DEF ObjectTypeOK, ObjectLabels
<1>4. CASE (ChangeObject \/ Compact) /\ UNCHANGED shown
  <2>1. ListWatchTypeOK(ObjectLabels)' /\ Grew
    BY <1>1, <1>4, ServerTyped
  <2>2. Len(log') \in Nat
    BY <2>1, VersionFacts DEF ListWatchTypeOK, Entry
  <2> QED
    BY <1>1, <1>4, <2>1, <2>2 DEF ObjectTypeOK, Grew, ObjectLabels
<1>5. CASE ReadObjects \/ CloseObjects
  <2>1. ListWatchTypeOK(ObjectLabels)'
    BY <1>1, <1>5, RunnerTyped DEF ReadObjects, CloseObjects
  <2> QED
    BY <1>3, <1>5, <2>1 DEF ReadObjects, CloseObjects, Read, Cancel
<1>6. ASSUME NEW g \in Collector, ObjectGoes(g) \/ ObjectFault(g)  PROVE ObjectTypeOK'
  <2>1. CASE ListObjects(g)
    <3>1. PICK order \in Seq(Versions) : items' = [items EXCEPT ![g] = order]
      BY <1>1, <2>1, ListOrderFacts DEF ListObjects, Snapshot
    <3>2. /\ pc' \in [Collector -> ObjectLabels] /\ asked' \in [Collector -> 0..Len(log)]
          /\ UNCHANGED <<log, oldest, queue, closed, position, shown>>
      BY <1>1, <2>1 DEF ListObjects, Snapshot, Goto, api, ListWatchTypeOK, ObjectLabels
    <3>3. ListWatchTypeOK(ObjectLabels)'
      BY <1>1, <1>2, <3>1, <3>2 DEF ListWatchTypeOK
    <3> QED
      BY <1>3, <3>2, <3>3
  <2>2. CASE WatchObjects(g)
    <3>1. asked[g] \in NoWatch..Len(log) /\ <<>> \in Seq(Versions)
      BY <1>1, EmptySeq DEF ListWatchTypeOK, NoWatch
    <3>2. ListWatchTypeOK(ObjectLabels)'
      BY <1>1, <1>2, <2>2, <3>1 DEF ListWatchTypeOK, WatchObjects, Open, Goto, ObjectLabels
    <3> QED
      BY <1>3, <2>2, <3>2 DEF WatchObjects, Open
  <2>3. CASE ObjectWatchExpires(g) \/ WatchFails(g)
    <3>1. ListWatchTypeOK(ObjectLabels)'
      BY <1>1, <1>2, <2>3
      DEF ListWatchTypeOK, ObjectWatchExpires, WatchFails, ListAgain, Goto, ObjectLabels, api
    <3> QED
      BY <1>3, <2>3, <3>1 DEF ObjectWatchExpires, WatchFails, ListAgain, api
  <2>4. CASE HandleObject(g)
    <3> DEFINE v == NextChange(g)
    <3>1. v \in Versions /\ <<v>> \in Seq(Versions)
      BY <1>1, <2>4, NextChangeFacts, VersionFacts DEF HandleObject
    <3>2. /\ position' = [position EXCEPT ![g] = v] /\ items' = [items EXCEPT ![g] = <<v>>]
          /\ pc' = [pc EXCEPT ![g] = "put"]
          /\ UNCHANGED <<log, oldest, queue, closed, asked, shown>>
      BY <2>4 DEF HandleObject, Goto, api
    <3> HIDE DEF v
    <3>3. v \in NoWatch..Len(log)
      BY <1>1, <3>1 DEF NoWatch
    <3>4. ListWatchTypeOK(ObjectLabels)'
      BY <1>1, <1>2, <3>1, <3>2, <3>3 DEF ListWatchTypeOK, ObjectLabels
    <3> QED
      BY <1>3, <3>2, <3>4
  <2>5. CASE PutObject(g)
    <3>1. items[g] # <<>> /\ Head(items[g]) \in Versions
      BY <1>1, <2>5, HeadAndRest DEF ListWatchTypeOK, PutObject, Enqueue, InHand
    <3>2. PICK next \in {"consume", "put", "dial"} : Enqueue(g, next)
      BY <2>5 DEF PutObject
    <3>3. ListWatchTypeOK(ObjectLabels)'
      BY <1>1, <3>1, <3>2, EnqueueTyped DEF ObjectLabels
    <3>4. log' = log /\ shown' \in [Object -> 0..Len(log)]
      <4>1. log' = log /\ shown' = [shown EXCEPT ![log[Head(items[g])].object] = Head(items[g])]
        BY <2>5, <3>2 DEF PutObject, Show, Enqueue
      <4>2. Head(items[g]) \in 0..Len(log)
        BY <1>1, <3>1
      <4> QED
        BY <1>1, <4>1, <4>2
    <3> QED
      BY <3>3, <3>4 DEF ObjectTypeOK, ObjectLabels
  <2>6. CASE EndObjects(g) \/ EndObjectWatch(g)
    <3>1. ListWatchTypeOK(ObjectLabels)'
      BY <1>1, <2>6, EndsTyped DEF ObjectLabels, EndObjects, EndObjectWatch
    <3> QED
      BY <1>3, <2>6, <3>1 DEF EndObjects, EndObjectWatch, Exit, WatchEnds
  <2> QED
    BY <1>6, <2>1, <2>2, <2>3, <2>4, <2>5, <2>6 DEF ObjectGoes, ObjectFault
<1> QED
  BY <1>4, <1>5, <1>6 DEF ObjectStep, ObjectNext

LEMMA ObjectHandStep ==
    ASSUME ObjectTypeOK, InHand, ObjectStep
    PROVE  InHand'
<1>1. /\ log \in Seq(Entry) /\ Len(log) \in Nat
      /\ pc \in [Collector -> ObjectLabels] /\ items \in [Collector -> Seq(Versions)]
      /\ position \in [Collector -> NoWatch..Len(log)] /\ asked \in [Collector -> 0..Len(log)]
  BY VersionFacts DEF ObjectTypeOK, ListWatchTypeOK, Entry, ObjectLabels
<1>2. CASE UNCHANGED <<pc, items, position>>
  BY <1>2 DEF InHand
<1>3. ASSUME NEW g \in Collector, ObjectGoes(g) \/ ObjectFault(g)  PROVE InHand'
  <2>1. CASE ListObjects(g)
    <3>1. PICK order \in SetToSeqs(ListAt(g, Len(log))) : items' = [items EXCEPT ![g] = order]
      BY <2>1 DEF ListObjects, Snapshot
    <3>2. order = <<>> <=> ListAt(g, Len(log)) = {}
      BY <1>1, ListOrderFacts
    <3> QED
      BY <1>1, <2>1, <3>1, <3>2 DEF ListObjects, Snapshot, Goto, InHand
  <2>2. CASE WatchObjects(g)
    BY <1>1, <2>2 DEF WatchObjects, Open, Goto, InHand, NoWatch
  <2>3. CASE ObjectWatchExpires(g) \/ WatchFails(g)
    BY <1>1, <2>3 DEF ObjectWatchExpires, WatchFails, ListAgain, Goto, InHand
  <2>4. CASE HandleObject(g)
    <3> DEFINE v == NextChange(g)
    <3>1. v \in 1..Len(log)
      BY <1>1, <2>4, NextChangeFacts, VersionFacts DEF HandleObject, Versions
    <3>2. /\ position' = [position EXCEPT ![g] = v] /\ items' = [items EXCEPT ![g] = <<v>>]
          /\ pc' = [pc EXCEPT ![g] = "put"]
      BY <2>4 DEF HandleObject, Goto
    <3>3. <<v>> # <<>>
      OBVIOUS
    <3> HIDE DEF v
    <3> QED
      BY <1>1, <3>1, <3>2, <3>3 DEF InHand, NoWatch
  <2>5. CASE PutObject(g)
    <3>1. items[g] # <<>> /\ Len(items[g]) \in Nat
      BY <1>1, <2>5, LenProperties DEF PutObject, Enqueue, InHand
    <3>2. /\ Len(items[g]) <= 1 => Tail(items[g]) = <<>>
          /\ Len(items[g]) > 1 => Tail(items[g]) # <<>>
      BY <1>1, <3>1, HeadAndRest
    <3> QED
      BY <1>1, <2>5, <3>1, <3>2 DEF PutObject, Enqueue, Goto, InHand
  <2>6. CASE EndObjects(g)
    BY <1>1, <2>6 DEF EndObjects, Exit, Goto, InHand
  <2>7. CASE EndObjectWatch(g)
    BY <1>1, <2>7 DEF EndObjectWatch, WatchEnds, Goto, InHand
  <2> QED
    BY <1>3, <2>1, <2>2, <2>3, <2>4, <2>5, <2>6, <2>7 DEF ObjectGoes, ObjectFault
<1> QED
  BY <1>2, <1>3
  DEF ObjectStep, ObjectNext, ChangeObject, Compact, ReadObjects, Read, CloseObjects, Cancel

-----------------------------------------------------------------------------
(* The records show the state of the objects.                              *)

\* What a goroutine has been told stays so while others go on.
LEMMA ToldKept ==
    ASSUME ObjectTypeOK, Grew, NEW h \in Collector, Told(h),
           pc'[h] = pc[h], items'[h] = items[h], position'[h] = position[h], asked'[h] = asked[h],
           \A o \in Object : CollectorOf[o] = h => shown'[o] = shown[o]
    PROVE  Told(h)'
<1>1. /\ log \in Seq(Entry) /\ Len(log) \in Nat /\ Versions = 1..Len(log)
      /\ asked[h] \in Nat /\ asked[h] <= Len(log)
      /\ position[h] \in Int /\ position[h] <= Len(log)
  BY VersionFacts DEF ObjectTypeOK, ListWatchTypeOK, Entry, NoWatch, Versions
<1>2. Horizon(h)' = Horizon(h) /\ Horizon(h) \in Int /\ Horizon(h) <= Len(log)
  BY <1>1 DEF Horizon
<1> DEFINE n == Horizon(h)
<1> HIDE DEF n
<1>3. \A v \in Versions : log'[v] = log[v] /\ log[v].object \in Object
  BY <1>1, VersionFacts DEF Grew
<1>4. \A v \in Of(h) : v \in Of(h)' /\ v \in Versions /\ CollectorOf[log[v].object] = h
  BY <1>3 DEF Of, Grew
<1>5. ASSUME NEW v \in Of(h)', v <= n  PROVE v \in Of(h)
  BY <1>1, <1>2, <1>3, <1>5 DEF Of, Versions, n
<1>6. ASSUME NEW v \in Versions, v <= n  PROVE Superseded(v, n)' <=> Superseded(v, n)
  <2>1. n' = n /\ n \in Int /\ n <= Len(log)
    BY <1>2 DEF n
  <2>2. \A u \in v + 1..n : u \in Versions
    BY <1>1, <1>6, <2>1
  <2> QED
    BY <1>3, <1>6, <2>1, <2>2 DEF Superseded
<1>7. Current(h) => Current(h)'
  BY <1>2, <1>3, <1>4, <1>5, <1>6 DEF Current, n
<1>8. Newest(h) => Newest(h)'
  BY <1>2, <1>3, <1>4, <1>6 DEF Newest, n
<1> QED
  BY <1>2, <1>7, <1>8 DEF Told

\* A step of the goroutine itself, of any but PutObject, shows nothing.
LEMMA ToldByCalls ==
    ASSUME ObjectTypeOK, InHand, NEW g \in Collector, Told(g),
           ObjectGoes(g) \/ ObjectFault(g), ~PutObject(g)
    PROVE  Told(g)' /\ shown' = shown /\ log' = log
<1>1. /\ log \in Seq(Entry) /\ Len(log) \in Nat /\ Versions = 1..Len(log)
      /\ pc \in [Collector -> ObjectLabels] /\ items \in [Collector -> Seq(Versions)]
      /\ position \in [Collector -> NoWatch..Len(log)] /\ asked \in [Collector -> 0..Len(log)]
      /\ shown \in [Object -> 0..Len(log)]
  BY VersionFacts DEF ObjectTypeOK, ListWatchTypeOK, Entry, ObjectLabels, Versions
<1>2. log' = log /\ shown' = shown
  BY DEF ObjectGoes, ObjectFault, ListObjects, Snapshot, WatchObjects, Open, ObjectWatchExpires,
         WatchFails, ListAgain, HandleObject, EndObjects, Exit, EndObjectWatch, WatchEnds, api
<1>3. /\ Of(g)' = Of(g) /\ Of(g) \subseteq Versions /\ \A v \in Of(g) : v \in Nat \ {0}
      /\ \A v, n : Superseded(v, n)' = Superseded(v, n)
  BY <1>1, <1>2, VersionFacts DEF Of, Versions, Superseded
<1>4. CASE ListObjects(g)
  <2> DEFINE n == Len(log)
  <2>1. PICK order \in SetToSeqs(ListAt(g, n)) : items' = [items EXCEPT ![g] = order]
    BY <1>4 DEF ListObjects, Snapshot
  <2>2. /\ ToSet(order) = ListAt(g, n)
        /\ \A i, j \in DOMAIN order : order[i] = order[j] => i = j
        /\ \A i \in DOMAIN order : order[i] \in ListAt(g, n)
    BY <1>1, <2>1, ListOrderFacts DEF ToSet
  <2>3. /\ items'[g] = order /\ asked'[g] = n /\ position'[g] = NoWatch
        /\ pc'[g] \in {"put", "dial"}
    BY <1>1, <1>4, <2>1 DEF ListObjects, Snapshot, Goto, InHand
  <2>4. Horizon(g)' = n
    BY <2>3 DEF Horizon
  <2>5. Current(g)'
    BY <1>2, <1>3, <2>2, <2>3, <2>4 DEF Current, ListAt
  <2>6. Newest(g)'
    BY <1>2, <1>3, <2>2, <2>3, <2>4 DEF Newest, ListAt
  <2> QED
    BY <1>1, <1>2, <2>3, <2>4, <2>5, <2>6 DEF Told
<1>5. CASE WatchObjects(g)
  <2>1. /\ pc[g] = "dial" /\ pc'[g] = "consume" /\ position[g] = NoWatch /\ position'[g] = asked[g]
        /\ items[g] = <<>> /\ items'[g] = <<>> /\ asked'[g] = asked[g]
    BY <1>1, <1>5 DEF WatchObjects, Open, Goto, InHand
  <2>2. asked[g] # NoWatch
    BY <1>1 DEF NoWatch
  <2>3. Horizon(g) = asked[g] /\ Horizon(g)' = asked[g]
    BY <2>1, <2>2 DEF Horizon
  <2>4. Current(g)'
    BY <1>2, <1>3, <2>1, <2>3 DEF Told, Current
  <2>5. Newest(g)' /\ Len(items'[g]) <= 1
    BY <2>1 DEF Newest
  <2> QED
    BY <1>2, <2>1, <2>3, <2>4, <2>5 DEF Told
<1>6. CASE ObjectWatchExpires(g) \/ WatchFails(g)
  BY <1>1, <1>2, <1>6 DEF ObjectWatchExpires, WatchFails, ListAgain, Goto, Told
<1>7. CASE HandleObject(g)
  <2> DEFINE n == NextChange(g)
  <2>1. /\ pc[g] = "consume" /\ position[g] # NoWatch /\ position[g] \in Int /\ asked[g] \in Int
        /\ Horizon(g) = position[g] /\ items[g] = <<>> /\ ToSet(items[g]) = {}
    BY <1>1, <1>7, ToSetEmpty DEF HandleObject, InHand, Horizon, Told, NoWatch
  <2>2. /\ n \in Of(g) /\ n > position[g] /\ n \in Nat
        /\ \A v \in Of(g) : v < n => v <= position[g]
    <3>1. n \in Coming(g) /\ \A u \in Coming(g) : n <= u
      BY <1>1, <1>7, NextChangeFacts DEF HandleObject
    <3> HIDE DEF n
    <3> QED
      BY <1>3, <2>1, <3>1 DEF Coming
  <2>3. /\ position'[g] = n /\ items'[g] = <<n>> /\ pc'[g] = "put" /\ asked'[g] = asked[g]
    BY <1>1, <1>7 DEF HandleObject, Goto
  <2> HIDE DEF n
  <2>4. Horizon(g)' = n /\ ToSet(items'[g]) = {n}
    BY <2>2, <2>3, ToSetOne DEF Horizon, NoWatch
  <2>5. ASSUME NEW v \in Of(g), v < n, ~Superseded(v, n)
        PROVE  shown[log[v].object] = v \/ (log[v].type = "DELETED" /\ v <= asked[g])
    <3>1. v <= Horizon(g)
      BY <2>1, <2>2, <2>5
    <3>2. ~Superseded(v, Horizon(g))
      BY <1>3, <2>1, <2>2, <2>5 DEF Superseded
    <3> QED
      BY <2>1, <3>1, <3>2 DEF Told, Current
  <2>6. Current(g)'
    <3>1. \A v \in Of(g) : v <= n => v < n \/ v = n
      BY <1>3, <2>2
    <3> QED
      BY <1>2, <1>3, <2>3, <2>4, <2>5, <3>1 DEF Current
  <2>7. ~Superseded(n, n)
    BY <2>2 DEF Superseded
  <2>8. DOMAIN items'[g] = {1} /\ items'[g][1] = n /\ Len(items'[g]) = 1
    BY <2>3
  <2>9. Newest(g)'
    BY <1>3, <2>2, <2>4, <2>7, <2>8 DEF Newest
  <2>10. asked[g] <= n /\ \A o \in Object : CollectorOf[o] = g => shown[o] <= n
    BY <1>1, <2>1, <2>2 DEF Told
  <2> QED
    BY <1>2, <2>3, <2>4, <2>6, <2>8, <2>9, <2>10 DEF Told
<1>8. CASE EndObjects(g) \/ EndObjectWatch(g)
  BY <1>1, <1>2, <1>8 DEF EndObjects, Exit, EndObjectWatch, WatchEnds, Goto, Told
<1> QED
  BY <1>2, <1>4, <1>5, <1>6, <1>7, <1>8 DEF ObjectGoes, ObjectFault

\* PutObject shows the record in hand, and nothing older than what was shown.
LEMMA ToldByPut ==
    ASSUME ObjectTypeOK, InHand, ShowsItself, NEW g \in Collector, Told(g), PutObject(g)
    PROVE  /\ Told(g)' /\ ShowsItself' /\ log' = log
           /\ \A o \in Object : CollectorOf[o] # g => shown'[o] = shown[o]
           /\ \A o \in Object : shown'[o] >= shown[o]
<1> DEFINE h == Head(items[g])
<1> DEFINE H == Horizon(g)
<1>1. /\ log \in Seq(Entry) /\ Len(log) \in Nat /\ Versions = 1..Len(log)
      /\ pc \in [Collector -> ObjectLabels] /\ items \in [Collector -> Seq(Versions)]
      /\ position \in [Collector -> NoWatch..Len(log)] /\ asked \in [Collector -> 0..Len(log)]
      /\ shown \in [Object -> 0..Len(log)]
  BY VersionFacts DEF ObjectTypeOK, ListWatchTypeOK, Entry, ObjectLabels, Versions
<1>2. /\ pc[g] = "put" /\ items[g] # <<>> /\ items' = [items EXCEPT ![g] = Tail(@)]
      /\ pc'[g] \in {"consume", "put", "dial"} /\ (pc'[g] = "consume" => position[g] # NoWatch)
      /\ shown' = [shown EXCEPT ![log[h].object] = h]
      /\ UNCHANGED <<log, asked, position>>
  BY <1>1 DEF PutObject, Enqueue, Goto, Show, InHand
<1>3. /\ Of(g)' = Of(g) /\ Of(g) \subseteq Versions /\ \A v \in Of(g) : v \in Nat \ {0}
      /\ \A v, n : Superseded(v, n)' = Superseded(v, n)
      /\ Horizon(g)' = H
      /\ H \in Int
  BY <1>1, <1>2, VersionFacts DEF Of, Versions, Superseded, Horizon, NoWatch
<1>4. Current(g) /\ Newest(g) /\ asked[g] <= H /\ \A o \in Object : CollectorOf[o] = g => shown[o] <= H
  BY <1>2 DEF Told
<1>5. /\ Len(items[g]) \in Nat \ {0} /\ DOMAIN items[g] = 1..Len(items[g]) /\ h = items[g][1]
      /\ ToSet(items[g]) = {h} \cup ToSet(items'[g])
      /\ Len(items[g]) <= 1 => items'[g] = <<>>
  BY <1>1, <1>2, EmptySeq, LenProperties, HeadAndRest
<1>6. /\ items'[g] \in Seq(Versions) /\ Len(items'[g]) = Len(items[g]) - 1
      /\ \A i \in 1..Len(items'[g]) : items'[g][i] = items[g][i + 1]
  BY <1>1, <1>2, HeadTailProperties
<1>7. DOMAIN items'[g] = 1..Len(items[g]) - 1
  BY <1>6, LenProperties
<1> HIDE DEF h, H
<1>8. /\ h \in Of(g) /\ h <= H /\ ~Superseded(h, H)
      /\ h \in Nat \ {0} /\ log[h].object \in Object /\ CollectorOf[log[h].object] = g
  <2>1. h \in Of(g) /\ h <= H /\ ~Superseded(h, H)
    BY <1>4, <1>5 DEF Newest, H
  <2> QED
    BY <1>1, <1>3, <2>1, VersionFacts DEF Of
\* An object has one version at the horizon that no other supersedes.
<1>9. ASSUME NEW v \in Of(g), v <= H, ~Superseded(v, H), log[v].object = log[h].object
      PROVE  v = h
  <2>1. v \in Nat \ {0}
    BY <1>3, <1>9
  <2>2. v < h => h \in v + 1..H
    BY <1>3, <1>8, <2>1
  <2>3. h < v => v \in h + 1..H
    BY <1>3, <1>8, <1>9, <2>1
  <2>4. ~(v < h) /\ ~(h < v)
    BY <1>8, <1>9, <2>2, <2>3 DEF Superseded
  <2> QED
    BY <1>8, <2>1, <2>4
<1>10. shown[log[h].object] <= h
  <2> DEFINE old == shown[log[h].object]
  <2>1. old \in Nat /\ old <= H
    BY <1>1, <1>4, <1>8
  <2>2. old # 0 => log[old].object = log[h].object
    BY <1>8 DEF ShowsItself
  <2> QED
    BY <1>3, <1>8, <2>1, <2>2 DEF Superseded
<1>11. Current(g)'
  <2> SUFFICES ASSUME NEW v \in Of(g), v <= H, ~Superseded(v, H)
               PROVE  \/ v \in ToSet(items'[g])
                      \/ shown'[log[v].object] = v
                      \/ log[v].type = "DELETED" /\ v <= asked[g]
    BY <1>2, <1>3 DEF Current
  <2>1. CASE log[v].object = log[h].object
    BY <1>1, <1>2, <1>8, <1>9, <2>1
  <2>2. CASE log[v].object # log[h].object
    <3>1. \/ v \in ToSet(items[g])
          \/ shown[log[v].object] = v
          \/ log[v].type = "DELETED" /\ v <= asked[g]
      BY <1>4 DEF Current, H
    <3>2. log[v].object \in Object
      BY <1>1, <1>3, VersionFacts
    <3> QED
      BY <1>1, <1>2, <1>5, <2>2, <3>1, <3>2
  <2> QED
    BY <2>1, <2>2
<1>12. Newest(g)'
  <2> SUFFICES ASSUME NEW i \in 1..Len(items[g]) - 1
               PROVE  /\ items'[g][i] \in Of(g)
                      /\ items'[g][i] <= H
                      /\ ~Superseded(items'[g][i], H)
                      /\ \A j \in 1..Len(items[g]) - 1 : items'[g][i] = items'[g][j] => i = j
    BY <1>3, <1>7 DEF Newest
  <2>1. \A j \in 1..Len(items[g]) - 1 : items'[g][j] = items[g][j + 1] /\ j + 1 \in DOMAIN items[g]
    BY <1>5, <1>6
  <2>2. \A j \in 1..Len(items[g]) - 1 : items'[g][i] = items'[g][j] => i + 1 = j + 1
    BY <1>4, <2>1 DEF Newest
  <2> QED
    BY <1>4, <2>1, <2>2 DEF Newest, H
<1>13. \A o \in Object : shown'[o] = IF o = log[h].object THEN h ELSE shown[o]
  BY <1>1, <1>2, <1>8
<1>14. ShowsItself'
  BY <1>2, <1>13 DEF ShowsItself
<1>15. position[g] # NoWatch => Len(items'[g]) <= 1 /\ (pc'[g] = "consume" => items'[g] = <<>>)
  BY <1>2, <1>5, <1>6 DEF Told
<1>16. Told(g)'
  BY <1>2, <1>3, <1>4, <1>8, <1>11, <1>12, <1>13, <1>15 DEF Told
<1>17. \A o \in Object : shown'[o] >= shown[o]
  <2> SUFFICES ASSUME NEW o \in Object PROVE shown'[o] >= shown[o]
    OBVIOUS
  <2>1. shown[o] \in Nat
    BY <1>1
  <2>2. CASE o = log[h].object
    BY <1>8, <1>10, <1>13, <2>1, <2>2
  <2>3. CASE o # log[h].object
    BY <1>13, <2>1, <2>3
  <2> QED
    BY <2>2, <2>3
<1> QED
  BY <1>2, <1>8, <1>13, <1>14, <1>16, <1>17

LEMMA ObjectInvStep ==
    ASSUME ObjectTypeOK, InHand, ObjectInv, ObjectStep
    PROVE  ObjectInv' /\ \A o \in Object : shown'[o] >= shown[o]
<1>1. /\ log \in Seq(Entry) /\ Len(log) \in Nat /\ Versions = 1..Len(log)
      /\ pc \in [Collector -> ObjectLabels] /\ items \in [Collector -> Seq(Versions)]
      /\ position \in [Collector -> NoWatch..Len(log)] /\ asked \in [Collector -> 0..Len(log)]
      /\ shown \in [Object -> 0..Len(log)]
  BY VersionFacts DEF ObjectTypeOK, ListWatchTypeOK, Entry, ObjectLabels, Versions
<1>2. log' = log => Grew
  BY <1>1 DEF Grew, Versions
<1>3. Grew /\ shown' = shown => ShowsItself'
  <2>1. ASSUME Grew, shown' = shown, NEW o \in Object, shown[o] # 0
        PROVE  log'[shown[o]].object = o
    <3>1. shown[o] \in Versions /\ log[shown[o]].object = o
      BY <1>1, <2>1 DEF ObjectInv, ShowsItself
    <3> QED
      BY <2>1, <3>1 DEF Grew
  <2> QED
    BY <2>1 DEF ShowsItself
<1>4. ASSUME ((ChangeObject \/ Compact) /\ UNCHANGED shown) \/ ReadObjects \/ CloseObjects
      PROVE  Grew /\ UNCHANGED <<pc, items, position, asked, shown>>
  <2>1. CASE (ChangeObject \/ Compact) /\ UNCHANGED shown
    BY <2>1, ServerTyped DEF ObjectTypeOK, ChangeObject, Compact
  <2>2. CASE ReadObjects \/ CloseObjects
    BY <1>2, <2>2 DEF ReadObjects, Read, CloseObjects, Cancel
  <2> QED
    BY <1>4, <2>1, <2>2
<1>5. ASSUME Grew, UNCHANGED <<pc, items, position, asked, shown>>
      PROVE  ObjectInv' /\ \A o \in Object : shown'[o] >= shown[o]
  BY <1>1, <1>3, <1>5, ToldKept DEF ObjectInv
<1>6. ASSUME NEW g \in Collector, ObjectGoes(g) \/ ObjectFault(g)
      PROVE  ObjectInv' /\ \A o \in Object : shown'[o] >= shown[o]
  <2>1. /\ Told(g)' /\ ShowsItself' /\ log' = log
        /\ \A o \in Object : CollectorOf[o] # g => shown'[o] = shown[o]
        /\ \A o \in Object : shown'[o] >= shown[o]
    <3>1. CASE PutObject(g)
      BY <3>1, ToldByPut DEF ObjectInv
    <3>2. CASE ~PutObject(g)
      <4>1. Told(g)' /\ shown' = shown /\ log' = log
        BY <1>6, <3>2, ToldByCalls DEF ObjectInv
      <4> QED
        BY <1>1, <1>2, <1>3, <4>1
    <3> QED
      BY <3>1, <3>2
  <2>2. ASSUME NEW h \in Collector, h # g
        PROVE  /\ pc'[h] = pc[h] /\ items'[h] = items[h]
               /\ position'[h] = position[h] /\ asked'[h] = asked[h]
    BY <1>1, <1>6, <2>2
    DEF ObjectGoes, ObjectFault, ListObjects, Snapshot, WatchObjects, Open, ObjectWatchExpires, Goto,
        WatchFails, ListAgain, HandleObject, PutObject, Enqueue, EndObjects, Exit, EndObjectWatch, WatchEnds
  <2>3. ASSUME NEW h \in Collector  PROVE Told(h)'
    <3>1. CASE h = g
      BY <2>1, <3>1
    <3>2. CASE h # g
      BY <1>2, <2>1, <2>2, <3>2, ToldKept DEF ObjectInv
    <3> QED
      BY <3>1, <3>2
  <2> QED
    BY <2>1, <2>3 DEF ObjectInv
<1> QED
  BY <1>4, <1>5, <1>6 DEF ObjectStep, ObjectNext

-----------------------------------------------------------------------------
(* The input of either kind.                                               *)

LEMMA InitInv == Init => IInv
<1> SUFFICES ASSUME Init PROVE IInv
  OBVIOUS
<1> DEFINE e == [object |-> CHOOSE o \in Object : TRUE, type |-> "ADDED"]
<1>1. e \in Entry /\ log = <<e>>
  BY ListWatchAssumption DEF Init, EventInit, ServerInit, Entry, Types
<1> HIDE DEF e
<1>2. log \in Seq(Entry) /\ Len(log) = 1 /\ Versions = 1..1
  BY <1>1 DEF Versions
<1>3. /\ oldest = 0 /\ queue = <<>> /\ closed = FALSE /\ pc = Everyone("list")
      /\ asked = Everyone(0) /\ items = Everyone(<<>>) /\ position = Everyone(NoWatch)
      /\ last = 0 /\ read = 0 /\ saved = 0 /\ writer = Nobody /\ done = {} /\ restarts = 0
      /\ shown = [o \in Object |-> 0]
  BY DEF Init, EventInit, ObjectInit, ServerInit, Fresh
<1>4. /\ \A L : "list" \in L => pc \in [Collector -> L]
      /\ asked \in [Collector -> 0..Len(log)] /\ items \in [Collector -> Seq(Versions)]
      /\ position \in [Collector -> NoWatch..Len(log)]
  <2>1. \A L : "list" \in L => pc \in [Collector -> L]
    BY <1>3 DEF Everyone
  <2>2. /\ asked \in [Collector -> 0..Len(log)] /\ items \in [Collector -> Seq(Versions)]
        /\ position \in [Collector -> NoWatch..Len(log)]
    BY <1>2, <1>3, EmptySeq DEF Everyone, NoWatch
  <2> QED
    BY <2>1, <2>2
<1>5. queue \in Seq(Versions) /\ Len(queue) <= QueueSize /\ oldest \in 0..Len(log)
  BY <1>2, <1>3, EmptySeq, ListWatchAssumption
<1>6. \A L : "list" \in L => ListWatchTypeOK(L)
  BY <1>2, <1>3, <1>4, <1>5 DEF ListWatchTypeOK, Entry
<1>7. EventTypeOK
  BY <1>2, <1>3, <1>6, EventInputAssumption DEF EventTypeOK
<1>8. ObjectTypeOK
  BY <1>2, <1>3, <1>6 DEF ObjectTypeOK
<1>9. InHand
  BY <1>3 DEF InHand, Everyone
<1>10. ASSUME NEW g \in Collector PROVE Collected(g) /\ Told(g)
  <2>1. pc[g] = "list" /\ position[g] = NoWatch /\ writer # g
    BY <1>3, EventInputAssumption DEF Everyone
  <2>2. Accounted(g, position[g])
    BY <1>2, <2>1 DEF Accounted, NoWatch, Of
  <2> QED
    BY <2>1, <2>2 DEF Collected, Told
<1>11. ShowsItself
  BY <1>3 DEF ShowsItself
<1>12. kind \in Kinds /\ faults \in 0..MaxFaults
  BY KubeInputAssumption DEF Init
<1> QED
  BY <1>7, <1>8, <1>9, <1>10, <1>11, <1>12 DEF IInv, TypeOK, EventInv, ObjectInv

\* A step is one of the input's kind, and leaves the other kind's variables alone.
LEMMA StepByKind ==
    ASSUME TypeOK, [Next]_vars
    PROVE  /\ kind' = kind /\ faults' \in 0..MaxFaults
           /\ \/ UNCHANGED <<common, own, shown>>
              \/ Event /\ EventStep /\ shown' = shown
              \/ State /\ ObjectStep
<1>1. CASE UNCHANGED vars
  BY <1>1 DEF vars, eventVars, TypeOK
<1>2. CASE AsEvent(EventNext)
  BY <1>2 DEF AsEvent, EventStep, TypeOK
<1>3. CASE AsState(ObjectNext)
  BY <1>3 DEF AsState, ObjectStep, TypeOK
<1>4. CASE Fault
  BY <1>4, KubeInputAssumption DEF Fault, EventStep, ObjectStep, TypeOK
<1> QED
  BY <1>1, <1>2, <1>3, <1>4 DEF Next

LEMMA InvStep == IInv /\ [Next]_vars => IInv'
<1> SUFFICES ASSUME IInv, [Next]_vars PROVE IInv'
  OBVIOUS
<1>1. kind' = kind /\ faults' \in 0..MaxFaults /\ kind \in Kinds
  BY StepByKind DEF IInv, TypeOK
<1>2. CASE UNCHANGED <<common, own, shown>>
  <2>1. EventTypeOK' = EventTypeOK /\ ObjectTypeOK' = ObjectTypeOK
    BY <1>2 DEF EventTypeOK, ObjectTypeOK, ListWatchTypeOK, Versions, common, own
  <2>2. InHand' = InHand
    BY <1>2 DEF InHand, common
  <2>3. EventInv' = EventInv
    BY <1>2 DEF EventInv, Collected, Accounted, Of, Versions, common, own
  <2>4. ObjectInv' = ObjectInv
    BY <1>2 DEF ObjectInv, ShowsItself, Told, Horizon, Current, Newest, Superseded, Of, Versions, common
  <2> QED
    BY <1>1, <2>1, <2>2, <2>3, <2>4 DEF IInv, TypeOK, Event, State
<1>3. CASE Event /\ EventStep
  BY <1>1, <1>3, EventTypeStep, EventHandStep, EventInvStep DEF IInv, TypeOK, Event, State, Kinds
<1>4. CASE State /\ ObjectStep
  BY <1>1, <1>4, ObjectTypeStep, ObjectHandStep, ObjectInvStep DEF IInv, TypeOK, Event, State, Kinds
<1> QED
  BY <1>2, <1>3, <1>4, StepByKind DEF IInv

\* The inductive invariant: what a goroutine has gone past is in the queue, in its hands,
\* or left out where the code says so (listNamespace, watchNamespace, consumeWatch,
\* startPodCollectors, handleObject).
THEOREM Invariant == Spec => []IInv
<1>1. Init => IInv
  BY InitInv
<1>2. IInv /\ [Next]_vars => IInv'
  BY InvStep
<1> QED
  BY <1>1, <1>2, PTL DEF Spec

\* Every state of either input is well typed (NewK8sEventInput, NewK8sObjectStateInput and
\* their goroutines).
THEOREM TypeCorrect == Spec => []TypeOK
<1>1. IInv => TypeOK
  BY DEF IInv
<1> QED
  BY <1>1, Invariant, PTL

\* An event input goes past no event without putting it into the queue, but for the gaps
\* that NoEventIsMissed names (listNamespace, watchNamespace, consumeWatch).
THEOREM NoneMissed == Spec => []NoEventMissed
<1>1. IInv => NoEventMissed
  BY DEF IInv, NoEventMissed, NoEventIsMissed, EventInv, Collected, Accounted
<1> QED
  BY <1>1, Invariant, PTL

\* When an object state input has nothing more to put, its last records show the state of
\* the objects (startPodCollectors, handleObject).
THEOREM TruthShown == Spec => []ShowsTheState
<1>1. IInv => ShowsTheState
  <2> SUFFICES ASSUME IInv, State, NEW g \in Collector, NEW v \in Of(g),
                      pc[g] = "consume", v <= position[g], ~Superseded(v, position[g])
               PROVE  shown[log[v].object] = v \/ (log[v].type = "DELETED" /\ v <= asked[g])
    BY DEF ShowsTheState, RecordsShowTheState
  <2>1. Told(g) /\ Horizon(g) = position[g]
    BY DEF IInv, ObjectInv, InHand, Horizon
  <2> QED
    BY <2>1, ToSetEmpty DEF Told, Current
<1> QED
  BY <1>1, Invariant, PTL

\* A record never shows an older state of its object than the record before (the List
\* without a version, startPodCollectors).
THEOREM OnlyForward == Spec => NeverBackwards
<1> DEFINE Forward == \A o \in Object : shown'[o] >= shown[o]
<1>1. IInv /\ [Next]_vars => [Forward]_shown
  <2> SUFFICES ASSUME IInv, [Next]_vars PROVE [Forward]_shown
    OBVIOUS
  <2>1. CASE State /\ ObjectStep
    BY <2>1, ObjectInvStep DEF IInv, TypeOK
  <2> QED
    BY <2>1, StepByKind DEF IInv
<1>2. Spec => [][Forward]_shown
  BY <1>1, Invariant, PTL DEF Spec
<1> QED
  BY <1>2 DEF NeverBackwards
=============================================================================
