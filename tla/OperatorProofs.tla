--------------------------- MODULE OperatorProofs ---------------------------
(***************************************************************************)
(* Proofs about Operator, for any number of LogPilots, specifications,     *)
(* certificates and deleted objects.                                       *)
(*                                                                         *)
(* Reconcile acts on a copy of the LogPilot that may be old.  What makes   *)
(* this safe: a copy is never ahead of the LogPilot (Copies); a copy with  *)
(* the finalizer that is not deleted means the LogPilot is still there,    *)
(* with its finalizer (Owned); and who cleans up a LogPilot that is still  *)
(* what was read has nothing older left in the cache (Caught).             *)
(***************************************************************************)
EXTENDS Operator, TLAPS

\* A copy is one of a LogPilot that was created, and not ahead of it.
Behind(copy) ==
    copy # Absent =>
        /\ copy.uid <= uids
        /\ lp # Absent /\ lp.uid = copy.uid =>
               copy.spec <= lp.spec /\ (copy.deleting => lp.deleting)

Copies == Behind(cached) /\ Behind(view) /\ (lp # Absent => lp.uid <= uids)

HasFinalizer(copy) == copy # Absent /\ copy.finalizer
Wanted(copy) == HasFinalizer(copy) /\ ~copy.deleting

\* While a copy shows the finalizer and no deletion, or Reconcile applies objects, the
\* LogPilot has its finalizer.
Owned == Wanted(cached) \/ pc \in {"read", "write"} => HasFinalizer(lp)

\* What Reconcile does follows from the copy it has read.
Chosen ==
    /\ pc = "adopt" => ~view.deleting
    /\ pc \in {"cleanup", "release"} => view.deleting /\ view.finalizer

\* If cleanup is about the newest version, the cache shows that version.
Caught == pc \in {"cleanup", "release"} /\ lp = view => cached = view

\* The objects that cleanup has passed are gone.
Cleaned ==
    /\ pc = "idle" => at = 1
    /\ pc = "cleanup" => \A i \in 1..at - 1 : objects[Order[i]] = Absent
    /\ pc = "release" => \A o \in Managed : objects[o] = Absent

\* No object has a certificate authority that was not issued.
Issued == \A o \in Managed : objects[o] # Absent => objects[o].ca <= certs

IInv ==
    /\ TypeOK /\ Copies /\ Owned /\ Chosen /\ Caught /\ Cleaned /\ Issued
    /\ NothingLeft

-----------------------------------------------------------------------------

\* The objects Reconcile and cleanupLogPilot go through.
LEMMA OrderFacts ==
    /\ Len(Order) = 3
    /\ Managed = {"support", "webhook", "workload"}
    /\ \A i \in 1..3 : Order[i] \in Managed
    /\ \A o \in Managed : \E i \in 1..3 : o = Order[i]
<1>1. Len(Order) = 3
  BY DEF Order
<1>2. Order[1] = "support" /\ Order[2] = "webhook" /\ Order[3] = "workload"
  BY DEF Order
<1>3. 1..3 = {1, 2, 3}
  OBVIOUS
<1>4. Managed = {Order[1], Order[2], Order[3]}
  BY <1>1, <1>3 DEF Managed
<1> QED
  BY <1>1, <1>2, <1>3, <1>4

\* The worker without a key.
LEMMA IdleTyped ==
    ASSUME Idle
    PROVE  /\ pc' = "idle" /\ view' = Absent
           /\ at' \in 1..Len(Order) /\ held' \in Objects \cup {Absent}
BY OrderFacts DEF Idle

\* What a Reconcile writes is an object (preserveImmutableAndRuntimeFields).
LEMMA DesiredTyped ==
    ASSUME TypeOK, pc = "write"
    PROVE  Desired \in Objects
BY OperatorAssumption DEF TypeOK, Desired, Objects, LogPilot

\* An update of the LogPilot leaves one, or none (AddFinalizer, RemoveFinalizer).
LEMMA UpdateTyped ==
    ASSUME TypeOK, NEW new \in LogPilot, Update(new)
    PROVE  lp' \in LogPilot \cup {Absent}
BY DEF Update

\* The worker goes to the next object, or is done (Reconcile).
LEMMA FollowingTyped ==
    ASSUME TypeOK, pc = "write", Following
    PROVE  /\ pc' \in {"read", "idle"}
           /\ view' \in LogPilot \cup {Absent} /\ (pc' # "idle" => view' # Absent)
           /\ at' \in 1..Len(Order) /\ held' \in Objects \cup {Absent}
<1>1. CASE at < Len(Order)
  BY <1>1, OrderFacts DEF Following, TypeOK
<1>2. CASE ~(at < Len(Order))
  BY <1>2, IdleTyped DEF Following, TypeOK
<1> QED
  BY <1>1, <1>2

\* An edit gives the LogPilot another specification, and nothing else.
LEMMA EditKeeps ==
    ASSUME TypeOK, EditLogPilot
    PROVE  /\ lp \in LogPilot
           /\ lp' \in LogPilot
           /\ lp'.uid = lp.uid
           /\ lp'.finalizer = lp.finalizer
           /\ lp'.deleting = lp.deleting
           /\ lp'.spec = lp.spec + 1
BY OperatorAssumption DEF TypeOK, EditLogPilot, LogPilot

\* Every step leaves the state of its type.
LEMMA TypeStep ==
    ASSUME TypeOK, [Next]_vars
    PROVE  TypeOK'
<1> USE OperatorAssumption DEF TypeOK
<1>1. CASE CreateLogPilot
  BY <1>1 DEF CreateLogPilot, worker, LogPilot
<1>2. CASE EditLogPilot
  <2>1. lp' \in LogPilot
    BY <1>2 DEF EditLogPilot, LogPilot
  <2> QED
    BY <1>2, <2>1 DEF EditLogPilot, worker
<1>3. CASE DeleteLogPilot
  <2>1. lp' \in LogPilot \cup {Absent}
    BY <1>3 DEF DeleteLogPilot, LogPilot
  <2> QED
    BY <1>3, <2>1 DEF DeleteLogPilot, worker
<1>4. CASE IssueCert
  <2>1. objects' \in [Managed -> Objects \cup {Absent}] /\ certs' \in 0..MaxCerts
    BY <1>4, OrderFacts DEF IssueCert, Objects
  <2> QED
    BY <1>4, <2>1 DEF IssueCert, worker
<1>5. ASSUME NEW o \in Managed, Damage(o)
      PROVE  TypeOK'
  BY <1>5 DEF Damage, worker
<1>6. CASE CacheSync \/ Resync
  BY <1>6 DEF CacheSync, Resync, server, worker
<1>7. CASE Begin
  <2>1. CASE cached = Absent \/ (cached.deleting /\ ~cached.finalizer)
    BY <1>7, <2>1 DEF Begin, server, worker
  <2>2. CASE ~(cached = Absent \/ (cached.deleting /\ ~cached.finalizer))
    <3>1. view' = cached /\ pc' \in {"cleanup", "adopt", "read"}
      BY <1>7, <2>2 DEF Begin, LogPilot
    <3> QED
      BY <1>7, <2>2, <3>1 DEF Begin, server
  <2> QED
    BY <2>1, <2>2
<1>8. CASE Adopt
  <2>1. [view EXCEPT !.finalizer = TRUE] \in LogPilot
    BY <1>8 DEF Adopt, LogPilot
  <2> QED
    BY <1>8, <2>1, UpdateTyped, IdleTyped DEF Adopt
<1>9. CASE Read
  BY <1>9, OrderFacts DEF Read, server
<1>10. CASE Write
  <2>1. objects' \in [Managed -> Objects \cup {Absent}]
    BY <1>10, DesiredTyped DEF Write
  <2>2. Following /\ pc = "write"
    BY <1>10 DEF Write
  <2> QED
    BY <1>10, <2>1, <2>2, FollowingTyped DEF Write
<1>11. CASE Cleanup
  <2>1. at' \in 1..Len(Order) /\ pc' \in {"cleanup", "release"}
    BY <1>11, OrderFacts DEF Cleanup, CleanNext
  <2> QED
    BY <1>11, <2>1 DEF Cleanup
<1>12. CASE Release
  <2>1. [view EXCEPT !.finalizer = FALSE] \in LogPilot
    BY <1>12 DEF Release, LogPilot
  <2> QED
    BY <1>12, <2>1, UpdateTyped, IdleTyped DEF Release
<1>13. CASE Fail \/ Restart
  BY <1>13, IdleTyped DEF Fail, Restart, server
<1>14. CASE UNCHANGED vars
  BY <1>14 DEF vars, server, worker
<1> QED
  BY <1>1, <1>2, <1>3, <1>4, <1>5, <1>6, <1>7, <1>8, <1>9, <1>10, <1>11, <1>12, <1>13, <1>14
     DEF Next, Step

-----------------------------------------------------------------------------

\* Copies stay behind the LogPilot (the cache, Reconcile's Get, the users' edits).
LEMMA CopiesStep ==
    ASSUME TypeOK, TypeOK', Copies, Chosen, [Next]_vars
    PROVE  Copies'
<1> USE OperatorAssumption DEF TypeOK, LogPilot, Copies, Behind
<1>1. CASE CreateLogPilot
  BY <1>1 DEF CreateLogPilot, worker
<1>2. CASE EditLogPilot
  BY <1>2 DEF EditLogPilot, worker
<1>3. CASE DeleteLogPilot
  BY <1>3 DEF DeleteLogPilot, worker
<1>4. CASE IssueCert \/ (\E o \in Managed : Damage(o)) \/ Resync \/ Read
  BY <1>4 DEF IssueCert, Damage, Resync, Read, server, worker
<1>5. CASE CacheSync
  BY <1>5 DEF CacheSync, server, worker
<1>6. CASE Begin
  BY <1>6 DEF Begin, server, worker
<1>7. CASE Adopt
  BY <1>7 DEF Adopt, Update, Idle, Chosen
<1>8. CASE Write
  BY <1>8 DEF Write, Following, Idle
<1>9. CASE Cleanup
  BY <1>9 DEF Cleanup
<1>10. CASE Release
  BY <1>10 DEF Release, Update, Idle, Chosen
<1>11. CASE Fail \/ Restart
  BY <1>11 DEF Fail, Restart, Idle, server
<1>12. CASE UNCHANGED vars
  BY <1>12 DEF vars, server, worker
<1> QED
  BY <1>1, <1>2, <1>3, <1>4, <1>5, <1>6, <1>7, <1>8, <1>9, <1>10, <1>11, <1>12
     DEF Next, Step

\* The finalizer stays as long as anything goes by it (the finalizer is removed behind the
\* cleanup only, by the one worker).
LEMMA OwnedStep ==
    ASSUME TypeOK, TypeOK', Owned, Chosen, Caught, [Next]_vars
    PROVE  Owned'
<1> USE OperatorAssumption DEF TypeOK, LogPilot, Owned, Wanted, HasFinalizer
<1>1. CASE CreateLogPilot
  BY <1>1 DEF CreateLogPilot, worker
<1>2. CASE EditLogPilot
  <2>1. HasFinalizer(lp) => HasFinalizer(lp')
    BY <1>2, EditKeeps
  <2> QED
    BY <1>2, <2>1 DEF EditLogPilot, worker
<1>3. CASE DeleteLogPilot
  BY <1>3 DEF DeleteLogPilot, worker
<1>4. CASE IssueCert \/ (\E o \in Managed : Damage(o)) \/ Resync \/ Read
  BY <1>4 DEF IssueCert, Damage, Resync, Read, server, worker
<1>5. CASE CacheSync
  BY <1>5 DEF CacheSync, server, worker
<1>6. CASE Begin
  <2>1. CASE Wanted(cached)
    BY <1>6, <2>1 DEF Begin, server
  <2>2. CASE ~Wanted(cached)
    <3>1. pc' \notin {"read", "write"}
      BY <1>6, <2>2 DEF Begin, worker
    <3> QED
      BY <1>6, <2>2, <3>1 DEF Begin, server
  <2> QED
    BY <2>1, <2>2
<1>7. CASE Adopt
  BY <1>7 DEF Adopt, Update, Idle, Chosen
<1>8. CASE Write
  BY <1>8 DEF Write, Following, Idle
<1>9. CASE Cleanup
  BY <1>9 DEF Cleanup, CleanNext
<1>10. CASE Release
  BY <1>10 DEF Release, Update, Idle, Chosen, Caught
<1>11. CASE Fail \/ Restart
  BY <1>11 DEF Fail, Restart, Idle, server
<1>12. CASE UNCHANGED vars
  BY <1>12 DEF vars, server, worker
<1> QED
  BY <1>1, <1>2, <1>3, <1>4, <1>5, <1>6, <1>7, <1>8, <1>9, <1>10, <1>11, <1>12
     DEF Next, Step

\* What is done with a copy follows from it, and the cache is no older (Reconcile's
\* branches).
LEMMA ChosenStep ==
    ASSUME TypeOK, Copies, Chosen, Caught, [Next]_vars
    PROVE  Chosen' /\ Caught'
<1> USE OperatorAssumption DEF TypeOK, LogPilot, Chosen, Caught
<1>1. CASE CreateLogPilot
  BY <1>1 DEF CreateLogPilot, worker
<1>2. CASE EditLogPilot
  BY <1>2 DEF EditLogPilot, worker, Copies, Behind
<1>3. CASE DeleteLogPilot
  BY <1>3 DEF DeleteLogPilot, worker, Copies, Behind
<1>4. CASE IssueCert \/ (\E o \in Managed : Damage(o)) \/ Resync \/ Read
  BY <1>4 DEF IssueCert, Damage, Resync, Read, server, worker
<1>5. CASE CacheSync
  BY <1>5 DEF CacheSync, server, worker
<1>6. CASE Begin
  <2>1. CASE cached = Absent \/ (cached.deleting /\ ~cached.finalizer)
    BY <1>6, <2>1 DEF Begin, server, worker
  <2>2. CASE ~(cached = Absent \/ (cached.deleting /\ ~cached.finalizer))
    BY <1>6, <2>2 DEF Begin, server
  <2> QED
    BY <2>1, <2>2
<1>7. CASE Adopt
  BY <1>7 DEF Adopt, Idle
<1>8. CASE Write
  BY <1>8 DEF Write, Following, Idle
<1>9. CASE Cleanup
  BY <1>9 DEF Cleanup, CleanNext
<1>10. CASE Release
  BY <1>10 DEF Release, Idle
<1>11. CASE Fail \/ Restart
  BY <1>11 DEF Fail, Restart, Idle, server
<1>12. CASE UNCHANGED vars
  BY <1>12 DEF vars, server, worker
<1> QED
  BY <1>1, <1>2, <1>3, <1>4, <1>5, <1>6, <1>7, <1>8, <1>9, <1>10, <1>11, <1>12
     DEF Next, Step

\* What cleanup has passed stays gone: nobody but the one worker creates objects
\* (cleanupLogPilot).
LEMMA CleanedStep ==
    ASSUME TypeOK, Cleaned, [Next]_vars
    PROVE  Cleaned'
<1> USE DEF TypeOK, Cleaned
<1>1. CASE CreateLogPilot \/ EditLogPilot \/ DeleteLogPilot \/ CacheSync \/ Resync \/ Read
  BY <1>1 DEF CreateLogPilot, EditLogPilot, DeleteLogPilot, CacheSync, Resync, Read,
              server, worker
<1>2. CASE IssueCert
  BY <1>2, OrderFacts DEF IssueCert, worker
<1>3. ASSUME NEW o \in Managed, Damage(o)
      PROVE  Cleaned'
  BY <1>3, OrderFacts DEF Damage, worker
<1>4. CASE Begin
  <2>1. CASE UNCHANGED worker
    BY <1>4, <2>1 DEF Begin, server, worker
  <2>2. CASE ~UNCHANGED worker
    <3>1. pc' # "release"
      BY <1>4, <2>2 DEF Begin
    <3>2. pc = "idle" /\ UNCHANGED <<objects, at>>
      BY <1>4, <2>2 DEF Begin, server
    <3> QED
      BY <3>1, <3>2
  <2> QED
    BY <2>1, <2>2
<1>5. CASE Adopt \/ Release \/ Fail \/ Restart
  BY <1>5 DEF Adopt, Release, Fail, Restart, Idle
<1>6. CASE Write
  BY <1>6 DEF Write, Following, Idle
<1>7. CASE Cleanup
  <2>1. \A i \in 1..at : objects'[Order[i]] = Absent
    BY <1>7, OrderFacts DEF Cleanup
  <2>2. CASE at < Len(Order)
    BY <1>7, <2>1, <2>2, OrderFacts DEF Cleanup, CleanNext
  <2>3. CASE ~(at < Len(Order))
    BY <1>7, <2>1, <2>3, OrderFacts DEF Cleanup, CleanNext
  <2> QED
    BY <2>2, <2>3
<1>8. CASE UNCHANGED vars
  BY <1>8 DEF vars, server, worker
<1> QED
  BY <1>1, <1>2, <1>3, <1>4, <1>5, <1>6, <1>7, <1>8 DEF Next, Step

\* A certificate authority comes from its issuer, or from the object it is already in
\* (preserveImmutableAndRuntimeFields).
LEMMA IssuedStep ==
    ASSUME TypeOK, Issued, [Next]_vars
    PROVE  Issued'
<1> USE OperatorAssumption DEF TypeOK, Issued, Objects
<1>1. CASE IssueCert
  BY <1>1, OrderFacts DEF IssueCert
<1>2. ASSUME NEW o \in Managed, Damage(o)
      PROVE  Issued'
  BY <1>2 DEF Damage
<1>3. CASE Write
  <2>1. Order[at] \in Managed /\ held = objects[Order[at]]
    BY <1>3, OrderFacts DEF Write
  <2>2. Desired.ca <= certs
    BY <2>1 DEF Desired
  <2> QED
    BY <1>3, <2>2 DEF Write
<1>4. CASE Cleanup
  BY <1>4 DEF Cleanup
<1>5. CASE UNCHANGED <<objects, certs>>
  BY <1>5
<1> QED
  BY <1>1, <1>2, <1>3, <1>4, <1>5
     DEF Next, Step, CreateLogPilot, EditLogPilot, DeleteLogPilot, CacheSync, Resync, Begin,
         Adopt, Read, Release, Fail, Restart, server, vars

\* An object never outlives its LogPilot.
LEMMA NothingLeftStep ==
    ASSUME TypeOK, TypeOK', Owned, Chosen, Cleaned, NothingLeft, [Next]_vars
    PROVE  NothingLeft'
<1> USE OperatorAssumption DEF TypeOK, NothingLeft, LogPilot
<1>1. CASE CreateLogPilot
  BY <1>1 DEF CreateLogPilot
<1>2. CASE EditLogPilot
  BY <1>2, EditKeeps DEF EditLogPilot
<1>3. CASE DeleteLogPilot
  BY <1>3 DEF DeleteLogPilot
<1>4. CASE IssueCert
  BY <1>4, OrderFacts DEF IssueCert
<1>5. ASSUME NEW o \in Managed, Damage(o)
      PROVE  NothingLeft'
  BY <1>5 DEF Damage
<1>6. CASE Adopt
  BY <1>6 DEF Adopt, Update, Chosen
<1>7. CASE Write
  BY <1>7 DEF Write, Owned, HasFinalizer
<1>8. CASE Cleanup
  BY <1>8 DEF Cleanup
<1>9. CASE Release
  BY <1>9 DEF Release, Cleaned
<1>10. CASE UNCHANGED <<objects, lp>>
  BY <1>10
<1> QED
  BY <1>1, <1>2, <1>3, <1>4, <1>5, <1>6, <1>7, <1>8, <1>9, <1>10
     DEF Next, Step, CacheSync, Resync, Begin, Read, Fail, Restart, server, vars

-----------------------------------------------------------------------------

\* The inductive invariant holds in every state of the system.
THEOREM Invariant == Spec => []IInv
<1>1. Init => IInv
  <2> SUFFICES ASSUME Init
               PROVE  IInv
    OBVIOUS
  <2> USE OperatorAssumption DEF Init
  <2>1. TypeOK
    <3>1. at \in 1..Len(Order)
      BY OrderFacts
    <3>2. dirty \in BOOLEAN
      BY Zenon
    <3>3. uids \in 0..MaxLogPilots /\ certs \in 0..MaxCerts /\ damage \in 0..MaxDamage
      BY SMT
    <3>4. objects \in [Managed -> Objects \cup {Absent}]
      BY Zenon
    <3> QED
      BY <3>1, <3>2, <3>3, <3>4, Zenon DEF TypeOK
  <2>2. Copies /\ Owned /\ Chosen /\ Caught /\ Cleaned
    BY DEF Copies, Behind, Owned, Wanted, HasFinalizer, Chosen, Caught, Cleaned
  <2>3. Issued /\ NothingLeft
    BY DEF Issued, NothingLeft
  <2> QED
    BY <2>1, <2>2, <2>3 DEF IInv
<1>2. IInv /\ [Next]_vars => IInv'
  BY TypeStep, CopiesStep, OwnedStep, ChosenStep, CleanedStep, IssuedStep, NothingLeftStep
     DEF IInv
<1> QED
  BY <1>1, <1>2, PTL DEF Spec

\* Every variable keeps its type: of the API server, the cache and the worker.
THEOREM TypeCorrect == Spec => []TypeOK
<1>1. IInv => TypeOK
  BY DEF IInv
<1> QED
  BY <1>1, Invariant, PTL

\* No object is left without a LogPilot that has the finalizer, however old the copy that
\* Reconcile acts on and wherever it fails (Reconcile, cleanupLogPilot).
THEOREM NoOrphans == Spec => []NothingLeft
<1>1. IInv => NothingLeft
  BY DEF IInv
<1> QED
  BY <1>1, Invariant, PTL

\* The operator never takes the webhook's certificate authority away, or puts an older one
\* in its place (reconcileObject, preserveImmutableAndRuntimeFields).
THEOREM CertificateKept == Spec => CertKept
<1> DEFINE Kept ==
        \/ objects["webhook"] = Absent \/ objects'["webhook"] = Absent
        \/ objects'["webhook"].ca >= objects["webhook"].ca
<1>1. IInv /\ [Next]_vars => [Kept]_vars
  <2> SUFFICES ASSUME IInv, Next
               PROVE  Kept
    OBVIOUS
  <2> USE OperatorAssumption, OrderFacts DEF IInv, TypeOK, Objects
  <2>1. CASE IssueCert
    BY <2>1 DEF IssueCert, Issued
  <2>2. ASSUME NEW o \in Managed, Damage(o)
        PROVE  Kept
    BY <2>2 DEF Damage
  <2>3. CASE Write
    <3>1. CASE objects["webhook"] = Absent
      BY <3>1
    <3>2. CASE objects["webhook"] # Absent /\ Order[at] = "webhook"
      <4>1. held = objects["webhook"] /\ objects'["webhook"] = Desired
        BY <2>3, <3>2 DEF Write
      <4> QED
        BY <3>2, <4>1 DEF Desired
    <3>3. CASE Order[at] # "webhook"
      BY <2>3, <3>3 DEF Write
    <3> QED
      BY <3>1, <3>2, <3>3
  <2>4. CASE Cleanup
    BY <2>4 DEF Cleanup
  <2>5. CASE UNCHANGED objects
    BY <2>5
  <2> QED
    BY <2>1, <2>2, <2>3, <2>4, <2>5
       DEF Next, Step, CreateLogPilot, EditLogPilot, DeleteLogPilot, CacheSync, Resync, Begin,
           Adopt, Read, Release, Fail, Restart, server
<1> QED
  BY <1>1, Invariant, PTL DEF Spec, CertKept
=============================================================================
