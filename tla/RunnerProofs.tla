---------------------------- MODULE RunnerProofs ----------------------------
(***************************************************************************)
(* Proofs about Runner, for every number of records, batch length, number  *)
(* of restarts and Clean strategy.                                         *)
(*                                                                         *)
(* The inductive invariant IInv says where each record up to the read      *)
(* position is: settled, given up, wiped, or in the batch in hand, and     *)
(* that a batch is in hand only where Run holds one.  SavedIsAccounted     *)
(* alone is not inductive: what Commit and Close persist is the read       *)
(* position, so the invariant has to speak about the read position.        *)
(***************************************************************************)
EXTENDS Runner, FiniteSetTheorems, TLAPS

Accounted == Settled \cup gaveUp \cup drainCut \cup wiped

\* The positions are ordered; the offset never runs ahead of the reader.
Positions ==
    /\ saved <= pos
    /\ pos <= appended
    /\ removed <= appended

\* A batch is in hand only between ReadBatch and the end of Commit or GiveUp,
\* and it lies between the durable offset and the read position.
Batch ==
    /\ hand \subseteq 1..pos
    /\ hand \cap (1..saved) = {}
    /\ hand # {} => pc \in {"transform", "write", "backoff", "commit", "down"}
    /\ pc = "commit" => hand \subseteq delivered

\* Every record that was read, and every one that was deleted, is accounted for.
Ledger ==
    /\ 1..pos \subseteq Accounted \cup hand
    /\ 1..removed \subseteq Settled \cup wiped

\* A drain that gave something up is over, and knows it.
Drain ==
    /\ drainCut # {} => pc \in {"close", "clean", "done", "down"}
    /\ drained => drainCut = {}

IInv == TypeOK /\ Positions /\ Batch /\ Ledger /\ Drain

-----------------------------------------------------------------------------

\* A subset of the records has a cardinality.
LEMMA RecordSetsFinite ==
    ASSUME NEW S \in SUBSET Record
    PROVE  IsFiniteSet(S) /\ Cardinality(S) \in Nat
<1>1. IsFiniteSet(Record)
    BY RunnerAssumption, FS_Interval DEF Record
<1>2. IsFiniteSet(S)
    BY <1>1, FS_Subset
<1> QED
    BY <1>2, FS_CardinalityType

\* The state starts, and stays, of its type (every variable of the pipeline).
THEOREM TypeCorrect == Spec => []TypeOK
<1> USE RunnerAssumption DEF TypeOK, PCs, Record
<1>1. Init => TypeOK
  <2>1. 0 \in 0..MaxRecords /\ 0 \in 0..MaxRestarts /\ 0 \in Nat
    OBVIOUS
  <2> QED
    BY <2>1, Zenon DEF Init
<1>2. TypeOK /\ [Next]_vars => TypeOK'
  <2> SUFFICES ASSUME TypeOK, [Next]_vars
               PROVE  TypeOK'
    OBVIOUS
  <2> USE DEF Goto, BeginDrain, EndDrain, NextBatch, source, control, ledger
  <2>1. CASE Run
    BY <2>1 DEF Run
  <2>2. CASE CheckLoop
    BY <2>2 DEF CheckLoop
  <2>3. CASE ReadRecords
    BY <2>3 DEF ReadRecords
  <2>4. CASE ReadNothing
    BY <2>4 DEF ReadNothing
  <2>5. CASE ReadFails
    BY <2>5 DEF ReadFails
  <2>6. CASE Idle
    BY <2>6 DEF Idle
  <2>7. CASE ApplyTransforms
    BY <2>7 DEF ApplyTransforms
  <2>8. CASE WriteOk
    BY <2>8 DEF WriteOk
  <2>9. CASE WriteFails
    BY <2>9 DEF WriteFails
  <2>10. CASE Retry
    BY <2>10 DEF Retry
  <2>11. CASE GiveUp
    BY <2>11 DEF GiveUp
  <2>12. CASE Commit
    <3>1. Cardinality(hand) \in Nat
      BY RecordSetsFinite
    <3> QED
      BY <2>12, <3>1 DEF Commit, Persist
  <2>13. CASE CloseInput
    BY <2>13 DEF CloseInput, Persist
  <2>14. CASE Finish
    <3>1. removed' \in 0..MaxRecords
      <4>1. Cleanable \subseteq 0..MaxRecords
        BY DEF Cleanable
      <4> QED
        BY <2>14, <4>1 DEF Finish
    <3>2. wiped' \subseteq Record
      <4>1. removed + 1 .. removed' \subseteq 1..MaxRecords
        BY <3>1
      <4>2. wiped' = wiped \cup ((removed + 1 .. removed') \ Settled)
        BY <2>14, Zenon DEF Finish
      <4> QED
        BY <4>1, <4>2, Zenon
    <3>3. UNCHANGED <<appended, saved, phase, cancelFn, cancelled, expired, drained, pos,
                      hand, sent, restarts, delivered, dropped, gaveUp, drainCut,
                      stopAsked>>
      BY <2>14 DEF Finish
    <3>4. pc' \in PCs
      BY <2>14 DEF Finish
    <3> QED
      BY <3>1, <3>2, <3>3, <3>4, Zenon
  <2>15. CASE Append
    BY <2>15 DEF Append
  <2>16. CASE Stop
    BY <2>16 DEF Stop
  <2>17. CASE DrainExpires
    BY <2>17 DEF DrainExpires
  <2>18. CASE Crash
    BY <2>18 DEF Crash
  <2>19. CASE Restart
    <3>1. pos' \in 0..MaxRecords
      BY <2>19 DEF Restart, Larger
    <3>2. restarts' \in 0..MaxRestarts
      BY <2>19 DEF Restart
    <3>3. pc' \in PCs /\ phase' \in {"run", "drain"}
          /\ cancelFn' \in {"unset", "stub", "runCtx"}
      BY <2>19 DEF Restart
    <3>4. cancelled' = FALSE /\ expired' = FALSE /\ drained' = FALSE /\ stopAsked' = FALSE
          /\ hand' = {} /\ sent' = 0 /\ gaveUp' = gaveUp \cup drainCut /\ drainCut' = {}
          /\ UNCHANGED <<appended, removed, saved, delivered, dropped, wiped>>
      BY <2>19, Zenon DEF Restart
    <3>5. 0 \in Nat
      OBVIOUS
    <3> QED
      BY <3>1, <3>2, <3>3, <3>4, <3>5, Zenon
  <2>20. CASE Returned \/ UNCHANGED vars
    <3>1. UNCHANGED <<source, control, pos, hand, sent, restarts, ledger>>
      BY <2>20 DEF Returned, vars
    <3>2. UNCHANGED <<appended, removed, saved, pc, phase, cancelFn>>
      BY <3>1
    <3>3. UNCHANGED <<cancelled, expired, drained, pos, hand, sent, restarts>>
      BY <3>1
    <3>4. UNCHANGED <<delivered, dropped, gaveUp, drainCut, wiped, stopAsked>>
      BY <3>1
    <3> QED
      BY <3>2, <3>3, <3>4, Zenon
  <2> QED
    BY <2>1, <2>2, <2>3, <2>4, <2>5, <2>6, <2>7, <2>8, <2>9, <2>10, <2>11,
       <2>12, <2>13, <2>14, <2>15, <2>16, <2>17, <2>18, <2>19, <2>20
       DEF Next, RunnerStep
<1> QED
    BY <1>1, <1>2, PTL DEF Spec

-----------------------------------------------------------------------------

\* IInv holds at the start.
LEMMA InitInvariant == Init => Positions /\ Batch /\ Ledger /\ Drain
  BY DEF Init, Positions, Batch, Ledger, Drain, Accounted, Settled

\* Every step keeps IInv.
LEMMA StepInvariant ==
  ASSUME TypeOK, TypeOK', Positions, Batch, Ledger, Drain, [Next]_vars
  PROVE  (Positions /\ Batch /\ Ledger /\ Drain)'
<1> USE RunnerAssumption DEF Positions, Batch, Ledger, Drain, Accounted, Settled, Record
<1> USE DEF Goto, BeginDrain, EndDrain, NextBatch, source, control, ledger
<1>0. /\ appended \in Nat /\ removed \in Nat /\ saved \in Nat /\ pos \in Nat
      /\ appended' \in Nat /\ removed' \in Nat /\ saved' \in Nat /\ pos' \in Nat
  BY DEF TypeOK
<1>1. CASE Run
  BY <1>1, <1>0 DEF Run
<1>2. CASE CheckLoop
  BY <1>2, <1>0 DEF CheckLoop
<1>3. CASE ReadRecords
  BY <1>3, <1>0 DEF ReadRecords
<1>4. CASE ReadNothing
  BY <1>4, <1>0 DEF ReadNothing
<1>5. CASE ReadFails
  BY <1>5, <1>0 DEF ReadFails
<1>6. CASE Idle
  BY <1>6, <1>0 DEF Idle
<1>7. CASE ApplyTransforms
  BY <1>7, <1>0 DEF ApplyTransforms
<1>8. CASE WriteOk
  BY <1>8, <1>0 DEF WriteOk
<1>9. CASE WriteFails
  BY <1>9, <1>0 DEF WriteFails
<1>10. CASE Retry
  BY <1>10, <1>0 DEF Retry
<1>11. CASE GiveUp
  BY <1>11, <1>0 DEF GiveUp
<1>12. CASE Commit
  BY <1>12, <1>0 DEF Commit, Persist
<1>13. CASE CloseInput
  <2>1. /\ pc = "close" /\ pc' = "clean" /\ saved' \in {saved, pos} /\ hand = {}
        /\ UNCHANGED <<appended, removed, pos, hand>> /\ UNCHANGED ledger
        /\ drained' = (drained /\ ~expired)
    BY <1>13 DEF CloseInput, Persist
  <2>2. Positions'
    BY <2>1, <1>0
  <2>3. Batch'
    BY <2>1, <1>0
  <2>4. Ledger'
    BY <2>1, <1>0
  <2>5. Drain'
    BY <2>1
  <2> QED
    BY <2>2, <2>3, <2>4, <2>5
<1>14. CASE Finish
  BY <1>14, <1>0 DEF Finish, Cleanable
<1>15. CASE Append
  BY <1>15, <1>0 DEF Append
<1>16. CASE Stop
  BY <1>16, <1>0 DEF Stop
<1>17. CASE DrainExpires
  BY <1>17, <1>0 DEF DrainExpires
<1>18. CASE Crash
  BY <1>18, <1>0 DEF Crash
<1>19. CASE Restart
  BY <1>19, <1>0 DEF Restart, Larger
<1>20. CASE Returned \/ UNCHANGED vars
  <2>1. UNCHANGED <<source, control, pos, hand, sent, restarts, ledger>>
    BY <1>20 DEF Returned, vars
  <2>2. UNCHANGED <<appended, removed, saved, pc, drained, pos, hand>>
    BY <2>1
  <2>3. UNCHANGED <<delivered, dropped, gaveUp, drainCut, wiped>>
    BY <2>1
  <2> QED
    BY <2>2, <2>3, Zenon
<1> QED
  BY <1>1, <1>2, <1>3, <1>4, <1>5, <1>6, <1>7, <1>8, <1>9, <1>10, <1>11,
     <1>12, <1>13, <1>14, <1>15, <1>16, <1>17, <1>18, <1>19, <1>20
     DEF Next, RunnerStep

\* IInv is an invariant of the pipeline.
THEOREM Invariant == Spec => []IInv
<1>1. TypeOK /\ TypeOK' /\ (Positions /\ Batch /\ Ledger /\ Drain) /\ [Next]_vars
      => (Positions /\ Batch /\ Ledger /\ Drain)'
  BY StepInvariant
<1> QED
  BY <1>1, InitInvariant, TypeCorrect, PTL DEF Spec, IInv

\* The durable offset never passes a record that is still owed (Commit and Close
\* of runner.go, under crashes, failed commits and swallowed batches).
THEOREM OffsetSafe == Spec => []SavedIsAccounted
<1>1. IInv => SavedIsAccounted
  BY DEF IInv, TypeOK, Positions, Batch, Ledger, Accounted, SavedIsAccounted
<1> QED
  BY <1>1, Invariant, PTL

\* What is sent, or sent again, lies beyond the durable offset (writeBatch and the
\* restarts of runner.go).
THEOREM NoResend == Spec => []NoResendBehindOffset
<1>1. IInv => NoResendBehindOffset
  BY DEF IInv, Batch, NoResendBehindOffset
<1> QED
  BY <1>1, Invariant, PTL

\* Clean deletes an unsettled record that was read only when Run's loop gave it up:
\* a drain that failed keeps its files (`drained' in shutdown).
THEOREM FailedDrainKeepsFiles == Spec => CleanSparesFailedDrain
<1>1. IInv /\ [Next]_vars => [(wiped' \ wiped) \cap (1..pos) \subseteq gaveUp]_vars
  <2> SUFFICES ASSUME IInv, Next
               PROVE  (wiped' \ wiped) \cap (1..pos) \subseteq gaveUp
    BY Zenon
  <2>1. CASE Finish
    <3>1. CASE drained
      <4>1. drainCut = {} /\ hand = {}
        BY <2>1, <3>1 DEF IInv, Drain, Batch, Finish
      <4>2. 1..pos \subseteq Settled \cup gaveUp \cup wiped
        BY <4>1 DEF IInv, Ledger, Accounted
      <4>3. wiped' \subseteq wiped \cup ((removed + 1 .. removed') \ Settled)
        BY <2>1, Zenon DEF Finish
      <4> QED
        BY <4>2, <4>3, Zenon
    <3>2. CASE ~drained
      <4>1. removed' = removed
        BY <2>1, <3>2 DEF Finish
      <4>2. removed + 1 .. removed' = {}
        BY <4>1 DEF IInv, TypeOK
      <4> QED
        BY <2>1, <4>2 DEF Finish
    <3> QED
      BY <3>1, <3>2
  <2>2. CASE ~Finish
    <3>1. wiped' = wiped
      BY <2>2 DEF Next, RunnerStep, Run, CheckLoop, ReadRecords, ReadNothing, ReadFails,
         Idle, ApplyTransforms, WriteOk, WriteFails, Retry, GiveUp, Commit, CloseInput,
         Append, Stop, DrainExpires, Crash, Restart, Returned, vars, ledger
    <3> QED
      BY <3>1
  <2> QED
    BY <2>1, <2>2
<1> QED
  BY <1>1, Invariant, PTL DEF Spec, CleanSparesFailedDrain

-----------------------------------------------------------------------------

\* A step of the pipeline is a step of the promise, or changes nothing it sees.
LEMMA StepKeepsPromise ==
  ASSUME IInv, IInv', [Next]_vars
  PROVE  [Promise!Next]_(Promise!vars)
<1> USE RunnerAssumption
<1> DEFINE forfeited == gaveUp \cup drainCut \cup wiped
<1>0. /\ appended \in Nat /\ removed \in Nat /\ saved \in Nat /\ pos \in Nat
      /\ saved <= pos /\ pos <= appended
  BY DEF IInv, TypeOK, Positions
<1>1. CASE Append
  <2>1. Promise!Append
    BY <1>1 DEF Append, Promise!Append, Settled, source, control, ledger
  <2> QED
    BY <2>1 DEF Promise!Next
<1>2. CASE ApplyTransforms \/ WriteOk \/ WriteFails
  <2>1. hand \subseteq saved + 1 .. appended
    BY <1>0 DEF IInv, Batch
  <2>2. PICK S \in SUBSET hand : Settled' = Settled \cup S
    <3>1. \E S \in SUBSET hand : Settled' = Settled \cup S
      <4>1. CASE ApplyTransforms
        <5>1. PICK keep \in SUBSET hand : dropped' = dropped \cup (hand \ keep)
          BY <4>1 DEF ApplyTransforms
        <5>2. delivered' = delivered
          BY <4>1 DEF ApplyTransforms
        <5>3. Settled' = Settled \cup (hand \ keep)
          BY <5>1, <5>2 DEF Settled
        <5> QED
          BY <5>3
      <4>2. CASE WriteOk
        <5>1. Settled' = Settled \cup hand
          BY <4>2 DEF WriteOk, Settled
        <5> QED
          BY <5>1
      <4>3. CASE WriteFails
        <5>1. PICK last \in hand \cup {0} :
                  delivered' = delivered \cup {r \in hand : r <= last}
          BY <4>3 DEF WriteFails
        <5>2. dropped' = dropped
          BY <4>3 DEF WriteFails
        <5>3. Settled' = Settled \cup {r \in hand : r <= last}
          BY <5>1, <5>2 DEF Settled
        <5> QED
          BY <5>3
      <4> QED
        BY <1>2, <4>1, <4>2, <4>3
    <3> QED
      BY <3>1
  <2>3. UNCHANGED <<appended, saved, forfeited>>
    BY <1>2 DEF ApplyTransforms, WriteOk, WriteFails, source
  <2>4. Promise!Settle
    BY <2>1, <2>2, <2>3 DEF Promise!Settle
  <2> QED
    BY <2>4 DEF Promise!Next
<1>3. CASE GiveUp
  <2>1. hand \ Settled \subseteq (1..appended) \ Settled
    <3>1. hand \subseteq 1..pos
      BY DEF IInv, Batch
    <3>2. 1..pos \subseteq 1..appended
      BY <1>0
    <3> QED
      BY <3>1, <3>2, Zenon
  <2>2. forfeited' = forfeited \cup (hand \ Settled)
    BY <1>3 DEF GiveUp
  <2>3. UNCHANGED <<appended, saved, Settled>>
    BY <1>3 DEF GiveUp, source, Settled
  <2>4. Promise!Forfeit
    BY <2>1, <2>2, <2>3 DEF Promise!Forfeit
  <2> QED
    BY <2>4 DEF Promise!Next
<1>4. CASE Commit \/ CloseInput
  <2>1. saved' \in {saved, pos} /\ UNCHANGED <<appended, Settled, forfeited>>
    BY <1>4 DEF Commit, CloseInput, Persist, Settled, ledger
  <2>2. 1..pos \subseteq Settled \cup forfeited
    BY <1>4 DEF IInv, Ledger, Batch, Accounted, Settled, Commit, CloseInput
  <2>3. 1..saved \subseteq Settled \cup forfeited
    BY <1>0, <2>2
  <2>4. /\ saved' \in saved..appended
        /\ 1..saved' \subseteq Settled \cup forfeited
    BY <1>0, <2>1, <2>2, <2>3
  <2>5. Promise!Advance
    BY <2>1, <2>4 DEF Promise!Advance
  <2> QED
    BY <2>5 DEF Promise!Next
<1>5. CASE Finish
  <2> DEFINE new == (removed + 1 .. removed') \ Settled
  <2>1. /\ wiped' = wiped \cup new
        /\ UNCHANGED <<appended, saved, delivered, dropped, gaveUp, drainCut>>
    BY <1>5, Zenon DEF Finish
  <2>2. removed' \in Nat /\ removed' <= appended
    BY <2>1 DEF IInv, TypeOK, Positions
  <2>3. new \subseteq (1..appended) \ Settled
    BY <1>0, <2>2
  <2>4. forfeited' = forfeited \cup new /\ UNCHANGED <<appended, saved, Settled>>
    BY <2>1 DEF Settled
  <2>5. Promise!Forfeit
    BY <2>3, <2>4 DEF Promise!Forfeit
  <2> QED
    BY <2>5 DEF Promise!Next
<1>6. CASE \/ Run \/ CheckLoop \/ ReadRecords \/ ReadNothing \/ ReadFails \/ Idle
           \/ Retry \/ Stop \/ DrainExpires \/ Crash \/ Restart
           \/ Returned \/ UNCHANGED vars
  <2>1. UNCHANGED <<appended, saved, delivered, dropped, wiped>> /\ UNCHANGED forfeited
    BY <1>6 DEF Run, CheckLoop, ReadRecords, ReadNothing, ReadFails, Idle, Retry, Stop,
       DrainExpires, Crash, Restart, Returned, vars, source, ledger
  <2> QED
    BY <2>1 DEF Promise!vars, Settled
<1> QED
  BY <1>1, <1>2, <1>3, <1>4, <1>5, <1>6 DEF Next, RunnerStep

\* The Runner delivers at least once behind its durable offset, records given up by
\* a cancelled write or wiped by Clean excepted: no offset retreats, nothing
\* behind it is sent again, nothing owed is passed over.
THEOREM ImplementsPromise == Spec => AtLeastOnceDelivery
<1>1. Init => Promise!Init
  BY DEF Init, Promise!Init, Settled
<1>2. IInv /\ IInv' /\ [Next]_vars => [Promise!Next]_(Promise!vars)
  BY StepKeepsPromise
<1> QED
  BY <1>1, <1>2, Invariant, PTL DEF Spec, AtLeastOnceDelivery, Promise!Spec

-----------------------------------------------------------------------------

\* The delivered records that `sent' may have counted: those of the batch in hand
\* are counted by the Commit to come.
Confirmed == {r \in delivered : r <= pos} \ hand

SentInv == sent <= Cardinality(Confirmed)

\* No step makes sent overtake the confirmed records.
LEMMA SentStep ==
  ASSUME IInv, IInv', SentInv, [Next]_vars
  PROVE  SentInv'
<1> USE RunnerAssumption
<1>0. /\ Confirmed \in SUBSET Record /\ Confirmed' \in SUBSET Record
      /\ sent \in Nat /\ pos \in Nat
  BY DEF IInv, TypeOK, Confirmed
<1>1. /\ IsFiniteSet(Confirmed) /\ Cardinality(Confirmed) \in Nat
      /\ IsFiniteSet(Confirmed') /\ Cardinality(Confirmed') \in Nat
  BY <1>0, RecordSetsFinite
<1>2. CASE Commit
  <2>1. Confirmed' = Confirmed \cup hand /\ Confirmed \cap hand = {}
    <3>1. hand \subseteq delivered /\ \A r \in hand : r <= pos
      BY <1>0, <1>2 DEF Commit, IInv, Batch
    <3>2. hand' = {} /\ pos' = pos /\ delivered' = delivered
      BY <1>2 DEF Commit, ledger
    <3> QED
      BY <3>1, <3>2 DEF Confirmed
  <2>2. IsFiniteSet(hand) /\ Cardinality(hand) \in Nat
    BY RecordSetsFinite DEF IInv, TypeOK
  <2>3. Cardinality(Confirmed') = Cardinality(Confirmed) + Cardinality(hand)
    <3>1. Cardinality(Confirmed \cup hand)
            = Cardinality(Confirmed) + Cardinality(hand) - Cardinality(Confirmed \cap hand)
      BY <1>1, <2>2, FS_Union
    <3>2. Cardinality(Confirmed \cap hand) = 0
      BY <2>1, FS_EmptySet
    <3> QED
      BY <1>1, <2>1, <2>2, <3>1, <3>2
  <2>4. sent' = sent + Cardinality(hand)
    BY <1>2 DEF Commit
  <2> QED
    BY <1>0, <1>1, <2>2, <2>3, <2>4 DEF SentInv
<1>3. CASE Restart
  BY <1>1, <1>3 DEF Restart, SentInv
<1>4. CASE ~Commit /\ ~Restart
  <2>1. sent' = sent
    BY <1>4 DEF Next, RunnerStep, Run, CheckLoop, ReadRecords, ReadNothing, ReadFails,
       Idle, ApplyTransforms, WriteOk, WriteFails, Retry, GiveUp, CloseInput, Finish,
       Append, Stop, DrainExpires, Crash, Returned, vars
  <2>2. Confirmed \subseteq Confirmed'
    <3>1. CASE ReadRecords
      <4>1. PICK k \in 1..BatchLen : hand' = pos + 1 .. pos + k /\ pos' = pos + k
        BY <3>1 DEF ReadRecords
      <4>2. delivered' = delivered
        BY <3>1 DEF ReadRecords, ledger
      <4> QED
        BY <1>0, <4>1, <4>2 DEF Confirmed, IInv, TypeOK, Record
    <3>2. CASE ~ReadRecords
      <4>1. pos' = pos /\ hand' \subseteq hand /\ delivered \subseteq delivered'
        BY <1>4, <3>2 DEF Next, RunnerStep, Run, CheckLoop, ReadNothing, ReadFails,
           Idle, ApplyTransforms, WriteOk, WriteFails, Retry, GiveUp, CloseInput, Finish,
           Append, Stop, DrainExpires, Crash, Returned, vars, ledger
      <4> QED
        BY <4>1 DEF Confirmed
    <3> QED
      BY <3>1, <3>2
  <2>3. Cardinality(Confirmed) <= Cardinality(Confirmed')
    BY <1>1, <2>2, FS_Subset
  <2> QED
    BY <1>0, <1>1, <2>1, <2>3 DEF SentInv
<1> QED
  BY <1>2, <1>3, <1>4

\* Sent never counts more records than the output has taken (Sent of runner.go).
THEOREM SentSafe == Spec => []SentNeverOverstates
<1>1. Init => SentInv
  <2>1. Init => Confirmed = {}
    BY DEF Init, Confirmed
  <2> QED
    BY <2>1, FS_EmptySet DEF Init, SentInv
<1>2. IInv /\ IInv' /\ SentInv /\ [Next]_vars => SentInv'
  BY SentStep
<1>3. IInv /\ SentInv => SentNeverOverstates
  <2> SUFFICES ASSUME IInv, SentInv
               PROVE  SentNeverOverstates
    OBVIOUS
  <2> DEFINE D == {r \in delivered : r <= pos}
  <2>1. D \in SUBSET Record /\ Confirmed \in SUBSET Record /\ Confirmed \subseteq D
    BY DEF IInv, TypeOK, Confirmed
  <2>2. /\ IsFiniteSet(D) /\ Cardinality(D) \in Nat /\ Cardinality(Confirmed) \in Nat
    BY <2>1, RecordSetsFinite
  <2>3. Cardinality(Confirmed) <= Cardinality(D)
    BY <2>1, <2>2, FS_Subset
  <2> QED
    BY <2>2, <2>3 DEF SentInv, SentNeverOverstates, IInv, TypeOK
<1> QED
  BY <1>1, <1>2, <1>3, Invariant, PTL DEF Spec
=============================================================================
