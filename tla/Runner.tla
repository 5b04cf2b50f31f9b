------------------------------- MODULE Runner -------------------------------
(***************************************************************************)
(* One collection pipeline of the agent: the Runner of runner/runner.go,   *)
(* which reads batches from an Input, transforms them, writes them to an   *)
(* Output and commits the offset, until Stop cancels it; it then drains    *)
(* the Input, closes both ends and lets the Clean strategy delete files.   *)
(*                                                                         *)
(* Records are numbered 1, 2, ... in the order of the source.  The Input   *)
(* is reduced to what the Runner sees of it: a read position and a durable *)
(* offset that Commit and Close set to the read position.  Files, inodes   *)
(* and resource versions belong to the modules of the inputs.              *)
(*                                                                         *)
(* `phase' tells the loop of Run from the drain of shutdown: both use the  *)
(* same applyTransforms and writeBatch, under a different context.         *)
(***************************************************************************)
EXTENDS Naturals, FiniteSets

CONSTANTS
    MaxRecords,     \* bound: records the application ever produces
    BatchLen,       \* Config.BatchLen
    MaxRestarts,    \* bound: how often the agent comes up again
    CleanPolicy,    \* Config.Clean
    InputMayFail    \* whether this Input's ReadBatch can return an error

ASSUME RunnerAssumption ==
    /\ MaxRecords \in Nat
    /\ BatchLen \in Nat \ {0}
    /\ MaxRestarts \in Nat
    /\ CleanPolicy \in {"never", "afterCollected", "retain"}
    /\ InputMayFail \in BOOLEAN

VARIABLES
    \* the source and the durable offset; they survive a crash
    appended,       \* records the application has produced
    removed,        \* records 1..removed are in files that were deleted
    saved,          \* the offset a new Input starts from
    \* the Runner
    pc,             \* the next step of Run
    phase,          \* "run": the loop of Run; "drain": shutdown
    cancelFn,       \* Runner.cancel: unset, the stub of Stop, or runCtx's
    cancelled,      \* runCtx is done
    expired,        \* drainCtx is done
    drained,        \* the local of shutdown
    pos,            \* the Input's read position
    hand,           \* the batch in hand
    sent,           \* Runner.sent
    restarts,       \* how often the agent came up again
    \* what became of the records; read by the properties only
    delivered,      \* the output has the record
    dropped,        \* a transform filtered the record out, or failed on it
    gaveUp,         \* writeBatch gave the record up, before or in Run's loop
    drainCut,       \* writeBatch gave the record up in this drain
    wiped,          \* Clean deleted the record before it was settled
    stopAsked       \* Stop was called on this Runner

source == <<appended, removed, saved>>
control == <<pc, phase, cancelFn, cancelled, expired, drained>>
ledger == <<delivered, dropped, gaveUp, drainCut, wiped, stopAsked>>
vars == <<source, control, pos, hand, sent, restarts, ledger>>

PCs == {"new", "loop", "read", "idle", "transform", "write", "backoff",
        "commit", "close", "clean", "done", "down"}

Record == 1..MaxRecords

\* The larger of two numbers.
Larger(a, b) == IF a >= b THEN a ELSE b

TypeOK ==
    /\ appended \in 0..MaxRecords
    /\ removed \in 0..MaxRecords
    /\ saved \in 0..MaxRecords
    /\ pc \in PCs
    /\ phase \in {"run", "drain"}
    /\ cancelFn \in {"unset", "stub", "runCtx"}
    /\ cancelled \in BOOLEAN
    /\ expired \in BOOLEAN
    /\ drained \in BOOLEAN
    /\ pos \in 0..MaxRecords
    /\ hand \subseteq Record
    /\ sent \in Nat
    /\ restarts \in 0..MaxRestarts
    /\ delivered \subseteq Record
    /\ dropped \subseteq Record
    /\ gaveUp \subseteq Record
    /\ drainCut \subseteq Record
    /\ wiped \subseteq Record
    /\ stopAsked \in BOOLEAN

-----------------------------------------------------------------------------

\* runner.New over a new Input, whose constructor loads the durable offset.
Init ==
    /\ appended = 0
    /\ removed = 0
    /\ saved = 0
    /\ pc = "new"
    /\ phase = "run"
    /\ cancelFn = "unset"
    /\ cancelled = FALSE
    /\ expired = FALSE
    /\ drained = FALSE
    /\ pos = 0
    /\ hand = {}
    /\ sent = 0
    /\ restarts = 0
    /\ delivered = {}
    /\ dropped = {}
    /\ gaveUp = {}
    /\ drainCut = {}
    /\ wiped = {}
    /\ stopAsked = FALSE

\* The context the current phase reads and writes under is done.
CtxDone == IF phase = "run" THEN cancelled ELSE expired

\* What is no longer owed.
Settled == delivered \cup dropped

\* Where control goes for the next batch.
NextBatch == IF phase = "run" THEN "loop" ELSE "read"

\* shutdown is entered: drainCtx and drained are created.
BeginDrain ==
    /\ pc' = "read"
    /\ phase' = "drain"
    /\ expired' = FALSE
    /\ drained' = TRUE
    /\ UNCHANGED <<cancelFn, cancelled>>

\* shutdown leaves its loop.
EndDrain(ok) ==
    /\ pc' = "close"
    /\ drained' = ok
    /\ UNCHANGED <<phase, cancelFn, cancelled, expired>>

Goto(label) ==
    /\ pc' = label
    /\ UNCHANGED <<phase, cancelFn, cancelled, expired, drained>>

-----------------------------------------------------------------------------
(* The environment: the application, the callers of Stop, the machine.     *)

\* The application writes a record.
Append ==
    /\ appended < MaxRecords
    /\ appended' = appended + 1
    /\ UNCHANGED <<removed, saved, control, pos, hand, sent, restarts, ledger>>

\* Mutation: a Stop that comes before Run leaves no trace.
MutStop ==
    /\ pc # "down"
    /\ cancelled' = (cancelled \/ cancelFn = "runCtx")
    /\ stopAsked' = TRUE
    /\ UNCHANGED <<source, pc, phase, cancelFn, expired, drained, pos, hand, sent, restarts,
                   delivered, dropped, gaveUp, drainCut, wiped>>

\* Runner.Stop: cancels runCtx, or leaves a stub for a Run yet to come.
Stop ==
    /\ pc # "down"
    /\ cancelFn' = IF cancelFn = "unset" THEN "stub" ELSE cancelFn
    /\ cancelled' = (cancelled \/ cancelFn = "runCtx")
    /\ stopAsked' = TRUE
    /\ UNCHANGED <<source, pc, phase, expired, drained, pos, hand, sent, restarts,
                   delivered, dropped, gaveUp, drainCut, wiped>>

\* The five seconds of drainCtx are over.
DrainExpires ==
    /\ phase = "drain"
    /\ pc \notin {"clean", "done", "down"}
    /\ expired' = TRUE
    /\ UNCHANGED <<source, pc, phase, cancelFn, cancelled, drained,
                   pos, hand, sent, restarts, ledger>>

\* The agent dies with the pipeline in any state.
Crash ==
    /\ pc \notin {"done", "down"}
    /\ restarts < MaxRestarts
    /\ pc' = "down"
    /\ UNCHANGED <<source, phase, cancelFn, cancelled, expired, drained,
                   pos, hand, sent, restarts, ledger>>

\* Mutation: the durable offset is taken for the next record to read.
MutRestartInclusive ==
    /\ pc \in {"done", "down"}
    /\ restarts < MaxRestarts
    /\ restarts' = restarts + 1
    /\ pc' = "new"
    /\ phase' = "run"
    /\ cancelFn' = "unset"
    /\ cancelled' = FALSE
    /\ expired' = FALSE
    /\ drained' = FALSE
    /\ pos' = Larger(IF saved > 0 THEN saved - 1 ELSE 0, removed)
    /\ hand' = {}
    /\ sent' = 0
    /\ gaveUp' = gaveUp \cup drainCut
    /\ drainCut' = {}
    /\ stopAsked' = FALSE
    /\ UNCHANGED <<source, delivered, dropped, wiped>>

\* Mutation: a new Input starts at the end of the source.
MutRestartNewest ==
    /\ pc \in {"done", "down"}
    /\ restarts < MaxRestarts
    /\ restarts' = restarts + 1
    /\ pc' = "new"
    /\ phase' = "run"
    /\ cancelFn' = "unset"
    /\ cancelled' = FALSE
    /\ expired' = FALSE
    /\ drained' = FALSE
    /\ pos' = appended
    /\ hand' = {}
    /\ sent' = 0
    /\ gaveUp' = gaveUp \cup drainCut
    /\ drainCut' = {}
    /\ stopAsked' = FALSE
    /\ UNCHANGED <<source, delivered, dropped, wiped>>

\* The agent is started again, after a crash or an orderly exit, and builds a
\* new Runner; its Input resumes at the durable offset, or at the oldest
\* record that still has a file.
Restart ==
    /\ pc \in {"done", "down"}
    /\ restarts < MaxRestarts
    /\ restarts' = restarts + 1
    /\ pc' = "new"
    /\ phase' = "run"
    /\ cancelFn' = "unset"
    /\ cancelled' = FALSE
    /\ expired' = FALSE
    /\ drained' = FALSE
    /\ pos' = Larger(saved, removed)
    /\ hand' = {}
    /\ sent' = 0
    /\ gaveUp' = gaveUp \cup drainCut
    /\ drainCut' = {}
    /\ stopAsked' = FALSE
    /\ UNCHANGED <<source, delivered, dropped, wiped>>
-----------------------------------------------------------------------------
(* The goroutine that runs Run.                                            *)

\* The prologue of Run: runCtx is created, and cancelled at once when Stop came
\* first.
Run ==
    /\ pc = "new"
    /\ pc' = "loop"
    /\ IF cancelFn = "unset"
          THEN /\ cancelFn' = "runCtx"
               /\ UNCHANGED cancelled
          ELSE /\ cancelled' = TRUE
               /\ UNCHANGED cancelFn
    /\ UNCHANGED <<source, phase, expired, drained,
                   pos, hand, sent, restarts, ledger>>

\* The condition of Run's loop.
CheckLoop ==
    /\ pc = "loop"
    /\ IF cancelled THEN BeginDrain ELSE Goto("read")
    /\ UNCHANGED <<source, pos, hand, sent, restarts, ledger>>

\* Mutation: the read position moves by the size asked for.
MutReadRecords ==
    /\ pc = "read"
    /\ \E k \in 1..BatchLen :
           /\ pos + k <= appended
           /\ hand' = pos + 1 .. pos + k
           /\ pos' = pos + BatchLen
    /\ Goto("transform")
    /\ UNCHANGED <<source, sent, restarts, ledger>>

\* ReadBatch returns records.  A context done during the call does not
\* take records back that were already read.
ReadRecords ==
    /\ pc = "read"
    /\ \E k \in 1..BatchLen :
           /\ pos + k <= appended
           /\ hand' = pos + 1 .. pos + k
           /\ pos' = pos + k
    /\ Goto("transform")
    /\ UNCHANGED <<source, sent, restarts, ledger>>

\* ReadBatch returns an empty batch: at the end of the source, but also when its
\* context is done or when the Input met an error it keeps to itself.
ReadNothing ==
    /\ pc = "read"
    /\ IF phase = "run" THEN Goto("idle") ELSE EndDrain(drained)
    /\ UNCHANGED <<source, pos, hand, sent, restarts, ledger>>

\* ReadBatch returns an error.
ReadFails ==
    /\ pc = "read"
    /\ InputMayFail
    /\ IF phase = "run" THEN BeginDrain ELSE EndDrain(FALSE)
    /\ UNCHANGED <<source, pos, hand, sent, restarts, ledger>>

\* The 200 ms pause after an empty batch ends, or is cut short by runCtx.
Idle ==
    /\ pc = "idle"
    /\ \/ cancelled /\ BeginDrain
       \/ ~cancelled /\ Goto("loop")
    /\ UNCHANGED <<source, pos, hand, sent, restarts, ledger>>

\* Mutation: the batch is committed before it is written.
MutApplyTransforms ==
    /\ pc = "transform"
    /\ \E keep \in SUBSET hand :
           /\ hand' = keep
           /\ dropped' = dropped \cup (hand \ keep)
           /\ Goto(IF keep = {} THEN NextBatch ELSE "write")
    /\ saved' = pos
    /\ UNCHANGED <<appended, removed, pos, sent, restarts,
                   delivered, gaveUp, drainCut, wiped, stopAsked>>

\* applyTransforms keeps some of the batch.  A transform that fails
\* makes it return nil, which is what it returns when nothing is left:
\* the batch is passed over without a Commit.
ApplyTransforms ==
    /\ pc = "transform"
    /\ \E keep \in SUBSET hand :
           /\ hand' = keep
           /\ dropped' = dropped \cup (hand \ keep)
           /\ Goto(IF keep = {} THEN NextBatch ELSE "write")
    /\ UNCHANGED <<source, pos, sent, restarts,
                   delivered, gaveUp, drainCut, wiped, stopAsked>>

\* writeBatch: WriteBatch returns nil.
WriteOk ==
    /\ pc = "write"
    /\ delivered' = delivered \cup hand
    /\ Goto("commit")
    /\ UNCHANGED <<source, pos, hand, sent, restarts,
                   dropped, gaveUp, drainCut, wiped, stopAsked>>

\* Mutation: every attempt is counted.
MutWriteFails ==
    /\ pc = "write"
    /\ \E last \in hand \cup {0} :
           delivered' = delivered \cup {r \in hand : r <= last}
    /\ Goto("backoff")
    /\ sent' = sent + Cardinality(hand)
    /\ UNCHANGED <<source, pos, hand, restarts,
                   dropped, gaveUp, drainCut, wiped, stopAsked>>

\* writeBatch: WriteBatch returns an error.  The output may have kept the first
\* records of the batch, or all of them when only the answer was lost.
WriteFails ==
    /\ pc = "write"
    /\ \E last \in hand \cup {0} :
           delivered' = delivered \cup {r \in hand : r <= last}
    /\ Goto("backoff")
    /\ UNCHANGED <<source, pos, hand, sent, restarts,
                   dropped, gaveUp, drainCut, wiped, stopAsked>>

\* writeBatch: the backoff is over and the batch is tried again.
Retry ==
    /\ pc = "backoff"
    /\ ~CtxDone
    /\ Goto("write")
    /\ UNCHANGED <<source, pos, hand, sent, restarts, ledger>>

\* writeBatch returns the error of a done context and the batch is
\* let go: Run's loop goes on to shutdown, shutdown leaves its own loop.
GiveUp ==
    /\ pc = "backoff"
    /\ CtxDone
    /\ hand' = {}
    /\ IF phase = "run"
          THEN /\ BeginDrain
               /\ gaveUp' = gaveUp \cup (hand \ Settled)
               /\ UNCHANGED drainCut
          ELSE /\ EndDrain(FALSE)
               /\ drainCut' = drainCut \cup (hand \ Settled)
               /\ UNCHANGED gaveUp
    /\ UNCHANGED <<source, pos, sent, restarts, delivered, dropped, wiped, stopAsked>>

\* Mutation: the state file is written in place, so that a failed write loses it.
MutPersist == saved' \in {0, pos}

\* What Input.Commit and Input.Close leave as durable offset: the
\* read position, or the old offset when the state cannot be written
\* (the callers ignore that).
Persist == saved' \in {saved, pos}

\* Input.Commit, then the batch is counted.
Commit ==
    /\ pc = "commit"
    /\ Persist
    /\ sent' = sent + Cardinality(hand)
    /\ hand' = {}
    /\ Goto(NextBatch)
    /\ UNCHANGED <<appended, removed, pos, restarts, ledger>>

\* shutdown after its loop: a drainCtx that is done means not everything
\* was drained; Input.Close commits once more.
CloseInput ==
    /\ pc = "close"
    /\ Persist
    /\ pc' = "clean"
    /\ drained' = (drained /\ ~expired)
    /\ UNCHANGED <<appended, removed, phase, cancelFn, cancelled, expired,
                   pos, hand, sent, restarts, ledger>>

\* How much of the source a Clean strategy deletes: nothing, every
\* file, or the files last written long enough ago.
Cleanable ==
    CASE CleanPolicy = "never" -> {removed}
      [] CleanPolicy = "afterCollected" -> {appended}
      [] CleanPolicy = "retain" -> removed..appended

\* Mutation: Clean runs whether or not the drain worked.
MutFinish ==
    /\ pc = "clean"
    /\ removed' \in Cleanable
    /\ wiped' = wiped \cup ((removed + 1 .. removed') \ Settled)
    /\ Goto("done")
    /\ UNCHANGED <<appended, saved, pos, hand, sent, restarts,
                   delivered, dropped, gaveUp, drainCut, stopAsked>>

\* shutdown closes the Output, cleans when drained, and Run closes Done.
Finish ==
    /\ pc = "clean"
    /\ removed' \in IF drained THEN Cleanable ELSE {removed}
    /\ wiped' = wiped \cup ((removed + 1 .. removed') \ Settled)
    /\ Goto("done")
    /\ UNCHANGED <<appended, saved, pos, hand, sent, restarts,
                   delivered, dropped, gaveUp, drainCut, stopAsked>>

-----------------------------------------------------------------------------

RunnerStep ==
    \/ Run \/ CheckLoop
    \/ ReadRecords \/ ReadNothing \/ ReadFails \/ Idle
    \/ ApplyTransforms
    \/ WriteOk \/ WriteFails \/ Retry \/ GiveUp
    \/ Commit \/ CloseInput \/ Finish

\* Run has returned; only the rest of the world may still move.
Returned ==
    /\ pc = "done"
    /\ UNCHANGED vars

Next ==
    \/ RunnerStep
    \/ Append \/ Stop \/ DrainExpires \/ Crash \/ Restart
    \/ Returned

Spec == Init /\ [][Next]_vars

\* The goroutine of Run is scheduled and drainCtx's timer fires.  Of the output and
\* the input nothing is assumed but that each of their calls returns.
FairSpec ==
    /\ Spec
    /\ WF_vars(RunnerStep)
    /\ WF_vars(DrainExpires)

\* What delivery cannot do without: an input that hands out what it has, an output
\* that accepts a batch which is tried again and again, an agent that is started
\* again after a crash.
Obliging ==
    /\ SF_vars(ReadRecords)
    /\ SF_vars(WriteOk)
    /\ WF_vars(pc = "down" /\ Restart)

-----------------------------------------------------------------------------

\* The durable offset never passes a record that is still owed: every record
\* behind it was written, filtered out, given up by a writeBatch whose context
\* was done, or deleted by Clean (Commit and Close in runner.go:88, 179, 187,
\* across crashes, failed commits and batches a transform swallows).
SavedIsAccounted == 1..saved \subseteq Settled \cup gaveUp \cup drainCut \cup wiped

\* What is about to be written, again or for the first time, lies beyond the
\* durable offset: a restart repeats only what was not committed
\* (writeBatch's retries, the read position of a new Input).
NoResendBehindOffset ==
    pc \in {"transform", "write", "backoff"} => hand \cap (1..saved) = {}

\* Files are deleted only behind a drain that worked: of the records the Runner
\* has read, Clean takes unsettled ones only when Run's loop gave them up
\* before the drain began (the role of `drained', runner.go:161-192).
CleanSparesFailedDrain ==
    [][(wiped' \ wiped) \cap (1..pos) \subseteq gaveUp]_vars

\* Sent never counts more records than the output has taken, whatever is
\* retried, half written or given up (runner.go:90, 108, 180).
SentNeverOverstates == sent <= Cardinality({r \in delivered : r <= pos})

\* The pipeline implements at-least-once delivery behind a checkpoint, with the
\* records given up or wiped as the only ones forfeited.
Promise == INSTANCE AtLeastOnce WITH
               checkpoint <- saved,
               settled <- Settled,
               forfeited <- gaveUp \cup drainCut \cup wiped

AtLeastOnceDelivery == Promise!Spec

\* Run returns after Stop, even if Stop came first and even if the output never
\* accepts another batch (runner.go:110-121, 143-145, 157).
StopTerminates == stopAsked ~> pc \in {"done", "down"}

\* Every record is eventually settled or accounted for as lost, through crashes,
\* failed writes and lost commits, as long as Run does not come to its end.
EveryRecordSettled ==
    Obliging => \A r \in Record :
        (r <= appended) ~> \/ r \in Settled \cup gaveUp \cup drainCut \cup wiped
                           \/ pc = "done"

\* output.go:11 says: "Offset advances only after successful send."
OffsetAdvancesOnlyAfterSend == 1..saved \subseteq Settled
=============================================================================
