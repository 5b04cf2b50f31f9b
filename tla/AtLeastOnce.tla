---------------------------- MODULE AtLeastOnce ----------------------------
(***************************************************************************)
(* What a collection pipeline promises about the records of one source:    *)
(* at-least-once delivery behind a durable checkpoint.  Records are        *)
(* numbered 1, 2, ... in the order the source produces them.               *)
(*                                                                         *)
(* A record is settled once the output has it or a transform has filtered  *)
(* it out.  It is forfeited when the pipeline gives it up.  The checkpoint *)
(* passes a record only when the record is settled or forfeited, and what  *)
(* lies at or below the checkpoint is never sent again.                    *)
(***************************************************************************)
EXTENDS Naturals

CONSTANT MaxRecords     \* how many records the source produces

VARIABLES
    appended,       \* records produced so far
    checkpoint,     \* records 1..checkpoint are not read again after a restart
    settled,        \* records delivered or filtered out
    forfeited       \* records given up at some time

vars == <<appended, checkpoint, settled, forfeited>>

TypeOK ==
    /\ appended \in 0..MaxRecords
    /\ checkpoint \in 0..MaxRecords
    /\ settled \subseteq 1..MaxRecords
    /\ forfeited \subseteq 1..MaxRecords

Init ==
    /\ appended = 0
    /\ checkpoint = 0
    /\ settled = {}
    /\ forfeited = {}

Append ==
    /\ appended < MaxRecords
    /\ appended' = appended + 1
    /\ UNCHANGED <<checkpoint, settled, forfeited>>

\* Records are delivered or filtered out, none of them behind the checkpoint.
Settle ==
    /\ \E S \in SUBSET (checkpoint + 1 .. appended) : settled' = settled \cup S
    /\ UNCHANGED <<appended, checkpoint, forfeited>>

\* Records nobody has settled are given up.
Forfeit ==
    /\ \E S \in SUBSET ((1..appended) \ settled) : forfeited' = forfeited \cup S
    /\ UNCHANGED <<appended, checkpoint, settled>>

\* The checkpoint moves forward, over settled and forfeited records only.
Advance ==
    /\ \E c \in checkpoint..appended :
           /\ 1..c \subseteq settled \cup forfeited
           /\ checkpoint' = c
    /\ UNCHANGED <<appended, settled, forfeited>>

Next == Append \/ Settle \/ Forfeit \/ Advance

Spec == Init /\ [][Next]_vars

\* Nothing the checkpoint has passed is unaccounted for.
CheckpointCovered == 1..checkpoint \subseteq settled \cup forfeited
============================================================================
