-------------------------- MODULE CheckpointLedger --------------------------
(***************************************************************************)
(* What post-turn consolidation promises of the committed sequence of one  *)
(* campaign: each event is consolidated at most once, in order, as part of *)
(* a gap-free range and never while the campaign is dormant; an event is   *)
(* passed over only by an operator's recorded decision.                    *)
(***************************************************************************)
EXTENDS Naturals

CONSTANT MaxSeq   \* bound: events of the campaign

VARIABLES seq,           \* the last committed event
          cp,            \* processed_through_sequence
          archived,
          consolidated,  \* ranges that moved the checkpoint with their content
          skipped        \* ranges an operator decided to pass over

ledger == <<seq, cp, archived, consolidated, skipped>>
Range == {r \in (1..MaxSeq) \X (1..MaxSeq) : r[1] <= r[2]}

LedgerInit == seq = 0 /\ cp = 0 /\ archived = FALSE /\ consolidated = {} /\ skipped = {}

\* Play, archive and restore each append one event.
Append == /\ seq < MaxSeq /\ seq' = seq + 1 /\ archived' \in BOOLEAN
          /\ UNCHANGED <<cp, consolidated, skipped>>

Consolidate == \E t \in cp + 1..seq :
  /\ ~archived
  /\ cp' = t /\ consolidated' = consolidated \cup {<<cp + 1, t>>}
  /\ UNCHANGED <<seq, archived, skipped>>

\* The decision may have been taken on an older checkpoint than the one it moves.
Skip == \E r \in Range :
  /\ r[1] <= cp + 1 /\ r[2] <= seq
  /\ cp' = (IF cp < r[2] THEN r[2] ELSE cp) /\ skipped' = skipped \cup {r}
  /\ UNCHANGED <<seq, archived, consolidated>>

LedgerNext == Append \/ Consolidate \/ Skip
LedgerSpec == LedgerInit /\ [][LedgerNext]_ledger
=============================================================================
