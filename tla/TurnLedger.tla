---------------------------- MODULE TurnLedger ----------------------------
(***************************************************************************)
(* What a thread promises its players, whatever happens to the attempts    *)
(* and executors underneath: accepted input waits, and is played out in    *)
(* batches, each of which is one step of the campaign's revision.          *)
(***************************************************************************)
EXTENDS Naturals

CONSTANT Submission

VARIABLES revision, waiting, batches
ledger == <<revision, waiting, batches>>

LedgerInit == revision = 0 /\ waiting = {} /\ batches = {}

\* Input is accepted once: not while it waits, nor after it was played out.
Accept(s) ==
  /\ s \notin waiting /\ s \notin UNION batches
  /\ waiting' = waiting \cup {s}
  /\ UNCHANGED <<revision, batches>>

\* A turn is committed: its batch leaves the queue with one revision.
Play(batch) ==
  /\ batch # {} /\ batch \subseteq waiting
  /\ waiting' = waiting \ batch
  /\ batches' = batches \cup {batch}
  /\ revision' = revision + 1

\* Anything else that happens to the campaign.
Move == revision' = revision + 1 /\ UNCHANGED <<waiting, batches>>

LedgerNext ==
  \/ \E s \in Submission : Accept(s)
  \/ \E batch \in SUBSET Submission : Play(batch)
  \/ Move

LedgerSpec == LedgerInit /\ [][LedgerNext]_ledger

=============================================================================
