----------------------------- MODULE LockOrder -----------------------------
(***************************************************************************)
(* The row locks that the transactions of one table (campaign) take, in    *)
(* the order in which they take them.  DmTurn treats each transaction as   *)
(* one step, which is sound as far as the locks serialize them; here a     *)
(* transaction is a sequence of SELECT ... FOR UPDATE and of rows written  *)
(* by its flush, and the question is whether they can wait for each other  *)
(* in a ring.  Postgres then aborts one of them.                           *)
(***************************************************************************)
EXTENDS Naturals, Sequences

CONSTANTS
  Process,   \* concurrent requests, executors and sweeps
  Kinds      \* the transactions they run

Row == {"roll", "turn", "attempt", "encounter", "campaign"}

\* Each transaction's rows in locking order.  Coordination (with the submission
\* it belongs to), retries and roll fulfilment start from the campaign; they
\* write turn and attempt after it.
CoordinateTurn == <<"campaign", "turn", "attempt">>
RetryFailed == <<"campaign", "turn", "attempt">>
FulfillRoll == <<"roll", "campaign", "turn", "attempt">>

\* The pipeline's own boundaries and the encounter commands end with it.
StartStreaming == <<"turn", "attempt", "campaign">>
RequestRolls == <<"turn", "attempt", "campaign">>
\* fault: the encounters are left to the effects, under the campaign lock
CommitTurnEncounterLast == <<"turn", "attempt", "campaign", "encounter">>
CommitTurn == <<"turn", "attempt", "encounter", "campaign">>
EndTurn == <<"encounter", "campaign">>
Lifecycle == <<"campaign">>

Plan ==
  [coordinate_turn        |-> CoordinateTurn,
   retry                  |-> RetryFailed,
   fulfill_roll           |-> FulfillRoll,
   mark_streaming_started |-> StartStreaming,
   request_rolls          |-> RequestRolls,
   commit_turn            |-> CommitTurn,
   end_turn               |-> EndTurn,
   transition_lifecycle   |-> Lifecycle]

\* The transactions that lock the campaign before other rows.
CampaignFirst == {"coordinate_turn", "retry", "fulfill_roll"}

ASSUME KindsAssumption == Kinds \subseteq DOMAIN Plan

VARIABLES
  kind,   \* [Process -> Kinds or "idle"]
  got     \* [Process -> how many rows of its plan a process has locked]

vars == <<kind, got>>

Rows(p) == IF kind[p] = "idle" THEN <<>> ELSE Plan[kind[p]]
Held(p) == {Rows(p)[i] : i \in 1 .. got[p]}
Wanting(p) == got[p] < Len(Rows(p))
Wanted(p) == Rows(p)[got[p] + 1]

\* Processes that wait for each other only: none of them can ever go on.
Deadlocked(S) ==
  /\ S # {}
  /\ \A p \in S : Wanting(p) /\ \E q \in S \ {p} : Wanted(p) \in Held(q)

Init == kind = [p \in Process |-> "idle"] /\ got = [p \in Process |-> 0]

Begin(p, k) ==
  /\ kind[p] = "idle"
  /\ kind' = [kind EXCEPT ![p] = k]
  /\ UNCHANGED got

\* fault: the first row is read with FOR SHARE
FreeOfOlder(p) == \A q \in Process \ {p} : Wanted(p) \notin Held(q) \/ got[q] = 1
Free(p) == \A q \in Process \ {p} : Wanted(p) \notin Held(q)

Lock(p) ==
  /\ Wanting(p) /\ Free(p)
  /\ got' = [got EXCEPT ![p] = @ + 1]
  /\ UNCHANGED kind

Release(p) ==
  /\ kind' = [kind EXCEPT ![p] = "idle"]
  /\ got' = [got EXCEPT ![p] = 0]

Commit(p) == kind[p] # "idle" /\ ~Wanting(p) /\ Release(p)

\* A set of them with nobody who merely waits for the others.
Ring(S) == Deadlocked(S) /\ \A T \in SUBSET S : Deadlocked(T) => T = S

\* fault: the victim keeps its transaction and starts it over
StartOver(p) == got' = [got EXCEPT ![p] = 0] /\ UNCHANGED kind
Fail(p) == Release(p)

\* Postgres finds the ring after deadlock_timeout and aborts one of it.
Abort(p) == (\E S \in SUBSET Process : p \in S /\ Ring(S)) /\ Fail(p)

Next == \E p \in Process : (\E k \in Kinds : Begin(p, k)) \/ Lock(p) \/ Commit(p) \/ Abort(p)

\* Waiters are served in turn, work under locks ends, rings are detected.
Fairness ==
  /\ \A p \in Process : SF_vars(Lock(p)) /\ WF_vars(Commit(p))
  /\ WF_vars(\E p \in Process : Abort(p))

Spec == Init /\ [][Next]_vars /\ Fairness

-----------------------------------------------------------------------------
(* Properties.                                                             *)

\* Locks are exclusive, and a process holds a prefix of its plan.
TypeOK ==
  /\ kind \in [Process -> Kinds \cup {"idle"}]
  /\ got \in [Process -> Nat]
  /\ \A p \in Process : got[p] <= Len(Rows(p))
  /\ \A p, q \in Process : p # q => Held(p) \cap Held(q) = {}

\* No transactions ever wait for each other in a ring (campaigns/service.py:226
\* "Consistent lock order everywhere is request/turn locks first, then the
\* campaign row").
NoDeadlock == \A S \in SUBSET Process : ~Deadlocked(S)

\* A ring has somebody in it who locked the campaign first: pipeline
\* boundaries, encounter commands and the lifecycle never wait for each other
\* alone (dm/effects.py:687 "keeps one lock order, so a DM commit and a
\* player's end-turn never deadlock").
RingsStartFromCampaign ==
  \A S \in SUBSET Process : Deadlocked(S) => \E p \in S : kind[p] \in CampaignFirst

\* Even so, every transaction ends, by its commit or as a deadlock's victim.
TransactionsEnd == \A p \in Process : kind[p] # "idle" ~> kind[p] = "idle"
=============================================================================
