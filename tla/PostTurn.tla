------------------------------ MODULE PostTurn ------------------------------
(***************************************************************************)
(* Post-turn consolidation of one campaign (app/post_turn/service.py), with *)
(* the worker ledger its runs execute under, the clock events it commits on *)
(* the way (app/world/clocks.py) and the DM turn it waits for and holds up  *)
(* (the commit gate, app/post_turn/backpressure.py).                        *)
(*                                                                         *)
(* A step is one database transaction.  A run is named by its range, which *)
(* is unique; the id of its row is the job id in the worker ledger.        *)
(***************************************************************************)
EXTENDS Naturals, FiniteSets

CONSTANTS MaxSeq,       \* bound: events of the campaign
          Threshold,    \* POST_TURN_BATCH_SIZE
          MaxAttempts,  \* POST_TURN_MAX_ATTEMPTS
          SafeLag,      \* unprocessed events the forward DM's context holds
          Sweep,        \* cron processes that sweep
          MaxUpsets,    \* bound: what the environment does of its own accord
          Upsets        \* the kinds of things it may do

ASSUME PostTurnAssumption ==
  /\ MaxSeq \in Nat /\ Threshold \in Nat \ {0} /\ MaxAttempts \in Nat \ {0}
  /\ SafeLag \in Nat /\ MaxUpsets \in Nat

VARIABLES
  seq, archived,             \* the campaign row; its revision is the last sequence
  turn,                      \* its DM turn: none in flight, waiting, or executing
  cp,                        \* processed_through_sequence
  run, attempts,             \* the post_turn_runs rows
  ledger, tries, holder,     \* the worker_executions row of each run
  at, job, eff,              \* of each sweep: program counter, run, effective start,
  kept,                      \* and whether it found the run's row settled
  durable,       \* effective ranges whose materialization is committed
  consolidated,  \* effective ranges that advanced the checkpoint
  skipped,       \* ranges an operator passed over
  decision,      \* an operator's skip between its reads and its writes
  upsets

campaign == <<seq, archived>>
runRows == <<run, attempts>>
ledgerRows == <<ledger, tries, holder>>
sweeps == <<at, job, eff, kept>>
outcome == <<cp, durable, consolidated, skipped>>
vars == <<campaign, turn, runRows, ledgerRows, sweeps, outcome, decision, upsets>>

Range == {r \in (1..MaxSeq) \X (1..MaxSeq) : r[1] <= r[2]}
NoRun == <<0, 0>>
Nobody == "nobody"
Settled == {"succeeded", "skipped"}
RunStatus == Settled \cup {"none", "pending", "running", "failed"}
LedgerStatus == {"none", "due", "running", "succeeded", "deferred", "dead_letter"}
Place == {"rest", "claimed", "loaded", "marked", "reading", "written",
          "done", "deferred", "dropping", "erred", "poisoned"}
NoDecision == [range |-> NoRun, found |-> FALSE]

TypeOK ==
  /\ seq \in 0..MaxSeq /\ archived \in BOOLEAN
  /\ turn \in {"none", "waiting", "executing"}
  /\ cp \in 0..MaxSeq
  /\ run \in [Range -> RunStatus]
  /\ attempts \in [Range -> Nat]
  /\ ledger \in [Range -> LedgerStatus]
  /\ tries \in [Range -> Nat]
  /\ holder \in [Range -> Sweep \cup {Nobody}]
  /\ at \in [Sweep -> Place]
  /\ job \in [Sweep -> Range \cup {NoRun}]
  /\ eff \in [Sweep -> 0..MaxSeq] /\ kept \in [Sweep -> BOOLEAN]
  /\ durable \in SUBSET Range
  /\ consolidated \in SUBSET Range
  /\ skipped \in SUBSET Range
  /\ decision \in [range : Range \cup {NoRun}, found : BOOLEAN]
  /\ upsets \in Nat

Init ==
  /\ seq = 0 /\ archived = FALSE /\ turn = "none" /\ cp = 0
  /\ run = [r \in Range |-> "none"] /\ attempts = [r \in Range |-> 0]
  /\ ledger = [r \in Range |-> "none"] /\ tries = [r \in Range |-> 0]
  /\ holder = [r \in Range |-> Nobody]
  /\ at = [w \in Sweep |-> "rest"] /\ job = [w \in Sweep |-> NoRun]
  /\ eff = [w \in Sweep |-> 0] /\ kept = [w \in Sweep |-> FALSE]
  /\ durable = {} /\ consolidated = {} /\ skipped = {}
  /\ decision = NoDecision /\ upsets = 0

UpsetKind == {"crash", "error", "lease", "unstaged", "skip", "turn"}
ASSUME UpsetsAssumption == Upsets \subseteq UpsetKind
Upset(kind) == kind \in Upsets /\ upsets < MaxUpsets /\ upsets' = upsets + 1

-----------------------------------------------------------------------------
(* The trigger: a cumulative run from the checkpoint to the last event.    *)

\* A run the trigger and the sweep still expect something of.
Retryable(r) == run[r] \in {"pending", "running"} \/ (run[r] = "failed" /\ attempts[r] < MaxAttempts)

\* Events after "from - 1" that no retryable run reaches.
Fresh(from, to) ==
  {s \in from..to : \A r \in Range : Retryable(r) => r[2] < s}

InFlight == turn # "none"

\* The bound leaves room for what is owed an event: the turn in flight.
Room == seq + (IF InFlight THEN 1 ELSE 0) < MaxSeq

\* maybe_trigger_post_turn, on the checkpoint its session has read; "forced"
\* is a critical trigger.
Trigger(from, to, dormant, forced) ==
  IF /\ ~dormant /\ from <= to
     /\ forced \/ Cardinality(Fresh(from, to)) >= Threshold
     /\ run[<<from, to>>] = "none"
  THEN [run EXCEPT ![<<from, to>>] = "pending"]
  ELSE run

\* commit_campaign_mutation: one event, and a trigger in its savepoint that
\* may be lost without losing the event.
Mutate(from, dormant) ==
  /\ seq' = seq + 1
  /\ \/ run' = Trigger(from, seq + 1, dormant, FALSE) /\ UNCHANGED upsets
     \/ Upset("unstaged") /\ UNCHANGED run
  /\ UNCHANGED attempts

-----------------------------------------------------------------------------
(* Play, lifecycle and the forward DM.                                     *)

\* coordinate_turn: accepted input waits for its execution.
StartTurn ==
  /\ turn = "none" /\ ~archived /\ Room
  /\ turn' = "waiting"
  /\ UNCHANGED <<campaign, runRows, ledgerRows, sweeps, outcome, decision, upsets>>

Blocked == seq - cp > SafeLag

\* pause_if_backpressured: the attempt stays prepared, a critical run is staged.
PauseTurn ==
  /\ turn = "waiting" /\ Blocked
  /\ run' = Trigger(cp + 1, seq, archived, TRUE)
  /\ UNCHANGED <<campaign, turn, attempts, ledgerRows, sweeps, outcome, decision, upsets>>

ClaimTurn ==
  /\ turn = "waiting" /\ ~Blocked /\ ~archived
  /\ turn' = "executing"
  /\ UNCHANGED <<campaign, runRows, ledgerRows, sweeps, outcome, decision, upsets>>

CommitTurn ==
  /\ turn = "executing" /\ ~archived
  /\ turn' = "none"
  /\ Mutate(cp + 1, FALSE)
  /\ UNCHANGED <<archived, ledgerRows, sweeps, outcome, decision>>

\* A turn that fails, asks for rolls or was overtaken by another mutation is no
\* longer in flight; one that meets an archived campaign waits again.
StopTurn ==
  /\ turn = "executing"
  /\ \/ archived /\ turn' = "waiting" /\ UNCHANGED upsets
     \/ ~archived /\ turn' = "none" /\ Upset("turn")
  /\ UNCHANGED <<campaign, runRows, ledgerRows, sweeps, outcome, decision>>

\* Any other mutation of the campaign: world edits, rolls, characters.  It does not
\* ask whether the campaign is archived, only its trigger does.
OtherMutation ==
  /\ Room
  /\ Mutate(cp + 1, archived)
  /\ UNCHANGED <<archived, turn, ledgerRows, sweeps, outcome, decision>>

Archive ==
  /\ ~archived /\ Room
  /\ archived' = TRUE /\ seq' = seq + 1
  /\ UNCHANGED <<turn, runRows, ledgerRows, sweeps, outcome, decision, upsets>>

Restore ==
  /\ archived /\ Room
  /\ archived' = FALSE
  /\ Mutate(cp + 1, FALSE)
  /\ UNCHANGED <<turn, ledgerRows, sweeps, outcome, decision>>

-----------------------------------------------------------------------------
(* The sweep and its worker claim.                                         *)

Move(w, place) == at' = [at EXCEPT ![w] = place] /\ UNCHANGED <<job, eff, kept>>
Rest(w) ==
  /\ at' = [at EXCEPT ![w] = "rest"]
  /\ job' = [job EXCEPT ![w] = NoRun]
  /\ eff' = [eff EXCEPT ![w] = 0]
  /\ kept' = [kept EXCEPT ![w] = FALSE]

\* fault: campaigns without a checkpoint row are not joined.
RepairKnown ==
  /\ 0 < cp /\ cp < seq
  /\ \A r \in Range : r[2] = seq => run[r] \in Settled \cup {"none"}
  /\ run' = Trigger(cp + 1, seq, archived, FALSE)
  /\ UNCHANGED <<campaign, turn, attempts, ledgerRows, sweeps, outcome, decision, upsets>>

\* repair_missing_post_turn_runs: only if no unsettled run ends at the last event.
Repair ==
  /\ cp < seq
  /\ \A r \in Range : r[2] = seq => run[r] \in Settled \cup {"none"}
  /\ run' = Trigger(cp + 1, seq, archived, FALSE)
  /\ UNCHANGED <<campaign, turn, attempts, ledgerRows, sweeps, outcome, decision, upsets>>

\* The holder of a claim is gone: its lease runs out.
Abandoned(r) == holder[r] = Nobody \/ job[holder[r]] # r

\* One candidate of run_post_turn_sweep.  A claim that is alive is taken over
\* only when its heartbeat stopped ("lease").
Claim(w, r) ==
  /\ at[w] = "rest" /\ Retryable(r) /\ ~InFlight
  /\ \/ ledger[r] \in {"none", "due"} /\ UNCHANGED upsets
     \/ ledger[r] = "running" /\ Abandoned(r) /\ UNCHANGED upsets
     \/ ledger[r] = "running" /\ ~Abandoned(r) /\ Upset("lease")
  /\ ledger' = [ledger EXCEPT ![r] = "running"]
  /\ tries' = [tries EXCEPT ![r] = @ + 1]
  /\ holder' = [holder EXCEPT ![r] = w]
  /\ at' = [at EXCEPT ![w] = "claimed"]
  /\ job' = [job EXCEPT ![w] = r]
  /\ UNCHANGED <<campaign, turn, runRows, eff, kept, outcome, decision>>

\* A deferral that was recorded but not yet dropped is replayed, and dropped.
Replay(w, r) ==
  /\ at[w] = "rest" /\ Retryable(r) /\ ~InFlight
  /\ ledger[r] = "deferred"
  /\ at' = [at EXCEPT ![w] = "dropping"]
  /\ job' = [job EXCEPT ![w] = r]
  /\ UNCHANGED <<campaign, turn, runRows, ledgerRows, eff, kept, outcome, decision, upsets>>

-----------------------------------------------------------------------------
(* run_post_turn_range.                                                    *)

SetRun(r, s) == run' = [run EXCEPT ![r] = s]
SettleRun(r, s) == run' = IF run[r] \in Settled THEN run ELSE [run EXCEPT ![r] = s]

\* The run and the checkpoint are read; a range already covered is a duplicate.
Load(w) ==
  /\ at[w] = "claimed"
  /\ LET r == job[w] IN
       IF r[2] <= cp
       THEN Move(w, "done") /\ SettleRun(r, "succeeded")
       ELSE /\ at' = [at EXCEPT ![w] = IF run[r] \in Settled THEN "marked" ELSE "loaded"]
            /\ eff' = [eff EXCEPT ![w] = IF r[1] > cp THEN r[1] ELSE cp + 1]
            /\ kept' = [kept EXCEPT ![w] = run[r] \in Settled]
            /\ UNCHANGED <<job, run>>
  /\ UNCHANGED <<campaign, turn, attempts, ledgerRows, outcome, decision, upsets>>

\* The progress marker, written over whatever the row became since.
Mark(w) ==
  /\ at[w] = "loaded"
  /\ SetRun(job[w], "running")
  /\ attempts' = [attempts EXCEPT ![job[w]] = @ + 1]
  /\ Move(w, "marked")
  /\ UNCHANGED <<campaign, turn, ledgerRows, outcome, decision, upsets>>

\* _retire_skipped decides on its session's copy of the row, which is as it was
\* loaded or as Mark left it: what others have made of the row is overwritten.
Retire(w) == IF kept[w] THEN UNCHANGED run ELSE SetRun(job[w], "skipped")

CheckDormant(w) ==
  /\ at[w] = "marked"
  /\ IF archived THEN Move(w, "done") /\ Retire(w) ELSE Move(w, "reading") /\ UNCHANGED run
  /\ UNCHANGED <<campaign, turn, attempts, ledgerRows, outcome, decision, upsets>>

\* _defer: what was flushed is rolled back and the attempt is given back.
Defer(w) ==
  /\ IF run[job[w]] \in Settled
     THEN UNCHANGED runRows
     ELSE /\ SetRun(job[w], "pending")
          /\ attempts' = [attempts EXCEPT ![job[w]] = IF @ > 0 THEN @ - 1 ELSE 0]
  /\ Move(w, "deferred")

\* materialize_range and promote_proposed_canon flush; a turn in flight defers.
Materialize(w) ==
  /\ at[w] = "reading"
  /\ IF InFlight THEN Defer(w) ELSE Move(w, "written") /\ UNCHANGED runRows
  /\ UNCHANGED <<campaign, turn, ledgerRows, outcome, decision, upsets>>

Effective(w) == <<eff[w], job[w][2]>>

\* apply_clock_outcome: a clock that moves commits its event, and with it
\* everything the session has flushed so far.
TickClock(w) ==
  /\ at[w] = "written"
  /\ IF InFlight
     THEN Defer(w) /\ UNCHANGED <<campaign, outcome, upsets>>
     ELSE /\ Room
          /\ Mutate(eff[w], archived)
          /\ durable' = durable \cup {Effective(w)}
          /\ UNCHANGED <<archived, cp, consolidated, skipped, sweeps>>
  /\ UNCHANGED <<turn, ledgerRows, decision>>

\* _fail: a failed model call, a refused assertion, an unresolved incident.
Fail(w, class) ==
  /\ at[w] \in {"reading", "written"} /\ Upset("error")
  /\ SettleRun(job[w], "failed")
  /\ Move(w, class)
  /\ UNCHANGED <<campaign, turn, attempts, ledgerRows, outcome, decision>>

\* The locked dormancy check and the conditional checkpoint update.
RetireAtCommit(w) ==
  /\ at[w] = "written" /\ archived
  /\ Retire(w)
  /\ durable' = durable \cup {Effective(w)}
  /\ Move(w, "done")
  /\ UNCHANGED <<campaign, turn, attempts, ledgerRows, cp, consolidated, skipped, decision, upsets>>

AdvanceTo(w) ==
  /\ cp' = job[w][2]
  /\ consolidated' = consolidated \cup {Effective(w)}
  /\ durable' = durable \cup {Effective(w)}
  /\ SetRun(job[w], "succeeded")
  /\ Move(w, "done")
  /\ UNCHANGED <<campaign, turn, attempts, ledgerRows, skipped, decision, upsets>>

\* fault: the update only asks that the checkpoint moves forward.
AdvanceForward(w) == at[w] = "written" /\ ~archived /\ cp < job[w][2] /\ AdvanceTo(w)
\* fault: the dormancy check before the content work is not repeated under the lock.
AdvanceUnlocked(w) == at[w] = "written" /\ cp = eff[w] - 1 /\ AdvanceTo(w)
Advance(w) ==
  /\ at[w] = "written" /\ ~archived /\ cp = eff[w] - 1
  /\ AdvanceTo(w)

\* fault: the loser never looks whether the winner covered its range.
LoseAsDuplicate(w) ==
  /\ at[w] = "written" /\ ~archived /\ cp # eff[w] - 1
  /\ SettleRun(job[w], "succeeded") /\ Move(w, "done")
  /\ UNCHANGED <<campaign, turn, attempts, ledgerRows, outcome, decision, upsets>>
\* fault: a covered loser gets a status of its own, outside the table's constraint.
LoseAsCovered(w) ==
  /\ at[w] = "written" /\ ~archived /\ job[w][2] <= cp
  /\ SettleRun(job[w], "duplicate") /\ Move(w, "done")
  /\ UNCHANGED <<campaign, turn, attempts, ledgerRows, outcome, decision, upsets>>

\* Another executor moved the checkpoint: covered, or a failure that retries.
LoseRace(w) ==
  /\ at[w] = "written" /\ ~archived /\ cp # eff[w] - 1
  /\ IF job[w][2] <= cp
     THEN SettleRun(job[w], "succeeded") /\ Move(w, "done")
     ELSE SettleRun(job[w], "failed") /\ Move(w, "erred")
  /\ UNCHANGED <<campaign, turn, attempts, ledgerRows, outcome, decision, upsets>>

-----------------------------------------------------------------------------
(* execute_worker_job records the outcome, if the claim still stands.      *)

Record(w, verdict) ==
  LET r == job[w] IN
  IF holder[r] = w /\ ledger[r] = "running"
  THEN ledger' = [ledger EXCEPT ![r] = verdict] /\ holder' = [holder EXCEPT ![r] = Nobody]
  ELSE UNCHANGED <<ledger, holder>>

Finish(w) ==
  /\ \/ at[w] = "done" /\ Record(w, "succeeded")
     \/ at[w] = "erred" /\ Record(w, IF tries[job[w]] >= MaxAttempts THEN "dead_letter" ELSE "due")
     \/ at[w] = "poisoned" /\ Record(w, "dead_letter")
  /\ Rest(w)
  /\ UNCHANGED <<campaign, turn, runRows, tries, outcome, decision, upsets>>

\* A deferral is recorded as a success and its row is dropped afterwards.
FinishDeferred(w) ==
  /\ at[w] = "deferred"
  /\ Record(w, "deferred")
  /\ IF holder[job[w]] = w /\ ledger[job[w]] = "running" THEN Move(w, "dropping") ELSE Rest(w)
  /\ UNCHANGED <<campaign, turn, runRows, tries, outcome, decision, upsets>>

\* fault: the row of a deferral stays, and answers for the run from then on.
KeepDeferred(w) ==
  /\ at[w] = "dropping" /\ Rest(w)
  /\ UNCHANGED <<campaign, turn, runRows, ledgerRows, outcome, decision, upsets>>

DropDeferred(w) ==
  /\ at[w] = "dropping"
  /\ ledger' = [ledger EXCEPT ![job[w]] = "none"]
  /\ tries' = [tries EXCEPT ![job[w]] = 0]
  /\ holder' = [holder EXCEPT ![job[w]] = Nobody]
  /\ Rest(w)
  /\ UNCHANGED <<campaign, turn, runRows, outcome, decision, upsets>>

\* The process dies; what it flushed is lost, what it committed stays.
Crash(w) ==
  /\ at[w] # "rest" /\ Upset("crash")
  /\ Rest(w)
  /\ UNCHANGED <<campaign, turn, runRows, ledgerRows, outcome, decision>>

-----------------------------------------------------------------------------
(* mark_post_turn_skipped: an operator passes over a span.                 *)

DecideSkip ==
  /\ decision = NoDecision /\ Upset("skip")
  /\ \E t \in cp + 1..seq :
       decision' = [range |-> <<cp + 1, t>>, found |-> run[<<cp + 1, t>>] # "none"]
  /\ UNCHANGED <<campaign, turn, runRows, ledgerRows, sweeps, outcome>>

\* A row inserted since then makes the insert of the skip fail.
WriteSkip ==
  LET r == decision.range IN
  /\ decision # NoDecision
  /\ IF decision.found = (run[r] # "none")
     THEN /\ SetRun(r, "skipped")
          /\ cp' = (IF cp < r[2] THEN r[2] ELSE cp)
          /\ skipped' = skipped \cup {r}
     ELSE UNCHANGED <<run, cp, skipped>>
  /\ decision' = NoDecision
  /\ UNCHANGED <<campaign, turn, attempts, ledgerRows, sweeps, durable, consolidated, upsets>>

-----------------------------------------------------------------------------
Execute(w) ==
  \/ Load(w) \/ Mark(w) \/ CheckDormant(w) \/ Materialize(w)
  \/ RetireAtCommit(w) \/ Advance(w) \/ LoseRace(w)
  \/ Finish(w) \/ FinishDeferred(w) \/ DropDeferred(w)

Play == StartTurn \/ PauseTurn \/ ClaimTurn \/ CommitTurn \/ StopTurn
        \/ OtherMutation \/ Archive \/ Restore

Next ==
  \/ Play \/ Repair \/ DecideSkip \/ WriteSkip
  \/ \E w \in Sweep :
       \/ Execute(w) \/ TickClock(w) \/ Crash(w)
       \/ Fail(w, "erred") \/ Fail(w, "poisoned")
       \/ \E r \in Range : Claim(w, r) \/ Replay(w, r)

Spec == Init /\ [][Next]_vars

-----------------------------------------------------------------------------
(* Safety.                                                                 *)

Spans(r) == r[1]..r[2]

\* Every sequence up to the checkpoint was consolidated in exactly one advancing
\* range or passed over by an operator, whoever raced: overlapping cumulative
\* runs, a run taken over from a live executor, an audited skip (service.py:680).
CheckpointAccounted ==
  /\ \A r, s \in consolidated : r # s => Spans(r) \cap Spans(s) = {}
  /\ \A s \in 1..cp : \E r \in consolidated \cup skipped : s \in Spans(r)

\* A run that reads as succeeded is behind the checkpoint, also when the loser of
\* a race or a duplicate delivery wrote it (service.py:401, 697).
SucceededIsCovered == \A r \in Range : run[r] = "succeeded" => r[2] <= cp

Promise == INSTANCE CheckpointLedger

\* Consolidation implements the ledger's promise: in order, once, not while the
\* campaign is dormant.
KeepsCheckpoint == Promise!LedgerSpec

-----------------------------------------------------------------------------
(* Liveness.  The cron comes round, a sweep tries each of its candidates,  *)
(* and an executor that does not crash goes on; a turn that may execute is *)
(* executed.  Nobody has to play, restore or decide anything.              *)
Fairness ==
  /\ WF_vars(Repair) /\ WF_vars(WriteSkip)
  /\ WF_vars(ClaimTurn) /\ WF_vars(CommitTurn \/ StopTurn)
  /\ \A w \in Sweep : WF_vars(Execute(w))
  /\ \A r \in Range : WF_vars(\E w \in Sweep : Claim(w, r) \/ Replay(w, r))
FairSpec == Spec /\ Fairness

Paused == turn = "waiting" /\ Blocked
\* A prepared turn put away with its archived campaign: it counts as in flight and
\* defers the campaign's runs as long (turns.py:328, lifecycle.py:69).
Shelved == archived /\ InFlight
Exhausted == \E r \in Range :
  ledger[r] = "dead_letter" \/ (run[r] = "failed" /\ attempts[r] >= MaxAttempts)
\* An executor that lost its claim marked the run as running after its successor had
\* retired it, and died: the successor's worker row answers for the run.
Overmarked == \E r \in Range : Retryable(r) /\ ledger[r] = "succeeded"
Stuck == Exhausted \/ Paused \/ Shelved \/ Overmarked

\* Once play stops, every staged run is executed until its range is consolidated or
\* it is retired, through deferrals, failures, crashes, archives and lost claims: no
\* row left behind by a deferral is replayed for ever (service.py:1066).  Left out: a
\* run that used up its attempts, the turn that is paused for the very backlog the
\* run would clear, the prepared turn of an archived campaign, and the run whose
\* retirement a loser that then died has overwritten.
RunsSettle == []<>((\A r \in Range : Retryable(r) => r[2] <= cp) \/ Stuck)

\* A backlog of a full batch is consolidated although the trigger that should have
\* staged it was lost with its savepoint, or was retired by an archive
\* (service.py:928, events.py:246), with the same exceptions.
CatchesUp == seq - cp >= Threshold ~> (seq - cp < Threshold \/ archived \/ Stuck)

-----------------------------------------------------------------------------
(* What the code says of itself and does not keep.                         *)

\* "The sweep retries after catch-up removes the backpressure state automatically"
\* (backpressure.py:217).
PausedTurnResumes == Paused ~> (~Paused \/ Exhausted \/ archived)

\* "Dormancy freezes fictional time/clocks/NPC plans" (service.py:236): while the
\* campaign is archived nothing is added to its world.
DormantWorldFrozen == [][archived /\ archived' => durable' = durable /\ seq' = seq]_vars
=============================================================================
