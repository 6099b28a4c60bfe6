--------------------------- MODULE PostTurnProofs ---------------------------
(***************************************************************************)
(* Proofs about PostTurn for any number of events, sweeps and upsets, any   *)
(* batch size, retry budget and lag.                                        *)
(***************************************************************************)
EXTENDS PostTurn, TLAPS

USE PostTurnAssumption

-----------------------------------------------------------------------------
\* The bound always leaves room for the event of the turn in flight.
Reserve == seq + (IF InFlight THEN 1 ELSE 0) <= MaxSeq

\* A range that may be staged: it starts no later than after the checkpoint and
\* ends at an event.
Reachable(r) == r[1] <= cp + 1 /\ r[2] <= seq

\* So do the rows, the runs that sweeps work on and an operator's decision.
Staged == \A r \in Range : run[r] # "none" => Reachable(r)
Working == \A w \in Sweep : at[w] # "rest" => job[w] \in Range /\ Reachable(job[w])
Decided == decision # NoDecision => decision.range \in Range /\ Reachable(decision.range)

\* From the time it has read the checkpoint an executor's effective range begins
\* at or before the next event and is not empty.
Begun == {"loaded", "marked", "reading", "written"}
Effectual == \A w \in Sweep :
  at[w] \in Begun => eff[w] >= 1 /\ eff[w] <= cp + 1 /\ eff[w] <= job[w][2]

\* Nothing beyond the last event or the checkpoint is consolidated.
Behind == cp <= seq /\ \A r \in consolidated : r[2] <= cp

Typed == TypeOK /\ Reserve /\ Staged /\ Working /\ Decided /\ Effectual /\ Behind

Inv == Typed /\ CheckpointAccounted /\ SucceededIsCovered

LEMMA RangeElement ==
  ASSUME NEW r \in Range
  PROVE  r[1] \in 1..MaxSeq /\ r[2] \in 1..MaxSeq /\ r[1] <= r[2] /\ r = <<r[1], r[2]>>
BY DEF Range

LEMMA InRange ==
  ASSUME NEW i \in 1..MaxSeq, NEW j \in 1..MaxSeq, i <= j
  PROVE  <<i, j>> \in Range /\ <<i, j>>[1] = i /\ <<i, j>>[2] = j
BY DEF Range

-----------------------------------------------------------------------------
(* What a step may do to the rows of the runs.                             *)

\* Rows are staged only for ranges that are reachable afterwards, and written as
\* succeeded only behind the checkpoint.
RowsStep ==
  /\ run' \in [Range -> RunStatus]
  /\ \A r \in Range : run'[r] # "none" => run[r] # "none" \/ (r[1] <= cp' + 1 /\ r[2] <= seq')
  /\ \A r \in Range : run'[r] = "succeeded" => run[r] = "succeeded" \/ r[2] <= cp'

LEMMA TriggerRows ==
  ASSUME Typed, NEW from \in Nat, NEW to \in Nat, NEW dormant \in BOOLEAN, NEW forced \in BOOLEAN,
         from <= cp' + 1, to <= seq', run' = Trigger(from, to, dormant, forced)
  PROVE  RowsStep
<1>1. run \in [Range -> RunStatus] /\ "pending" \in RunStatus
  BY DEF Typed, TypeOK, RunStatus
<1>2. CASE run' = run
  BY <1>1, <1>2 DEF RowsStep
<1>3. CASE run' = [run EXCEPT ![<<from, to>>] = "pending"]
  <2>1. run' \in [Range -> RunStatus]
    BY <1>1, <1>3
  <2>2. ASSUME NEW r \in Range
        PROVE  run'[r] = run[r] \/ (run'[r] = "pending" /\ r[1] = from /\ r[2] = to)
    BY <1>1, <1>3
  <2>3. QED
    BY <2>1, <2>2 DEF RowsStep
<1>4. QED
  BY <1>2, <1>3 DEF Trigger

LEMMA MutateRows ==
  ASSUME Typed, NEW from \in Nat, NEW dormant \in BOOLEAN, from <= cp' + 1, Mutate(from, dormant)
  PROVE  RowsStep
<1>1. seq' = seq + 1 /\ seq' \in Nat
  BY DEF Mutate, Typed, TypeOK
<1>2. CASE run' = Trigger(from, seq + 1, dormant, FALSE)
  <2>1. run' = Trigger(from, seq', dormant, FALSE)
    BY <1>1, <1>2
  <2>2. seq' <= seq' /\ FALSE \in BOOLEAN
    BY <1>1
  <2>3. QED
    BY <1>1, <2>1, <2>2, TriggerRows
<1>3. CASE UNCHANGED run
  BY <1>3 DEF RowsStep, Typed, TypeOK
<1>4. QED
  BY <1>2, <1>3 DEF Mutate
-----------------------------------------------------------------------------
(* What a step may do to everything else.                                  *)

CampaignTyped == /\ seq \in 0..MaxSeq /\ archived \in BOOLEAN
                 /\ turn \in {"none", "waiting", "executing"} /\ upsets \in Nat
LedgerTyped == /\ ledger \in [Range -> LedgerStatus] /\ tries \in [Range -> Nat]
               /\ holder \in [Range -> Sweep \cup {Nobody}]
SweepTyped == /\ at \in [Sweep -> Place] /\ job \in [Sweep -> Range \cup {NoRun}]
              /\ eff \in [Sweep -> 0..MaxSeq] /\ kept \in [Sweep -> BOOLEAN]
OutcomeTyped == /\ cp \in 0..MaxSeq /\ durable \in SUBSET Range
                /\ consolidated \in SUBSET Range /\ skipped \in SUBSET Range
DecisionTyped == decision \in [range : Range \cup {NoRun}, found : BOOLEAN]

LEMMA TypeParts ==
  TypeOK <=> /\ CampaignTyped /\ LedgerTyped /\ SweepTyped /\ OutcomeTyped /\ DecisionTyped
             /\ run \in [Range -> RunStatus] /\ attempts \in [Range -> Nat]
BY DEF TypeOK, CampaignTyped, LedgerTyped, SweepTyped, OutcomeTyped, DecisionTyped

\* The campaign moves on by at most one event, and keeps its reserve.
CampaignStep == /\ CampaignTyped' /\ Reserve'
                /\ (seq' = seq /\ archived' = archived) \/ (seq' = seq + 1 /\ seq < MaxSeq)

\* A sweep works on a row that exists, and has an effective range from Load on.
SweepStep ==
  /\ SweepTyped'
  /\ \A w \in Sweep : at'[w] # "rest" =>
       /\ job'[w] \in Range
       /\ (at[w] # "rest" /\ job'[w] = job[w]) \/ run[job'[w]] # "none"
  /\ \A w \in Sweep : at'[w] \in Begun =>
       \/ at[w] \in Begun /\ eff'[w] = eff[w] /\ job'[w] = job[w]
       \/ eff'[w] >= 1 /\ eff'[w] <= cp + 1 /\ eff'[w] <= job'[w][2]

\* The checkpoint stays, advances over a range that begins behind it, or is moved
\* by an operator.
Stays == UNCHANGED <<cp, consolidated, skipped>>
Advances == \E t \in cp + 1..seq :
  /\ ~archived /\ cp' = t /\ consolidated' = consolidated \cup {<<cp + 1, t>>}
  /\ UNCHANGED <<campaign, skipped>>
Skips == \E r \in Range :
  /\ Reachable(r)
  /\ cp' = (IF cp < r[2] THEN r[2] ELSE cp) /\ skipped' = skipped \cup {r}
  /\ UNCHANGED <<campaign, consolidated>>
OutcomeStep == OutcomeTyped' /\ (Stays \/ Advances \/ Skips)

DecisionStep ==
  /\ DecisionTyped'
  /\ decision' \in {decision, NoDecision} \/ (decision'.range \in Range /\ Reachable(decision'.range))

GoodStep ==
  /\ CampaignStep /\ RowsStep /\ attempts' \in [Range -> Nat] /\ LedgerTyped'
  /\ SweepStep /\ OutcomeStep /\ DecisionStep

-----------------------------------------------------------------------------
(* The parts of a step that leave something alone.                         *)

LEMMA CampaignKept == ASSUME Typed, UNCHANGED <<campaign, turn>>, upsets' \in Nat PROVE CampaignStep
BY DEF Typed, TypeOK, CampaignStep, CampaignTyped, Reserve, campaign, InFlight

LEMMA RowsKept == ASSUME Typed, UNCHANGED run PROVE RowsStep
BY DEF Typed, TypeOK, RowsStep

LEMMA AttemptsKept == ASSUME Typed, UNCHANGED attempts PROVE attempts' \in [Range -> Nat]
BY DEF Typed, TypeOK

LEMMA LedgerKept == ASSUME Typed, UNCHANGED ledgerRows PROVE LedgerTyped'
BY DEF Typed, TypeOK, LedgerTyped, ledgerRows

LEMMA SweepsKept == ASSUME Typed, UNCHANGED sweeps PROVE SweepStep
BY DEF Typed, TypeOK, Working, SweepStep, SweepTyped, sweeps

LEMMA OutcomeKept == ASSUME Typed, UNCHANGED outcome PROVE OutcomeStep
BY DEF Typed, TypeOK, OutcomeStep, OutcomeTyped, Stays, outcome

LEMMA DecisionKept == ASSUME Typed, UNCHANGED decision PROVE DecisionStep
BY DEF Typed, TypeOK, DecisionStep, DecisionTyped

LEMMA UpsetTyped == ASSUME Typed, NEW kind, Upset(kind) PROVE upsets' \in Nat
BY DEF Typed, TypeOK, Upset

\* A sweep that moves within its run, or goes to rest.
LEMMA Moving ==
  ASSUME Typed, NEW w \in Sweep, NEW place \in Place, at[w] # "rest",
         place \in Begun => at[w] \in Begun, Move(w, place)
  PROVE  SweepStep
BY DEF Typed, TypeOK, Working, SweepStep, SweepTyped, Move

LEMMA Resting ==
  ASSUME Typed, NEW w \in Sweep, Rest(w)
  PROVE  SweepStep
<1>1. SweepTyped'
  BY DEF Typed, TypeOK, Rest, SweepTyped, Place
<1>2. \A v \in Sweep : v # w => at'[v] = at[v] /\ job'[v] = job[v] /\ eff'[v] = eff[v]
  BY DEF Typed, TypeOK, Rest
<1>3. at'[w] = "rest"
  BY DEF Typed, TypeOK, Rest
<1>4. QED
  BY <1>1, <1>2, <1>3 DEF SweepStep, Typed, Working, Begun

\* A row that a sweep's own run is set to.
LEMMA SettingRow ==
  ASSUME Typed, NEW r \in Range, NEW s \in RunStatus, run[r] # "none" \/ (r[1] <= cp' + 1 /\ r[2] <= seq'),
         s = "succeeded" => r[2] <= cp', SetRun(r, s)
  PROVE  RowsStep
BY DEF Typed, TypeOK, RowsStep, SetRun
-----------------------------------------------------------------------------
(* Every action is such a step.                                            *)

LEMMA StagingKept == ASSUME Typed, UNCHANGED <<run, attempts>> PROVE RowsStep /\ attempts' \in [Range -> Nat]
BY RowsKept, AttemptsKept

LEMMA EngineKept ==
  ASSUME Typed, UNCHANGED <<ledgerRows, sweeps>>
  PROVE  LedgerTyped' /\ SweepStep
BY LedgerKept, SweepsKept

LEMMA VerdictKept ==
  ASSUME Typed, UNCHANGED <<outcome, decision>>
  PROVE  OutcomeStep /\ DecisionStep
BY OutcomeKept, DecisionKept

LEMMA Mutating ==
  ASSUME Typed, NEW from \in Nat, NEW dormant \in BOOLEAN, from <= cp' + 1, Mutate(from, dormant),
         seq + 1 <= MaxSeq
  PROVE  seq' = seq + 1 /\ RowsStep /\ attempts' \in [Range -> Nat] /\ upsets' \in Nat
<1>1. seq' = seq + 1 /\ UNCHANGED attempts
  BY DEF Mutate
<1>2. upsets' \in Nat
  BY UpsetTyped DEF Mutate, Typed, TypeOK
<1>3. QED
  BY <1>1, <1>2, MutateRows, AttemptsKept

LEMMA Next1 == Typed => cp \in Nat /\ cp + 1 \in Nat /\ seq \in Nat /\ archived \in BOOLEAN
BY DEF Typed, TypeOK

LEMMA StartTurnGood == Typed /\ StartTurn => GoodStep
<1> SUFFICES ASSUME Typed, StartTurn PROVE GoodStep
  OBVIOUS
<1>1. CampaignStep
  BY DEF Typed, TypeOK, StartTurn, CampaignStep, CampaignTyped, Reserve, Room, InFlight, campaign
<1>2. QED
  BY <1>1, StagingKept, EngineKept, VerdictKept DEF StartTurn, GoodStep, runRows

LEMMA StagingGood ==
  ASSUME Typed, NEW forced \in BOOLEAN, run' = Trigger(cp + 1, seq, archived, forced),
         UNCHANGED <<campaign, turn, attempts, ledgerRows, sweeps, outcome, decision, upsets>>
  PROVE  GoodStep
<1>1. CampaignStep
  BY CampaignKept DEF Typed, TypeOK
<1>2. cp' = cp /\ seq' = seq
  BY DEF outcome, campaign
<1>3. RowsStep
  BY <1>2, Next1, TriggerRows DEF Typed, TypeOK
<1>4. QED
  BY <1>1, <1>3, AttemptsKept, EngineKept, VerdictKept DEF GoodStep

LEMMA PauseTurnGood == Typed /\ PauseTurn => GoodStep
BY StagingGood DEF PauseTurn

LEMMA RepairGood == Typed /\ Repair => GoodStep
BY StagingGood DEF Repair

LEMMA ClaimTurnGood == Typed /\ ClaimTurn => GoodStep
<1> SUFFICES ASSUME Typed, ClaimTurn PROVE GoodStep
  OBVIOUS
<1>1. CampaignStep
  BY DEF Typed, TypeOK, ClaimTurn, CampaignStep, CampaignTyped, Reserve, InFlight, campaign
<1>2. QED
  BY <1>1, StagingKept, EngineKept, VerdictKept DEF ClaimTurn, GoodStep, runRows

LEMMA CommitTurnGood == Typed /\ CommitTurn => GoodStep
<1> SUFFICES ASSUME Typed, CommitTurn PROVE GoodStep
  OBVIOUS
<1>1. seq + 1 <= MaxSeq
  BY DEF Typed, TypeOK, CommitTurn, Reserve, InFlight
<1>2. cp' = cp
  BY DEF CommitTurn, outcome
<1>3. seq' = seq + 1 /\ RowsStep /\ attempts' \in [Range -> Nat] /\ upsets' \in Nat
  <2>1. cp + 1 \in Nat /\ cp + 1 <= cp' + 1 /\ FALSE \in BOOLEAN
    BY <1>2, Next1
  <2>2. Mutate(cp + 1, FALSE)
    BY DEF CommitTurn
  <2>3. QED
    BY <1>1, <2>1, <2>2, Mutating
<1>4. CampaignStep
  BY <1>1, <1>3 DEF Typed, TypeOK, CommitTurn, CampaignStep, CampaignTyped, Reserve, InFlight
<1>5. QED
  BY <1>3, <1>4, EngineKept, VerdictKept DEF CommitTurn, GoodStep

LEMMA StopTurnGood == Typed /\ StopTurn => GoodStep
<1> SUFFICES ASSUME Typed, StopTurn PROVE GoodStep
  OBVIOUS
<1>1. upsets' \in Nat
  BY UpsetTyped DEF StopTurn, Typed, TypeOK
<1>2. CampaignStep
  BY <1>1 DEF Typed, TypeOK, StopTurn, CampaignStep, CampaignTyped, Reserve, InFlight, campaign
<1>3. QED
  BY <1>2, StagingKept, EngineKept, VerdictKept DEF StopTurn, GoodStep, runRows

LEMMA OtherMutationGood == Typed /\ OtherMutation => GoodStep
<1> SUFFICES ASSUME Typed, OtherMutation PROVE GoodStep
  OBVIOUS
<1>1. seq + 1 <= MaxSeq
  BY DEF Typed, TypeOK, OtherMutation, Room, InFlight
<1>2. cp' = cp
  BY DEF OtherMutation, outcome
<1>3. seq' = seq + 1 /\ RowsStep /\ attempts' \in [Range -> Nat] /\ upsets' \in Nat
  <2>1. cp + 1 \in Nat /\ cp + 1 <= cp' + 1 /\ archived \in BOOLEAN
    BY <1>2, Next1
  <2>2. Mutate(cp + 1, archived)
    BY DEF OtherMutation
  <2>3. QED
    BY <1>1, <2>1, <2>2, Mutating
<1>4. CampaignStep
  BY <1>1, <1>3 DEF Typed, TypeOK, OtherMutation, Room, CampaignStep, CampaignTyped, Reserve, InFlight
<1>5. QED
  BY <1>3, <1>4, EngineKept, VerdictKept DEF OtherMutation, GoodStep

LEMMA ArchiveGood == Typed /\ Archive => GoodStep
<1> SUFFICES ASSUME Typed, Archive PROVE GoodStep
  OBVIOUS
<1>1. upsets' \in Nat
  BY DEF Archive, Typed, TypeOK
<1>2. CampaignStep
  <2>1. archived' = TRUE /\ turn' = turn /\ seq' = seq + 1
        /\ seq + (IF turn # "none" THEN 1 ELSE 0) < MaxSeq
    BY DEF Archive, Room, InFlight
  <2>2. (IF turn # "none" THEN 1 ELSE 0) \in Nat
    OBVIOUS
  <2>3. Reserve'
    BY <2>1, <2>2 DEF Typed, TypeOK, Reserve, InFlight
  <2>4. CampaignTyped' /\ seq < MaxSeq
    BY <1>1, <2>1, <2>2 DEF Typed, TypeOK, CampaignTyped
  <2>5. QED
    BY <2>1, <2>3, <2>4 DEF CampaignStep
<1>3. QED
  BY <1>2, StagingKept, EngineKept, VerdictKept DEF Archive, GoodStep, runRows

LEMMA RestoreGood == Typed /\ Restore => GoodStep
<1> SUFFICES ASSUME Typed, Restore PROVE GoodStep
  OBVIOUS
<1>1. seq + 1 <= MaxSeq
  BY DEF Typed, TypeOK, Restore, Room, InFlight
<1>2. cp' = cp
  BY DEF Restore, outcome
<1>3. seq' = seq + 1 /\ RowsStep /\ attempts' \in [Range -> Nat] /\ upsets' \in Nat
  <2>1. cp + 1 \in Nat /\ cp + 1 <= cp' + 1 /\ FALSE \in BOOLEAN
    BY <1>2, Next1
  <2>2. Mutate(cp + 1, FALSE)
    BY DEF Restore
  <2>3. QED
    BY <1>1, <2>1, <2>2, Mutating
<1>4. CampaignStep
  <2>1. archived = TRUE /\ archived' = FALSE /\ turn' = turn
    BY DEF Typed, TypeOK, Restore
  <2>2. seq + 1 + (IF turn # "none" THEN 1 ELSE 0) <= MaxSeq
    BY <2>1 DEF Typed, TypeOK, Restore, Room, InFlight
  <2>3. Reserve'
    BY <1>3, <2>1, <2>2 DEF Typed, TypeOK, Reserve, InFlight
  <2>4. seq < MaxSeq /\ seq + 1 \in 0..MaxSeq
    BY <1>1 DEF Typed, TypeOK
  <2>5. CampaignTyped'
    BY <1>3, <2>1, <2>4 DEF Typed, TypeOK, CampaignTyped
  <2>6. QED
    BY <1>3, <2>3, <2>4, <2>5 DEF CampaignStep
<1>5. QED
  BY <1>3, <1>4, EngineKept, VerdictKept DEF Restore, GoodStep
-----------------------------------------------------------------------------
(* The steps of a sweep.                                                   *)

LEMMA ClaimGood == \A w \in Sweep, r \in Range : Typed /\ Claim(w, r) => GoodStep
<1> SUFFICES ASSUME NEW w \in Sweep, NEW r \in Range, Typed, Claim(w, r) PROVE GoodStep
  OBVIOUS
<1>1. upsets' \in Nat
  BY UpsetTyped DEF Claim, Typed, TypeOK
<1>2. CampaignStep
  BY <1>1, CampaignKept DEF Claim
<1>3. LedgerTyped'
  BY DEF Claim, Typed, TypeOK, LedgerTyped, LedgerStatus
<1>4. SweepStep
  <2>1. SweepTyped'
    BY DEF Claim, Typed, TypeOK, SweepTyped, Place
  <2>2. run[r] # "none"
    BY DEF Claim, Retryable
  <2>3. \A v \in Sweep : v # w => at'[v] = at[v] /\ job'[v] = job[v] /\ eff'[v] = eff[v]
    BY DEF Claim, Typed, TypeOK
  <2>4. at'[w] = "claimed" /\ job'[w] = r
    BY DEF Claim, Typed, TypeOK
  <2>5. QED
    BY <2>1, <2>2, <2>3, <2>4 DEF SweepStep, Typed, Working, Begun
<1>5. QED
  BY <1>2, <1>3, <1>4, StagingKept, VerdictKept DEF Claim, GoodStep, runRows

LEMMA ReplayGood == \A w \in Sweep, r \in Range : Typed /\ Replay(w, r) => GoodStep
<1> SUFFICES ASSUME NEW w \in Sweep, NEW r \in Range, Typed, Replay(w, r) PROVE GoodStep
  OBVIOUS
<1>1. CampaignStep
  BY CampaignKept DEF Replay, Typed, TypeOK
<1>2. SweepStep
  <2>1. SweepTyped'
    BY DEF Replay, Typed, TypeOK, SweepTyped, Place
  <2>2. run[r] # "none"
    BY DEF Replay, Retryable
  <2>3. \A v \in Sweep : v # w => at'[v] = at[v] /\ job'[v] = job[v] /\ eff'[v] = eff[v]
    BY DEF Replay, Typed, TypeOK
  <2>4. at'[w] = "dropping" /\ job'[w] = r
    BY DEF Replay, Typed, TypeOK
  <2>5. QED
    BY <2>1, <2>2, <2>3, <2>4 DEF SweepStep, Typed, Working, Begun
<1>3. QED
  BY <1>1, <1>2, LedgerKept, StagingKept, VerdictKept DEF Replay, GoodStep, runRows

\* A sweep that is at work has a run of its own.
LEMMA AtWork ==
  ASSUME Typed, NEW w \in Sweep, at[w] # "rest"
  PROVE  /\ job[w] \in Range /\ Reachable(job[w])
         /\ job[w][1] \in 1..MaxSeq /\ job[w][2] \in 1..MaxSeq /\ job[w][1] <= job[w][2]
BY RangeElement DEF Typed, Working

\* A row set to something other than a success, or to a success behind the checkpoint.
LEMMA SettingOwn ==
  ASSUME Typed, NEW w \in Sweep, at[w] # "rest", NEW s \in RunStatus,
         cp' \in Nat, seq' \in Nat, cp <= cp', seq <= seq', s = "succeeded" => job[w][2] <= cp'
  PROVE  /\ SetRun(job[w], s) => RowsStep
         /\ SettleRun(job[w], s) => RowsStep
<1>1. job[w][1] <= cp' + 1 /\ job[w][2] <= seq' /\ job[w] \in Range
  BY AtWork DEF Reachable, Typed, TypeOK
<1>2. SetRun(job[w], s) => RowsStep
  BY <1>1, SettingRow
<1>3. SettleRun(job[w], s) => UNCHANGED run \/ SetRun(job[w], s)
  BY DEF SettleRun, SetRun
<1>4. QED
  BY <1>2, <1>3, RowsKept

LEMMA LoadGood == \A w \in Sweep : Typed /\ Load(w) => GoodStep
<1> SUFFICES ASSUME NEW w \in Sweep, Typed, Load(w) PROVE GoodStep
  OBVIOUS
<1>1. at[w] = "claimed" /\ UNCHANGED <<campaign, turn, attempts, ledgerRows, outcome, decision, upsets>>
  BY DEF Load
<1>2. CampaignStep
  BY <1>1, CampaignKept DEF Typed, TypeOK
<1>3. cp' = cp /\ seq' = seq /\ cp \in Nat /\ seq \in Nat /\ cp \in 0..MaxSeq
  BY <1>1 DEF outcome, campaign, Typed, TypeOK
<1>4. /\ job[w] \in Range /\ Reachable(job[w])
      /\ job[w][1] \in 1..MaxSeq /\ job[w][2] \in 1..MaxSeq /\ job[w][1] <= job[w][2]
  BY <1>1, AtWork
<1>5. RowsStep /\ SweepStep
  <2>1. CASE job[w][2] <= cp
    <3>1. Move(w, "done") /\ SettleRun(job[w], "succeeded")
      BY <2>1 DEF Load
    <3>2. SweepStep
      BY <1>1, <3>1, Moving DEF Place, Begun
    <3>3. QED
      BY <1>1, <1>3, <2>1, <3>1, <3>2, SettingOwn DEF RunStatus, Settled
  <2>2. CASE ~(job[w][2] <= cp)
    <3>1. /\ at' = [at EXCEPT ![w] = IF run[job[w]] \in Settled THEN "marked" ELSE "loaded"]
          /\ eff' = [eff EXCEPT ![w] = IF job[w][1] > cp THEN job[w][1] ELSE cp + 1]
          /\ kept' = [kept EXCEPT ![w] = run[job[w]] \in Settled]
          /\ job' = job /\ run' = run
      BY <2>2 DEF Load
    <3>2. eff'[w] \in 1..MaxSeq /\ eff'[w] <= cp + 1 /\ eff'[w] <= job[w][2]
      BY <1>3, <1>4, <2>2, <3>1 DEF Reachable, Typed, TypeOK
    <3>3. at' \in [Sweep -> Place] /\ job' \in [Sweep -> Range \cup {NoRun}]
      BY <3>1 DEF Typed, TypeOK, Place
    <3>4. eff' \in [Sweep -> 0..MaxSeq] /\ kept' \in [Sweep -> BOOLEAN]
      BY <1>3, <1>4, <2>2, <3>1 DEF Typed, TypeOK
    <3>5. \A v \in Sweep : v # w => at'[v] = at[v] /\ eff'[v] = eff[v]
      BY <3>1 DEF Typed, TypeOK
    <3>6. SweepStep
      BY <1>1, <1>4, <3>1, <3>2, <3>3, <3>4, <3>5 DEF SweepStep, SweepTyped, Typed, Working
    <3>7. QED
      BY <3>1, <3>6, RowsKept
  <2>3. QED
    BY <2>1, <2>2
<1>6. QED
  BY <1>1, <1>2, <1>5, AttemptsKept, LedgerKept, VerdictKept DEF GoodStep

LEMMA MarkGood == \A w \in Sweep : Typed /\ Mark(w) => GoodStep
<1> SUFFICES ASSUME NEW w \in Sweep, Typed, Mark(w) PROVE GoodStep
  OBVIOUS
<1>1. at[w] = "loaded" /\ UNCHANGED <<campaign, turn, ledgerRows, outcome, decision, upsets>>
  BY DEF Mark
<1>2. CampaignStep
  BY <1>1, CampaignKept DEF Typed, TypeOK
<1>3. cp' = cp /\ seq' = seq /\ cp \in Nat /\ seq \in Nat
  BY <1>1 DEF outcome, campaign, Typed, TypeOK
<1>4. RowsStep
  BY <1>1, <1>3, SettingOwn DEF Mark, RunStatus
<1>5. attempts' \in [Range -> Nat]
  BY <1>1, AtWork DEF Mark, Typed, TypeOK
<1>6. SweepStep
  BY <1>1, Moving DEF Mark, Place, Begun
<1>7. QED
  BY <1>1, <1>2, <1>4, <1>5, <1>6, LedgerKept, VerdictKept DEF GoodStep

LEMMA CheckDormantGood == \A w \in Sweep : Typed /\ CheckDormant(w) => GoodStep
<1> SUFFICES ASSUME NEW w \in Sweep, Typed, CheckDormant(w) PROVE GoodStep
  OBVIOUS
<1>1. at[w] = "marked" /\ UNCHANGED <<campaign, turn, attempts, ledgerRows, outcome, decision, upsets>>
  BY DEF CheckDormant
<1>2. CampaignStep
  BY <1>1, CampaignKept DEF Typed, TypeOK
<1>3. cp' = cp /\ seq' = seq /\ cp \in Nat /\ seq \in Nat
  BY <1>1 DEF outcome, campaign, Typed, TypeOK
<1>4. RowsStep
  <2>1. UNCHANGED run \/ SetRun(job[w], "skipped")
    BY DEF CheckDormant, Retire
  <2>2. QED
    BY <1>1, <1>3, <2>1, RowsKept, SettingOwn DEF RunStatus, Settled
<1>5. SweepStep
  BY <1>1, Moving DEF CheckDormant, Place, Begun
<1>6. QED
  BY <1>1, <1>2, <1>4, <1>5, AttemptsKept, LedgerKept, VerdictKept DEF GoodStep

LEMMA Deferring ==
  ASSUME Typed, NEW w \in Sweep, at[w] # "rest", Defer(w), cp' = cp, seq' = seq
  PROVE  RowsStep /\ attempts' \in [Range -> Nat] /\ SweepStep
<1>1. cp \in Nat /\ seq \in Nat /\ job[w] \in Range
  BY AtWork DEF Typed, TypeOK
<1>2. RowsStep
  <2>1. UNCHANGED run \/ SetRun(job[w], "pending")
    BY DEF Defer, runRows
  <2>2. QED
    BY <1>1, <2>1, RowsKept, SettingOwn DEF RunStatus
<1>3. attempts' \in [Range -> Nat]
  <2>1. attempts \in [Range -> Nat] /\ attempts[job[w]] \in Nat
    BY <1>1 DEF Typed, TypeOK
  <2>2. CASE UNCHANGED runRows
    BY <2>1, <2>2 DEF runRows
  <2>3. CASE attempts' = [attempts EXCEPT ![job[w]] = IF @ > 0 THEN @ - 1 ELSE 0]
    BY <1>1, <2>1, <2>3
  <2>4. QED
    BY <2>2, <2>3 DEF Defer
<1>4. SweepStep
  BY Moving DEF Defer, Place, Begun
<1>5. QED
  BY <1>2, <1>3, <1>4

LEMMA MaterializeGood == \A w \in Sweep : Typed /\ Materialize(w) => GoodStep
<1> SUFFICES ASSUME NEW w \in Sweep, Typed, Materialize(w) PROVE GoodStep
  OBVIOUS
<1>1. at[w] = "reading" /\ UNCHANGED <<campaign, turn, ledgerRows, outcome, decision, upsets>>
  BY DEF Materialize
<1>2. CampaignStep
  BY <1>1, CampaignKept DEF Typed, TypeOK
<1>3. cp' = cp /\ seq' = seq
  BY <1>1 DEF outcome, campaign
<1>4. RowsStep /\ attempts' \in [Range -> Nat] /\ SweepStep
  <2>1. CASE Defer(w)
    BY <1>1, <1>3, <2>1, Deferring
  <2>2. CASE Move(w, "written") /\ UNCHANGED runRows
    BY <1>1, <2>2, StagingKept, Moving DEF runRows, Place, Begun
  <2>3. QED
    BY <2>1, <2>2 DEF Materialize
<1>5. QED
  BY <1>1, <1>2, <1>4, LedgerKept, VerdictKept DEF GoodStep

\* What an executor that has read the checkpoint works on is a range.
LEMMA EffectiveRange ==
  ASSUME Typed, NEW w \in Sweep, at[w] \in Begun
  PROVE  /\ Effective(w) \in Range /\ Effective(w)[1] = eff[w] /\ Effective(w)[2] = job[w][2]
         /\ eff[w] \in Nat /\ eff[w] <= cp + 1 /\ eff[w] <= job[w][2] /\ job[w][2] <= seq
<1>1. job[w] \in Range /\ Reachable(job[w]) /\ job[w][2] \in 1..MaxSeq
  BY AtWork DEF Begun
<1>2. eff[w] \in 0..MaxSeq /\ eff[w] >= 1 /\ eff[w] <= cp + 1 /\ eff[w] <= job[w][2]
  BY DEF Typed, TypeOK, Effectual
<1>3. eff[w] \in 1..MaxSeq
  BY <1>2
<1>4. QED
  BY <1>1, <1>2, <1>3, InRange DEF Effective, Reachable

LEMMA DurableKept ==
  ASSUME Typed, NEW w \in Sweep, at[w] \in Begun, durable' = durable \cup {Effective(w)},
         UNCHANGED <<cp, consolidated, skipped>>
  PROVE  OutcomeStep
BY EffectiveRange DEF Typed, TypeOK, OutcomeStep, OutcomeTyped, Stays

LEMMA TickClockGood == \A w \in Sweep : Typed /\ TickClock(w) => GoodStep
<1> SUFFICES ASSUME NEW w \in Sweep, Typed, TickClock(w) PROVE GoodStep
  OBVIOUS
<1>1. at[w] = "written" /\ UNCHANGED <<turn, ledgerRows, decision>>
  BY DEF TickClock
<1>2. CASE InFlight
  <2>1. Defer(w) /\ UNCHANGED <<campaign, outcome, upsets>>
    BY <1>2 DEF TickClock
  <2>2. CampaignStep
    BY <1>1, <2>1, CampaignKept DEF Typed, TypeOK
  <2>3. cp' = cp /\ seq' = seq
    BY <2>1 DEF outcome, campaign
  <2>4. RowsStep /\ attempts' \in [Range -> Nat] /\ SweepStep
    BY <1>1, <2>1, <2>3, Deferring
  <2>5. QED
    BY <1>1, <2>1, <2>2, <2>4, LedgerKept, VerdictKept DEF GoodStep
<1>3. CASE ~InFlight
  <2>1. /\ Room /\ Mutate(eff[w], archived) /\ durable' = durable \cup {Effective(w)}
        /\ UNCHANGED <<archived, cp, consolidated, skipped, sweeps>>
    BY <1>3 DEF TickClock
  <2>2. seq + 1 <= MaxSeq
    BY <2>1 DEF Typed, TypeOK, Room, InFlight
  <2>3. eff[w] \in Nat /\ eff[w] <= cp' + 1 /\ archived \in BOOLEAN
    BY <1>1, <2>1, EffectiveRange DEF Begun, Typed, TypeOK
  <2>4. seq' = seq + 1 /\ RowsStep /\ attempts' \in [Range -> Nat] /\ upsets' \in Nat
    BY <2>1, <2>2, <2>3, Mutating
  <2>5. CampaignStep
    BY <1>1, <2>1, <2>2, <2>4 DEF Typed, TypeOK, Room, CampaignStep, CampaignTyped, Reserve, InFlight
  <2>6. OutcomeStep
    BY <1>1, <2>1, DurableKept DEF Begun
  <2>7. QED
    BY <1>1, <2>1, <2>4, <2>5, <2>6, LedgerKept, SweepsKept, DecisionKept DEF GoodStep
<1>4. QED
  BY <1>2, <1>3

LEMMA FailGood == \A w \in Sweep : \A class \in {"erred", "poisoned"} : Typed /\ Fail(w, class) => GoodStep
<1> SUFFICES ASSUME NEW w \in Sweep, NEW class \in {"erred", "poisoned"}, Typed, Fail(w, class) PROVE GoodStep
  OBVIOUS
<1>1. /\ at[w] \in {"reading", "written"} /\ Upset("error")
      /\ UNCHANGED <<campaign, turn, attempts, ledgerRows, outcome, decision>>
  BY DEF Fail
<1>2. CampaignStep
  BY <1>1, UpsetTyped, CampaignKept
<1>3. cp' = cp /\ seq' = seq /\ cp \in Nat /\ seq \in Nat
  BY <1>1 DEF outcome, campaign, Typed, TypeOK
<1>4. RowsStep
  BY <1>1, <1>3, SettingOwn DEF Fail, RunStatus
<1>5. SweepStep
  BY <1>1, Moving DEF Fail, Place, Begun
<1>6. QED
  BY <1>1, <1>2, <1>4, <1>5, AttemptsKept, LedgerKept, VerdictKept DEF GoodStep

LEMMA RetireAtCommitGood == \A w \in Sweep : Typed /\ RetireAtCommit(w) => GoodStep
<1> SUFFICES ASSUME NEW w \in Sweep, Typed, RetireAtCommit(w) PROVE GoodStep
  OBVIOUS
<1>1. /\ at[w] = "written" /\ durable' = durable \cup {Effective(w)}
      /\ UNCHANGED <<campaign, turn, attempts, ledgerRows, cp, consolidated, skipped, decision, upsets>>
  BY DEF RetireAtCommit
<1>2. CampaignStep
  BY <1>1, CampaignKept DEF Typed, TypeOK
<1>3. cp' = cp /\ seq' = seq /\ cp \in Nat /\ seq \in Nat
  BY <1>1 DEF campaign, Typed, TypeOK
<1>4. RowsStep
  <2>1. UNCHANGED run \/ SetRun(job[w], "skipped")
    BY DEF RetireAtCommit, Retire
  <2>2. QED
    BY <1>1, <1>3, <2>1, RowsKept, SettingOwn DEF RunStatus, Settled
<1>5. SweepStep
  BY <1>1, Moving DEF RetireAtCommit, Place, Begun
<1>6. OutcomeStep
  BY <1>1, DurableKept DEF Begun
<1>7. QED
  BY <1>1, <1>2, <1>4, <1>5, <1>6, AttemptsKept, LedgerKept, DecisionKept DEF GoodStep

LEMMA AdvanceGood == \A w \in Sweep : Typed /\ Advance(w) => GoodStep
<1> SUFFICES ASSUME NEW w \in Sweep, Typed, Advance(w) PROVE GoodStep
  OBVIOUS
<1>1. /\ at[w] = "written" /\ ~archived /\ cp = eff[w] - 1
      /\ cp' = job[w][2] /\ consolidated' = consolidated \cup {Effective(w)}
      /\ durable' = durable \cup {Effective(w)}
      /\ SetRun(job[w], "succeeded") /\ Move(w, "done")
      /\ UNCHANGED <<campaign, turn, attempts, ledgerRows, skipped, decision, upsets>>
  BY DEF Advance, AdvanceTo
<1>2. CampaignStep
  BY <1>1, CampaignKept DEF Typed, TypeOK
<1>3. /\ Effective(w) \in Range /\ eff[w] \in Nat /\ eff[w] <= job[w][2] /\ job[w][2] <= seq
  BY <1>1, EffectiveRange DEF Begun
<1>4. seq' = seq /\ seq \in Nat /\ cp \in Nat /\ job[w][2] \in 1..MaxSeq /\ eff[w] = cp + 1
  BY <1>1, <1>3, AtWork DEF campaign, Typed, TypeOK
<1>5. RowsStep
  BY <1>1, <1>3, <1>4, SettingOwn DEF RunStatus, Settled
<1>6. SweepStep
  BY <1>1, Moving DEF Place, Begun
<1>7. OutcomeStep
  <2>1. OutcomeTyped'
    BY <1>1, <1>3, <1>4 DEF Typed, TypeOK, OutcomeTyped
  <2>2. job[w][2] \in cp + 1..seq /\ Effective(w) = <<cp + 1, job[w][2]>>
    BY <1>3, <1>4 DEF Effective
  <2>3. Advances
    BY <1>1, <2>2 DEF Advances
  <2>4. QED
    BY <2>1, <2>3 DEF OutcomeStep
<1>8. QED
  BY <1>1, <1>2, <1>5, <1>6, <1>7, AttemptsKept, LedgerKept, DecisionKept DEF GoodStep

LEMMA LoseRaceGood == \A w \in Sweep : Typed /\ LoseRace(w) => GoodStep
<1> SUFFICES ASSUME NEW w \in Sweep, Typed, LoseRace(w) PROVE GoodStep
  OBVIOUS
<1>1. at[w] = "written" /\ UNCHANGED <<campaign, turn, attempts, ledgerRows, outcome, decision, upsets>>
  BY DEF LoseRace
<1>2. CampaignStep
  BY <1>1, CampaignKept DEF Typed, TypeOK
<1>3. cp' = cp /\ seq' = seq /\ cp \in Nat /\ seq \in Nat
  BY <1>1 DEF outcome, campaign, Typed, TypeOK
<1>4. RowsStep
  <2>1. CASE job[w][2] <= cp
    <3>1. SettleRun(job[w], "succeeded")
      BY <2>1 DEF LoseRace
    <3>2. QED
      BY <1>1, <1>3, <2>1, <3>1, SettingOwn DEF RunStatus, Settled
  <2>2. CASE ~(job[w][2] <= cp)
    <3>1. SettleRun(job[w], "failed")
      BY <2>2 DEF LoseRace
    <3>2. QED
      BY <1>1, <1>3, <3>1, SettingOwn DEF RunStatus
  <2>3. QED
    BY <2>1, <2>2
<1>5. SweepStep
  <2>1. Move(w, "done") \/ Move(w, "erred")
    BY DEF LoseRace
  <2>2. QED
    BY <1>1, <2>1, Moving DEF Place, Begun
<1>6. QED
  BY <1>1, <1>2, <1>4, <1>5, AttemptsKept, LedgerKept, VerdictKept DEF GoodStep

LEMMA Recording ==
  ASSUME Typed, NEW w \in Sweep, NEW verdict \in LedgerStatus, Record(w, verdict),
         tries' = tries
  PROVE  LedgerTyped'
<1>1. ledger' = ledger \/ ledger' = [ledger EXCEPT ![job[w]] = verdict]
  BY DEF Record
<1>2. holder' = holder \/ holder' = [holder EXCEPT ![job[w]] = Nobody]
  BY DEF Record
<1>3. QED
  BY <1>1, <1>2 DEF Typed, TypeOK, LedgerTyped

LEMMA FinishGood == \A w \in Sweep : Typed /\ Finish(w) => GoodStep
<1> SUFFICES ASSUME NEW w \in Sweep, Typed, Finish(w) PROVE GoodStep
  OBVIOUS
<1>1. Rest(w) /\ UNCHANGED <<campaign, turn, runRows, tries, outcome, decision, upsets>>
  BY DEF Finish
<1>2. CampaignStep
  BY <1>1, CampaignKept DEF Typed, TypeOK
<1>3. \/ Record(w, "succeeded") \/ Record(w, "dead_letter") \/ Record(w, "due")
  BY DEF Finish
<1>4. LedgerTyped'
  BY <1>1, <1>3, Recording DEF LedgerStatus
<1>5. QED
  BY <1>1, <1>2, <1>4, Resting, StagingKept, VerdictKept DEF GoodStep, runRows

LEMMA FinishDeferredGood == \A w \in Sweep : Typed /\ FinishDeferred(w) => GoodStep
<1> SUFFICES ASSUME NEW w \in Sweep, Typed, FinishDeferred(w) PROVE GoodStep
  OBVIOUS
<1>1. /\ at[w] = "deferred" /\ Record(w, "deferred")
      /\ UNCHANGED <<campaign, turn, runRows, tries, outcome, decision, upsets>>
  BY DEF FinishDeferred
<1>2. CampaignStep
  BY <1>1, CampaignKept DEF Typed, TypeOK
<1>3. LedgerTyped'
  BY <1>1, Recording DEF LedgerStatus
<1>4. SweepStep
  <2>1. Move(w, "dropping") \/ Rest(w)
    BY DEF FinishDeferred
  <2>2. QED
    BY <1>1, <2>1, Moving, Resting DEF Place, Begun
<1>5. QED
  BY <1>1, <1>2, <1>3, <1>4, StagingKept, VerdictKept DEF GoodStep, runRows

LEMMA DropDeferredGood == \A w \in Sweep : Typed /\ DropDeferred(w) => GoodStep
<1> SUFFICES ASSUME NEW w \in Sweep, Typed, DropDeferred(w) PROVE GoodStep
  OBVIOUS
<1>1. Rest(w) /\ UNCHANGED <<campaign, turn, runRows, outcome, decision, upsets>>
  BY DEF DropDeferred
<1>2. CampaignStep
  BY <1>1, CampaignKept DEF Typed, TypeOK
<1>3. LedgerTyped'
  BY DEF DropDeferred, Typed, TypeOK, LedgerTyped, LedgerStatus
<1>4. QED
  BY <1>1, <1>2, <1>3, Resting, StagingKept, VerdictKept DEF GoodStep, runRows

LEMMA CrashGood == \A w \in Sweep : Typed /\ Crash(w) => GoodStep
<1> SUFFICES ASSUME NEW w \in Sweep, Typed, Crash(w) PROVE GoodStep
  OBVIOUS
<1>1. Rest(w) /\ Upset("crash") /\ UNCHANGED <<campaign, turn, runRows, ledgerRows, outcome, decision>>
  BY DEF Crash
<1>2. CampaignStep
  BY <1>1, UpsetTyped, CampaignKept
<1>3. QED
  BY <1>1, <1>2, Resting, LedgerKept, StagingKept, VerdictKept DEF GoodStep, runRows

-----------------------------------------------------------------------------
(* An operator's skip.                                                     *)

LEMMA DecideSkipGood == Typed /\ DecideSkip => GoodStep
<1> SUFFICES ASSUME Typed, DecideSkip PROVE GoodStep
  OBVIOUS
<1>1. Upset("skip") /\ UNCHANGED <<campaign, turn, runRows, ledgerRows, sweeps, outcome>>
  BY DEF DecideSkip
<1>2. CampaignStep
  BY <1>1, UpsetTyped, CampaignKept
<1>3. PICK t \in cp + 1..seq :
        decision' = [range |-> <<cp + 1, t>>, found |-> run[<<cp + 1, t>>] # "none"]
  BY DEF DecideSkip
<1>4. t \in 1..MaxSeq /\ cp + 1 \in 1..MaxSeq /\ cp + 1 <= t /\ t <= seq
  BY DEF Typed, TypeOK
<1>5. <<cp + 1, t>> \in Range /\ Reachable(<<cp + 1, t>>)
  BY <1>4, InRange DEF Reachable
<1>6. DecisionStep
  BY <1>3, <1>5 DEF DecisionStep, DecisionTyped
<1>7. QED
  BY <1>1, <1>2, <1>6, StagingKept, EngineKept, OutcomeKept DEF GoodStep, runRows

LEMMA WriteSkipGood == Typed /\ WriteSkip => GoodStep
<1> SUFFICES ASSUME Typed, WriteSkip PROVE GoodStep
  OBVIOUS
<1> DEFINE r == decision.range
<1>1. /\ decision # NoDecision /\ decision' = NoDecision
      /\ UNCHANGED <<campaign, turn, attempts, ledgerRows, sweeps, durable, consolidated, upsets>>
  BY DEF WriteSkip
<1>2. CampaignStep
  BY <1>1, CampaignKept DEF Typed, TypeOK
<1>3. r \in Range /\ Reachable(r) /\ r[1] \in 1..MaxSeq /\ r[2] \in 1..MaxSeq
  BY <1>1, RangeElement DEF Typed, Decided
<1>4. DecisionStep
  BY <1>1 DEF DecisionStep, DecisionTyped, NoDecision
<1>5. cp \in 0..MaxSeq /\ seq' = seq /\ seq \in Nat
  BY <1>1 DEF Typed, TypeOK, campaign
<1>6. RowsStep /\ OutcomeStep
  <2>1. CASE UNCHANGED <<run, cp, skipped>>
    BY <1>1, <2>1, RowsKept DEF OutcomeStep, OutcomeTyped, Stays, Typed, TypeOK
  <2>2. CASE /\ SetRun(r, "skipped")
             /\ cp' = (IF cp < r[2] THEN r[2] ELSE cp)
             /\ skipped' = skipped \cup {r}
    <3>1. cp' \in 0..MaxSeq /\ cp <= cp' /\ r[1] <= cp' + 1 /\ r[2] <= seq'
      BY <1>3, <1>5, <2>2 DEF Reachable
    <3>2. RowsStep
      BY <1>3, <2>2, <3>1, SettingRow DEF RunStatus, Settled
    <3>3. Skips
      BY <1>1, <1>3, <2>2 DEF Skips
    <3>4. OutcomeTyped'
      BY <1>1, <1>3, <2>2, <3>1 DEF OutcomeTyped, Typed, TypeOK
    <3>5. QED
      BY <3>2, <3>3, <3>4 DEF OutcomeStep
  <2>3. QED
    BY <2>1, <2>2 DEF WriteSkip
<1>7. QED
  BY <1>1, <1>2, <1>4, <1>6, AttemptsKept, EngineKept DEF GoodStep

-----------------------------------------------------------------------------
(* Together.                                                               *)

LEMMA ExecuteGood == \A w \in Sweep : Typed /\ Execute(w) => GoodStep
BY LoadGood, MarkGood, CheckDormantGood, MaterializeGood, RetireAtCommitGood, AdvanceGood,
   LoseRaceGood, FinishGood, FinishDeferredGood, DropDeferredGood DEF Execute

LEMMA PlayGood == Typed /\ Play => GoodStep
BY StartTurnGood, PauseTurnGood, ClaimTurnGood, CommitTurnGood, StopTurnGood,
   OtherMutationGood, ArchiveGood, RestoreGood DEF Play

LEMMA StutterGood == Typed /\ UNCHANGED vars => GoodStep
<1> SUFFICES ASSUME Typed, UNCHANGED vars PROVE GoodStep
  OBVIOUS
<1>1. UNCHANGED <<campaign, turn, runRows, ledgerRows, sweeps, outcome, decision, upsets>>
  BY DEF vars
<1>2. CampaignStep
  BY <1>1, CampaignKept DEF Typed, TypeOK
<1>3. QED
  BY <1>1, <1>2, StagingKept, EngineKept, VerdictKept DEF GoodStep, runRows

LEMMA NextGood == Typed /\ [Next]_vars => GoodStep
<1> SUFFICES ASSUME Typed, [Next]_vars PROVE GoodStep
  OBVIOUS
<1>1. CASE Play
  BY <1>1, PlayGood
<1>2. CASE Repair \/ DecideSkip \/ WriteSkip
  BY <1>2, RepairGood, DecideSkipGood, WriteSkipGood
<1>3. ASSUME NEW w \in Sweep, Execute(w) \/ TickClock(w) \/ Crash(w)
      PROVE  GoodStep
  BY <1>3, ExecuteGood, TickClockGood, CrashGood
<1>4. ASSUME NEW w \in Sweep, Fail(w, "erred") \/ Fail(w, "poisoned")
      PROVE  GoodStep
  BY <1>4, FailGood
<1>5. ASSUME NEW w \in Sweep, NEW r \in Range, Claim(w, r) \/ Replay(w, r)
      PROVE  GoodStep
  BY <1>5, ClaimGood, ReplayGood
<1>6. CASE UNCHANGED vars
  BY <1>6, StutterGood
<1>7. QED
  BY <1>1, <1>2, <1>3, <1>4, <1>5, <1>6 DEF Next
-----------------------------------------------------------------------------
(* What a good step preserves.                                             *)

\* The campaign and its checkpoint only move forward, the checkpoint never past
\* the last event.
LEMMA Forward ==
  ASSUME Typed, GoodStep
  PROVE  /\ cp \in Nat /\ cp' \in Nat /\ seq \in Nat /\ seq' \in Nat
         /\ cp <= cp' /\ seq <= seq' /\ cp' <= seq'
<1>1. cp \in Nat /\ seq \in Nat /\ cp <= seq /\ cp' \in Nat /\ seq' \in Nat
  BY DEF Typed, TypeOK, Behind, GoodStep, CampaignStep, CampaignTyped, OutcomeStep, OutcomeTyped
<1>2. seq <= seq'
  BY <1>1 DEF GoodStep, CampaignStep
<1>3. CASE Stays
  BY <1>1, <1>2, <1>3 DEF Stays
<1>4. CASE Advances
  BY <1>1, <1>4 DEF Advances, campaign
<1>5. CASE Skips
  <2>1. PICK r \in Range : Reachable(r) /\ cp' = (IF cp < r[2] THEN r[2] ELSE cp) /\ seq' = seq
    BY <1>5 DEF Skips, campaign
  <2>2. r[2] \in Nat
    BY RangeElement
  <2>3. QED
    BY <1>1, <2>1, <2>2 DEF Reachable
<1>6. QED
  BY <1>1, <1>2, <1>3, <1>4, <1>5 DEF GoodStep, OutcomeStep

LEMMA StillReachable ==
  ASSUME Typed, GoodStep, NEW r \in Range, Reachable(r)
  PROVE  Reachable(r)'
BY Forward, RangeElement DEF Reachable

LEMMA TypedStep == Typed /\ GoodStep => Typed'
<1> SUFFICES ASSUME Typed, GoodStep PROVE Typed'
  OBVIOUS
<1>1. /\ cp \in Nat /\ cp' \in Nat /\ seq \in Nat /\ seq' \in Nat
      /\ cp <= cp' /\ seq <= seq' /\ cp' <= seq'
  BY Forward
<1>2. TypeOK'
  BY TypeParts DEF GoodStep, CampaignStep, RowsStep, SweepStep, OutcomeStep, DecisionStep,
     TypeOK, CampaignTyped, LedgerTyped, SweepTyped, OutcomeTyped, DecisionTyped
<1>3. Reserve'
  BY DEF GoodStep, CampaignStep
<1>4. Staged'
  <2>1. SUFFICES ASSUME NEW r \in Range, run'[r] # "none" PROVE Reachable(r)'
    BY DEF Staged
  <2>2. CASE run[r] # "none"
    BY <2>2, StillReachable DEF Typed, Staged
  <2>3. CASE r[1] <= cp' + 1 /\ r[2] <= seq'
    BY <2>3 DEF Reachable
  <2>4. QED
    BY <2>1, <2>2, <2>3 DEF GoodStep, RowsStep
<1>5. Working'
  <2>1. SUFFICES ASSUME NEW w \in Sweep, at'[w] # "rest"
                 PROVE  job'[w] \in Range /\ Reachable(job[w])'
    BY DEF Working
  <2>2. job'[w] \in Range
    BY <2>1 DEF GoodStep, SweepStep
  <2>3. Reachable(job'[w])
    BY <2>1, <2>2 DEF GoodStep, SweepStep, Typed, Working, Staged
  <2>4. job'[w][1] <= cp' + 1 /\ job'[w][2] <= seq'
    BY <1>1, <2>2, <2>3, RangeElement DEF Reachable
  <2>5. QED
    BY <2>2, <2>4 DEF Reachable
<1>6. Decided'
  <2>1. SUFFICES ASSUME decision' # NoDecision
                 PROVE  decision'.range \in Range /\ Reachable(decision.range)'
    BY DEF Decided
  <2>2. decision'.range \in Range /\ Reachable(decision'.range)
    BY <2>1 DEF GoodStep, DecisionStep, Typed, Decided
  <2>3. decision'.range[1] <= cp' + 1 /\ decision'.range[2] <= seq'
    BY <1>1, <2>2, RangeElement DEF Reachable
  <2>4. QED
    BY <2>2, <2>3 DEF Reachable
<1>7. Effectual'
  <2>1. SUFFICES ASSUME NEW w \in Sweep, at'[w] \in Begun
                 PROVE  eff'[w] >= 1 /\ eff'[w] <= cp' + 1 /\ eff'[w] <= job'[w][2]
    BY DEF Effectual
  <2>2. eff'[w] >= 1 /\ eff'[w] <= cp + 1 /\ eff'[w] <= job'[w][2]
    BY <2>1 DEF GoodStep, SweepStep, Typed, Effectual
  <2>3. eff'[w] \in Nat
    BY <1>2 DEF TypeOK
  <2>4. QED
    BY <1>1, <2>2, <2>3
<1>8. Behind'
  <2>1. SUFFICES ASSUME NEW r \in Range, r \in consolidated' PROVE r[2] <= cp'
    BY <1>1, <1>2 DEF Behind, TypeOK
  <2>2. CASE r \in consolidated
    BY <1>1, <2>2, RangeElement DEF Typed, Behind
  <2>3. CASE r \notin consolidated
    <3>1. Advances
      BY <2>1, <2>3 DEF GoodStep, OutcomeStep, Stays, Skips
    <3>2. PICK t \in cp + 1..seq : cp' = t /\ consolidated' = consolidated \cup {<<cp + 1, t>>}
      BY <3>1 DEF Advances
    <3>3. r = <<cp + 1, t>>
      BY <2>1, <2>3, <3>2
    <3>4. QED
      BY <1>1, <3>2, <3>3
  <2>4. QED
    BY <2>2, <2>3
<1>9. QED
  BY <1>2, <1>3, <1>4, <1>5, <1>6, <1>7, <1>8 DEF Typed

LEMMA CoveredStep == Typed /\ SucceededIsCovered /\ GoodStep => SucceededIsCovered'
<1> SUFFICES ASSUME Typed, SucceededIsCovered, GoodStep, NEW r \in Range, run'[r] = "succeeded"
             PROVE  r[2] <= cp'
  BY DEF SucceededIsCovered
<1>1. run[r] = "succeeded" \/ r[2] <= cp'
  BY DEF GoodStep, RowsStep
<1>2. QED
  BY <1>1, Forward, RangeElement DEF SucceededIsCovered

\* A range that begins behind the checkpoint shares nothing with what is consolidated,
\* and what a skip passes over is one piece with it.
LEMMA AccountedStep == Typed /\ CheckpointAccounted /\ GoodStep => CheckpointAccounted'
<1> SUFFICES ASSUME Typed, CheckpointAccounted, GoodStep PROVE CheckpointAccounted'
  OBVIOUS
<1>1. cp \in Nat /\ seq \in Nat /\ consolidated \subseteq Range
  BY DEF Typed, TypeOK
<1>2. CASE Stays
  BY <1>2 DEF Stays, CheckpointAccounted
<1>3. CASE Advances
  <2>1. PICK t \in cp + 1..seq : /\ cp' = t /\ skipped' = skipped
                                 /\ consolidated' = consolidated \cup {<<cp + 1, t>>}
    BY <1>3 DEF Advances
  <2>2. t \in Nat /\ Spans(<<cp + 1, t>>) = cp + 1..t
    BY <1>1, <2>1 DEF Spans
  <2>3. \A r \in consolidated : Spans(r) \cap (cp + 1..t) = {}
    <3>1. SUFFICES ASSUME NEW r \in consolidated, NEW i \in Spans(r), i \in cp + 1..t PROVE FALSE
      OBVIOUS
    <3>2. r[2] <= cp /\ r[1] \in Nat /\ r[2] \in Nat
      BY <1>1, <2>2, RangeElement DEF Typed, Behind
    <3>3. QED
      BY <1>1, <2>2, <3>1, <3>2 DEF Spans
  <2>4. \A r, s \in consolidated' : r # s => Spans(r) \cap Spans(s) = {}
    BY <2>1, <2>2, <2>3 DEF CheckpointAccounted
  <2>5. ASSUME NEW i \in 1..t PROVE \E r \in consolidated' \cup skipped' : i \in Spans(r)
    <3>1. CASE i \in 1..cp
      BY <2>1, <3>1 DEF CheckpointAccounted
    <3>2. CASE i \in cp + 1..t
      BY <2>1, <2>2, <3>2
    <3>3. QED
      BY <1>1, <2>2, <2>5, <3>1, <3>2
  <2>6. QED
    BY <2>1, <2>4, <2>5 DEF CheckpointAccounted
<1>4. CASE Skips
  <2>1. PICK r \in Range : /\ Reachable(r) /\ cp' = (IF cp < r[2] THEN r[2] ELSE cp)
                           /\ skipped' = skipped \cup {r} /\ consolidated' = consolidated
    BY <1>4 DEF Skips
  <2>2. r[1] \in Nat /\ r[2] \in Nat /\ r[1] <= cp + 1
    BY <2>1, RangeElement DEF Reachable
  <2>3. ASSUME NEW i \in 1..cp' PROVE \E s \in consolidated' \cup skipped' : i \in Spans(s)
    <3>1. CASE i \in 1..cp
      BY <2>1, <3>1 DEF CheckpointAccounted
    <3>2. CASE i \notin 1..cp
      <4>1. i \in r[1]..r[2]
        BY <1>1, <2>1, <2>2, <2>3, <3>2
      <4>2. QED
        BY <2>1, <4>1 DEF Spans
    <3>3. QED
      BY <3>1, <3>2
  <2>4. QED
    BY <2>1, <2>3 DEF CheckpointAccounted
<1>5. QED
  BY <1>2, <1>3, <1>4 DEF GoodStep, OutcomeStep

-----------------------------------------------------------------------------
LEMMA InitInv == Init => Inv
<1> SUFFICES ASSUME Init PROVE Inv
  OBVIOUS
<1>1. TypeOK
  <2>1. CampaignTyped /\ OutcomeTyped
    <3>1. 0 \in 0..MaxSeq
      OBVIOUS
    <3>2. archived \in BOOLEAN /\ turn \in {"none", "waiting", "executing"}
      BY DEF Init
    <3>3. durable \in SUBSET Range /\ consolidated \in SUBSET Range /\ skipped \in SUBSET Range
      BY DEF Init
    <3>4. QED
      BY <3>1, <3>2, <3>3 DEF Init, CampaignTyped, OutcomeTyped
  <2>2. LedgerTyped /\ run \in [Range -> RunStatus] /\ attempts \in [Range -> Nat]
    BY DEF Init, LedgerTyped, LedgerStatus, RunStatus
  <2>3. SweepTyped
    BY DEF Init, SweepTyped, Place
  <2>4. DecisionTyped
    BY DEF Init, DecisionTyped, NoDecision
  <2>5. QED
    BY <2>1, <2>2, <2>3, <2>4, TypeParts
<1>2. Reserve
  BY DEF Init, Reserve, InFlight
<1>3. Staged /\ Working /\ Effectual
  BY DEF Init, Staged, Working, Effectual, Begun
<1>4. Decided /\ Behind
  BY DEF Init, Decided, Behind
<1>5. CheckpointAccounted /\ SucceededIsCovered
  BY DEF Init, CheckpointAccounted, SucceededIsCovered
<1>6. QED
  BY <1>1, <1>2, <1>3, <1>4, <1>5 DEF Inv, Typed

LEMMA NextInv == Inv /\ [Next]_vars => Inv'
BY NextGood, TypedStep, AccountedStep, CoveredStep DEF Inv

LEMMA InvAlways == Spec => []Inv
BY InitInv, NextInv, PTL DEF Spec

\* Every variable keeps its type, the bound on events included: what is owed an
\* event always finds room for it.
THEOREM TypeCorrect == Spec => []TypeOK
<1>1. Inv => TypeOK
  BY DEF Inv, Typed
<1>2. QED
  BY InvAlways, <1>1, PTL

\* Whoever races, every sequence up to the checkpoint was consolidated in exactly one
\* advancing range or passed over by an operator (service.py:680).
THEOREM Accounted == Spec => []CheckpointAccounted
<1>1. Inv => CheckpointAccounted
  BY DEF Inv
<1>2. QED
  BY InvAlways, <1>1, PTL

\* A run that reads as succeeded is behind the checkpoint, also when the loser of a
\* race or a duplicate delivery wrote it (service.py:401, 697).
THEOREM Covered == Spec => []SucceededIsCovered
<1>1. Inv => SucceededIsCovered
  BY DEF Inv
<1>2. QED
  BY InvAlways, <1>1, PTL

-----------------------------------------------------------------------------
(* Consolidation implements the checkpoint ledger.                         *)

LEMMA InitPromised == Init => Promise!LedgerInit
BY DEF Init, Promise!LedgerInit

LEMMA StepPromised == Typed /\ GoodStep => [Promise!LedgerNext]_(Promise!ledger)
<1> SUFFICES ASSUME Typed, GoodStep PROVE [Promise!LedgerNext]_(Promise!ledger)
  OBVIOUS
<1>1. CASE Stays
  <2>1. CASE seq' = seq /\ archived' = archived
    BY <1>1, <2>1 DEF Stays, Promise!ledger
  <2>2. CASE seq' = seq + 1 /\ seq < MaxSeq
    <3>1. archived' \in BOOLEAN
      BY DEF GoodStep, CampaignStep, CampaignTyped
    <3>2. Promise!Append
      BY <1>1, <2>2, <3>1 DEF Stays, Promise!Append
    <3>3. QED
      BY <3>2 DEF Promise!LedgerNext
  <2>3. QED
    BY <2>1, <2>2 DEF GoodStep, CampaignStep
<1>2. CASE Advances
  <2>1. Promise!Consolidate
    BY <1>2 DEF Advances, Promise!Consolidate, campaign
  <2>2. QED
    BY <2>1 DEF Promise!LedgerNext
<1>3. CASE Skips
  <2>1. Promise!Skip
    BY <1>3 DEF Skips, Reachable, Promise!Skip, Promise!Range, Range, campaign
  <2>2. QED
    BY <2>1 DEF Promise!LedgerNext
<1>4. QED
  BY <1>1, <1>2, <1>3 DEF GoodStep, OutcomeStep

\* Consolidation keeps the ledger's promise: every event at most once, in order, in
\* gap-free ranges, never while the campaign is dormant, and past an event only by
\* an operator's decision.
THEOREM ImplementsCheckpoint == Spec => KeepsCheckpoint
<1>1. Init => Promise!LedgerInit
  BY InitPromised
<1>2. Inv /\ [Next]_vars => [Promise!LedgerNext]_(Promise!ledger)
  BY NextGood, StepPromised DEF Inv
<1>3. QED
  BY <1>1, <1>2, InvAlways, PTL DEF Spec, KeepsCheckpoint, Promise!LedgerSpec
=============================================================================
