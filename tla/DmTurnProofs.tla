---------------------------- MODULE DmTurnProofs ----------------------------
(***************************************************************************)
(* Proofs about DmTurn for every set of submissions and executors and      *)
(* every bound, whatever falls between the unlocked reads and the writes   *)
(* of an executor.  The first theorems tell what holds until a write comes *)
(* to rows that have moved on; the later sections, what holds after it.    *)
(***************************************************************************)
EXTENDS DmTurn, TLAPS

HistoryTyped == upsets \in Nat /\ late \in BOOLEAN
USE DEF history, HistoryTyped

\* An executor that is at work has an attempt.
AtWork == \A x \in Executor : phase[x] # "idle" => job[x] \in Attempt

Typed == TypeOK /\ AtWork

-----------------------------------------------------------------------------
\* What the shared steps of the actions leave of the types.
LEMMA CreateTyped ==
  ASSUME TypeOK, NEW a \in Attempt, NEW t \in Turn \cup {None}, NEW S \in SUBSET Submission,
         CreateAttempt(a, t, S)
  PROVE  /\ turnOf' \in [Attempt -> Turn \cup {None}]
         /\ inputs' \in [Attempt -> SUBSET Submission]
         /\ basedOn' \in [Attempt -> Nat]
         /\ current' \in [Turn -> Attempt \cup {None}]
         /\ mark' \in [Attempt -> {"clean", "delayed", "erred"}]
  BY DEF CreateAttempt, TypeOK

RowsTyped ==
  /\ turnStatus \in [Turn -> TurnStatus] /\ turnInputs \in [Turn -> SUBSET Submission]
  /\ current \in [Turn -> Attempt \cup {None}] /\ rolling \in [Turn -> Attempt \cup {None}]
  /\ autoRetried \in SUBSET Turn
  /\ status \in [Attempt -> AttemptStatus] /\ turnOf \in [Attempt -> Turn \cup {None}]
  /\ inputs \in [Attempt -> SUBSET Submission] /\ basedOn \in [Attempt -> Nat]
  /\ mark \in [Attempt -> {"clean", "delayed", "erred"}]
  /\ stream \in [Attempt -> StreamStatus]

ExecutorsTyped ==
  /\ phase \in [Executor -> Phase] /\ job \in [Executor -> Attempt \cup {None}]
  /\ owned \in [Executor -> Attempt \cup {None}]
  /\ AtWork

LEMMA Parts ==
  Typed <=> /\ revision \in Nat /\ archived \in BOOLEAN
            /\ submission \in [Submission -> {"unsent", "accepted", "resolved"}]
            /\ RowsTyped /\ committed \in SUBSET Attempt /\ ExecutorsTyped /\ HistoryTyped
  BY DEF Typed, TypeOK, RowsTyped, ExecutorsTyped

LEMMA Together ==
  ASSUME revision' \in Nat, archived' \in BOOLEAN,
         submission' \in [Submission -> {"unsent", "accepted", "resolved"}],
         RowsTyped', committed' \in SUBSET Attempt, ExecutorsTyped', HistoryTyped'
  PROVE  Typed'
  BY DEF Typed, TypeOK, RowsTyped, ExecutorsTyped

LEMMA GoIdleTyped ==
  ASSUME ExecutorsTyped, NEW x \in Executor, GoIdle(x)
  PROVE  ExecutorsTyped'
  BY DEF ExecutorsTyped, GoIdle, Phase, AtWork

LEMMA GoToTyped ==
  ASSUME ExecutorsTyped, NEW x \in Executor, phase[x] # "idle", NEW next \in Phase, GoTo(x, next)
  PROVE  ExecutorsTyped'
  BY DEF ExecutorsTyped, GoTo, AtWork

LEMMA SucceedTyped ==
  ASSUME TypeOK, NEW t \in Turn, NEW how \in AttemptStatus, NEW S \in SUBSET Submission,
         Succeed(t, how, S)
  PROVE  /\ turnOf' \in [Attempt -> Turn \cup {None}]
         /\ inputs' \in [Attempt -> SUBSET Submission]
         /\ basedOn' \in [Attempt -> Nat]
         /\ current' \in [Turn -> Attempt \cup {None}]
         /\ mark' \in [Attempt -> {"clean", "delayed", "erred"}]
         /\ status' \in [Attempt -> AttemptStatus]
         /\ turnStatus' \in [Turn -> TurnStatus]
<1>1. PICK a \in Attempt : /\ CreateAttempt(a, t, S)
                           /\ status' = [status EXCEPT ![current[t]] = how, ![a] = "prepared"]
  BY DEF Succeed
<1>2. status' \in [Attempt -> AttemptStatus]
  BY <1>1 DEF TypeOK, AttemptStatus, LiveStatus
<1>3. turnStatus' \in [Turn -> TurnStatus]
  BY DEF Succeed, TypeOK, TurnStatus, ActiveStatus
<1>4. QED
  BY <1>1, <1>2, <1>3, CreateTyped

LEMMA RetryTyped ==
  ASSUME TypeOK, NEW t \in Turn, NEW S \in SUBSET Submission, FreshAttemptFromOld(t, S),
         autoRetried' \in SUBSET Turn
  PROVE  RowsTyped'
<1>1. Succeed(t, "abandoned", S) /\ "abandoned" \in AttemptStatus
  BY DEF FreshAttemptFromOld, AttemptStatus, DeadStatus
<1>2. turnInputs' \in [Turn -> SUBSET Submission] /\ rolling' \in [Turn -> Attempt \cup {None}]
  BY DEF FreshAttemptFromOld, TypeOK
<1>3. stream' \in [Attempt -> StreamStatus]
  BY DEF FreshAttemptFromOld, TypeOK, StreamStatus
<1>4. QED
  BY <1>1, <1>2, <1>3, SucceedTyped DEF RowsTyped

LEMMA CoordinateTyped ==
  ASSUME TypeOK, NEW S \in SUBSET Submission, CoordinateTurn(S)
  PROVE  RowsTyped'
<1>1. CASE OpenTurn(S)
  <2>1. PICK t \in Turn, a \in Attempt :
          /\ CreateAttempt(a, t, S)
          /\ status' = [status EXCEPT ![a] = "prepared"]
          /\ turnStatus' = [turnStatus EXCEPT ![t] = "pending"]
          /\ turnInputs' = [turnInputs EXCEPT ![t] = S]
    BY <1>1 DEF OpenTurn
  <2>2. status' \in [Attempt -> AttemptStatus] /\ turnStatus' \in [Turn -> TurnStatus]
    BY <2>1 DEF TypeOK, AttemptStatus, LiveStatus, TurnStatus, ActiveStatus
  <2>3. turnInputs' \in [Turn -> SUBSET Submission]
    BY <2>1 DEF TypeOK
  <2>4. QED
    BY <1>1, <2>1, <2>2, <2>3, CreateTyped DEF OpenTurn, RowsTyped, TypeOK
<1>2. ASSUME NEW t \in ActiveTurns,
             Succeed(t, "superseded", S), turnInputs' = [turnInputs EXCEPT ![t] = S],
             UNCHANGED <<rolling, autoRetried, stream>>
      PROVE  RowsTyped'
  <2>1. t \in Turn /\ "superseded" \in AttemptStatus
    BY DEF ActiveTurns, AttemptStatus, DeadStatus
  <2>2. turnInputs' \in [Turn -> SUBSET Submission]
    BY <1>2 DEF TypeOK
  <2>3. QED
    BY <1>2, <2>1, <2>2, SucceedTyped DEF RowsTyped, TypeOK
<1>3. ASSUME NEW t \in ActiveTurns, FreshAttemptFromOld(t, S), UNCHANGED autoRetried
      PROVE  RowsTyped'
  BY <1>3, RetryTyped DEF ActiveTurns, TypeOK
<1>4. ASSUME UNCHANGED <<turnRows, attemptRows>>
      PROVE  RowsTyped'
  BY <1>4 DEF turnRows, attemptRows, RowsTyped, TypeOK
<1>5. QED
  BY <1>1, <1>2, <1>3, <1>4 DEF CoordinateTurn

LEMMA RequeueTyped ==
  ASSUME TypeOK, ExecutorsTyped, NEW x \in Executor, NEW how \in {"erred", "delayed"}, Requeue(x, how)
  PROVE  RowsTyped' /\ ExecutorsTyped'
<1>1. status' \in [Attempt -> AttemptStatus]
  BY DEF Requeue, TypeOK, AttemptStatus, LiveStatus
<1>2. mark' \in [Attempt -> {"clean", "delayed", "erred"}]
  BY DEF Requeue, TypeOK
<1>3. QED
  <2>1. UNCHANGED <<turnRows, turnOf, inputs, basedOn, stream>> /\ GoIdle(x)
    BY DEF Requeue
  <2>2. RowsTyped'
    BY <1>1, <1>2, <2>1 DEF RowsTyped, TypeOK, turnRows
  <2>3. QED
    BY <2>1, <2>2, GoIdleTyped

LEMMA FailVisiblyTyped ==
  ASSUME TypeOK, ExecutorsTyped, NEW x \in Executor, FailVisibly(x)
  PROVE  RowsTyped' /\ ExecutorsTyped'
<1>1. status' \in [Attempt -> AttemptStatus] /\ turnStatus' \in [Turn -> TurnStatus]
  <2>1. "failed_visible" \in AttemptStatus \cap TurnStatus
    BY DEF AttemptStatus, LiveStatus, TurnStatus, ActiveStatus
  <2>2. QED
    BY <2>1 DEF FailVisibly, TypeOK
<1>2. QED
  BY <1>1, GoIdleTyped DEF FailVisibly, RowsTyped, TypeOK

LEMMA RefreshTyped ==
  ASSUME TypeOK, ExecutorsTyped, NEW x \in Executor, phase[x] # "idle", Refresh(x)
  PROVE  RowsTyped' /\ ExecutorsTyped'
<1>1. PICK a \in Attempt :
        /\ CreateAttempt(a, turnOf[job[x]], inputs[job[x]])
        /\ status' = [status EXCEPT ![job[x]] = "superseded", ![a] = "prepared"]
        /\ job' = [job EXCEPT ![x] = a]
  BY DEF Refresh
<1>2. job[x] \in Attempt /\ turnOf[job[x]] \in Turn \cup {None} /\ inputs[job[x]] \in SUBSET Submission
  BY DEF ExecutorsTyped, AtWork, TypeOK
<1>3. status' \in [Attempt -> AttemptStatus]
  BY <1>1 DEF TypeOK, AttemptStatus, LiveStatus, DeadStatus
<1>4. ExecutorsTyped'
  BY <1>1 DEF Refresh, ExecutorsTyped, AtWork, Phase
<1>5. QED
  BY <1>1, <1>2, <1>3, <1>4, CreateTyped DEF Refresh, RowsTyped, TypeOK

LEMMA WriteTyped ==
  ASSUME TypeOK, ExecutorsTyped, NEW x \in Executor, phase[x] # "idle", NEW what, Write(x, what)
  PROVE  RowsTyped' /\ ExecutorsTyped'
  BY RequeueTyped, FailVisiblyTyped, RefreshTyped DEF Write

LEMMA DecideTyped ==
  ASSUME TypeOK, ExecutorsTyped, NEW x \in Executor, phase[x] # "idle", NEW what \in WriteBack,
         Decide(x, what)
  PROVE  RowsTyped' /\ ExecutorsTyped'
<1>1. CASE what \in Windows
  <2>1. GoTo(x, what) /\ UNCHANGED <<turnRows, attemptRows>> /\ what \in Phase
    BY <1>1 DEF Decide, Phase
  <2>2. QED
    BY <2>1, GoToTyped DEF RowsTyped, TypeOK, turnRows, attemptRows
<1>2. CASE what \notin Windows
  BY <1>2, WriteTyped DEF Decide
<1>3. QED
  BY <1>1, <1>2

LEMMA GiveUpTyped ==
  ASSUME TypeOK, ExecutorsTyped, NEW x \in Executor, GiveUp(x)
  PROVE  RowsTyped' /\ ExecutorsTyped'
  BY GoIdleTyped DEF GiveUp, RowsTyped, TypeOK, turnRows, attemptRows

LEMMA RecordFailureTyped ==
  ASSUME TypeOK, ExecutorsTyped, NEW x \in Executor, phase[x] # "idle", NEW retriable \in BOOLEAN,
         RecordFailure(x, retriable)
  PROVE  RowsTyped' /\ ExecutorsTyped'
  BY DecideTyped, GiveUpTyped DEF RecordFailure, WriteBack

LEMMA DeferArchivedTyped ==
  ASSUME TypeOK, ExecutorsTyped, NEW x \in Executor, phase[x] # "idle", DeferArchived(x)
  PROVE  RowsTyped' /\ ExecutorsTyped'
  BY DecideTyped, GiveUpTyped DEF DeferArchived, WriteBack

LEMMA ResolveTyped ==
  ASSUME TypeOK, NEW a \in Attempt
  PROVE  ResolveSubmissions(a) \in [Submission -> {"unsent", "accepted", "resolved"}]
  BY DEF TypeOK, ResolveSubmissions

LEMMA PromoteTyped ==
  ASSUME TypeOK, NEW a \in Attempt, Promote(a)
  PROVE  /\ revision' \in Nat /\ archived' \in BOOLEAN
         /\ submission' \in [Submission -> {"unsent", "accepted", "resolved"}]
         /\ RowsTyped' /\ committed' \in SUBSET Attempt
<1>1. status' \in [Attempt -> AttemptStatus] /\ turnStatus' \in [Turn -> TurnStatus]
  BY DEF Promote, TypeOK, AttemptStatus, DeadStatus, TurnStatus
<1>2. stream' \in [Attempt -> StreamStatus]
  BY DEF Promote, TypeOK, StreamStatus
<1>3. submission' \in [Submission -> {"unsent", "accepted", "resolved"}]
  BY ResolveTyped DEF Promote
<1>4. QED
  BY <1>1, <1>2, <1>3 DEF Promote, RowsTyped, TypeOK

\* CommitTurn, branch by branch.
LEMMA CommitTurnTyped ==
  ASSUME Typed, NEW x \in Executor, NEW silent \in BOOLEAN, CommitTurn(x, silent)
  PROVE  Typed'
<1> DEFINE a == job[x]
<1>0. /\ TypeOK /\ ExecutorsTyped /\ phase[x] # "idle" /\ a \in Attempt
  BY DEF Typed, AtWork, ExecutorsTyped, TypeOK, CommitTurn
<1>u. HistoryTyped'
  <2>1. (upsets' = upsets \/ upsets' = upsets + 1) /\ UNCHANGED late
    BY DEF CommitTurn, Upset
  <2>2. QED
    BY <1>0, <2>1 DEF TypeOK
<1>1. ASSUME NEW retriable \in BOOLEAN, RecordFailure(x, retriable),
             UNCHANGED <<campaign, submission, committed>>
      PROVE  Typed'
  BY <1>0, <1>u, <1>1, RecordFailureTyped, Together DEF campaign, TypeOK
<1>2. CASE DiscardResult(x, a)
  <2>1. status' \in [Attempt -> AttemptStatus] /\ RowsTyped'
    BY <1>0, <1>2 DEF DiscardResult, TypeOK, AttemptStatus, DeadStatus, RowsTyped, turnRows
  <2>2. QED
    BY <1>0, <1>u, <1>2, <2>1, GoIdleTyped, Together DEF DiscardResult, campaign, TypeOK
<1>3. CASE ReplayCommit(a, silent) /\ GoIdle(x)
  <2>1. /\ status' \in [Attempt -> AttemptStatus] /\ turnStatus' \in [Turn -> TurnStatus]
    BY <1>0, <1>3 DEF ReplayCommit, TypeOK, AttemptStatus, DeadStatus, TurnStatus
  <2>2. RowsTyped'
    BY <1>0, <1>3, <2>1 DEF ReplayCommit, TypeOK, RowsTyped
  <2>3. QED
    BY <1>0, <1>u, <1>3, <2>2, GoIdleTyped, Together DEF ReplayCommit, campaign, TypeOK
<1>4. CASE FailCommit(x) /\ UNCHANGED <<campaign, submission, committed>>
  <2>1. RowsTyped' /\ ExecutorsTyped'
    BY <1>0, <1>4, FailVisiblyTyped, DecideTyped DEF FailCommit, WriteBack
  <2>2. QED
    BY <1>0, <1>u, <1>4, <2>1, Together DEF campaign, TypeOK
<1>5. CASE Promote(a) /\ GoIdle(x)
  BY <1>0, <1>u, <1>5, PromoteTyped, GoIdleTyped, Together DEF TypeOK
<1>6. CASE DeferArchived(x) /\ UNCHANGED <<campaign, submission, committed, history>>
  BY <1>0, <1>u, <1>6, DeferArchivedTyped, Together DEF campaign, TypeOK
<1>7. CASE /\ GoTo(x, "aborted")
           /\ UNCHANGED <<campaign, submission, committed, turnRows, attemptRows>>
  <2>1. RowsTyped' /\ ExecutorsTyped'
    BY <1>0, <1>7, GoToTyped DEF RowsTyped, TypeOK, turnRows, attemptRows, Phase
  <2>2. QED
    BY <1>0, <1>u, <1>7, <2>1, Together DEF campaign, TypeOK
<1>8. QED
  BY <1>1, <1>2, <1>3, <1>4, <1>5, <1>6, <1>7 DEF CommitTurn

LEMMA ExecuteTyped ==
  ASSUME Typed, NEW x \in Executor, Execute(x)
  PROVE  Typed'
<1>0. TypeOK /\ ExecutorsTyped /\ RowsTyped
  BY DEF Typed, ExecutorsTyped, RowsTyped, TypeOK
<1> USE DEF campaign, turnRows, attemptRows, executors
<1>1. ASSUME NEW b \in Attempt, Begin(x, b) PROVE Typed'
  <2>1. ExecutorsTyped'
    BY <1>0, <1>1 DEF Begin, ExecutionOwnership, ExecutorsTyped, AtWork, Phase
  <2>2. QED
    BY <1>0, <1>1, <2>1, Together DEF Begin, RowsTyped, TypeOK
<1>2. CASE DeferBackpressured(x)
  <2>0. HistoryTyped'
    BY <1>0, <1>2 DEF DeferBackpressured, TypeOK, Upset
  <2>1. mark' \in [Attempt -> {"clean", "delayed", "erred"}]
    <3>1. job[x] \in Attempt /\ mark[job[x]] \in {"clean", "delayed", "erred"}
      BY <1>0, <1>2 DEF DeferBackpressured, ExecutorsTyped, AtWork, RowsTyped
    <3>2. QED
      BY <1>0, <1>2, <3>1 DEF DeferBackpressured, RowsTyped
  <2>2. RowsTyped'
    BY <1>0, <1>2, <2>1 DEF DeferBackpressured, RowsTyped
  <2>3. QED
    BY <1>0, <1>2, <2>0, <2>1, <2>2, GoIdleTyped, Together DEF DeferBackpressured, TypeOK
<1>3. CASE RefreshStale(x)
  BY <1>0, <1>3, DecideTyped, Together DEF RefreshStale, WriteBack, TypeOK
<1>4. CASE MarkRunning(x)
  <2>1. status' \in [Attempt -> AttemptStatus] /\ RowsTyped'
    BY <1>0, <1>4 DEF MarkRunning, RowsTyped, AttemptStatus, LiveStatus
  <2>2. ExecutorsTyped'
    BY <1>0, <1>4, GoToTyped, GoIdleTyped DEF MarkRunning, Phase
  <2>3. QED
    BY <1>0, <1>4, <2>1, <2>2, Together DEF MarkRunning, TypeOK
<1>5. CASE AssembleContext(x)
  <2>1. RowsTyped' /\ ExecutorsTyped'
    BY <1>0, <1>5, GoToTyped, RecordFailureTyped DEF AssembleContext, Phase, RowsTyped
  <2>2. QED
    BY <1>0, <1>5, <2>1, Together DEF AssembleContext, TypeOK
<1>6. CASE DeferForCatchUp(x)
  <2>1. HistoryTyped'
    BY <1>0, <1>6 DEF DeferForCatchUp, Upset, TypeOK
  <2>2. QED
    BY <1>0, <1>6, <2>1, DecideTyped, Together DEF DeferForCatchUp, WriteBack, TypeOK
<1>7. CASE AdjudicationFails(x)
  <2>1. HistoryTyped'
    BY <1>0, <1>7 DEF AdjudicationFails, Upset, TypeOK
  <2>2. QED
    BY <1>0, <1>7, <2>1, RecordFailureTyped, Together DEF AdjudicationFails, TypeOK
<1>8. CASE ArchivedAtBoundary(x)
  BY <1>0, <1>8, DeferArchivedTyped, Together DEF ArchivedAtBoundary, TypeOK
<1>9. CASE RequestRolls(x)
  <2>1. HistoryTyped'
    BY <1>0, <1>9 DEF RequestRolls, Upset, TypeOK
  <2>2. CASE RecordFailure(x, FALSE)
    BY <1>0, <1>9, <2>1, <2>2, RecordFailureTyped, Together DEF RequestRolls, TypeOK
  <2>3. CASE ~RecordFailure(x, FALSE)
    <3>1. /\ turnStatus' \in [Turn -> TurnStatus] /\ status' \in [Attempt -> AttemptStatus]
          /\ rolling' \in [Turn -> Attempt \cup {None}]
      BY <1>0, <1>9, <2>3
      DEF RequestRolls, RowsTyped, ExecutorsTyped, AtWork,
          TurnStatus, ActiveStatus, AttemptStatus, LiveStatus
    <3>2. RowsTyped' /\ ExecutorsTyped'
      BY <1>0, <1>9, <2>3, <3>1, GoIdleTyped DEF RequestRolls, RowsTyped
    <3>3. QED
      BY <1>0, <1>9, <2>1, <3>2, Together DEF RequestRolls, TypeOK
  <2>4. QED
    BY <2>2, <2>3
<1>10. CASE StartStreaming(x)
  <2>1. CASE RecordFailure(x, FALSE)
    BY <1>0, <1>10, <2>1, RecordFailureTyped, Together DEF StartStreaming, TypeOK
  <2>2. CASE ~RecordFailure(x, FALSE)
    <3>1. /\ turnStatus' \in [Turn -> TurnStatus] /\ status' \in [Attempt -> AttemptStatus]
          /\ stream' \in [Attempt -> StreamStatus]
      BY <1>0, <1>10, <2>2
      DEF StartStreaming, RowsTyped, TurnStatus, ActiveStatus, AttemptStatus, LiveStatus, StreamStatus
    <3>2. RowsTyped'
      BY <1>0, <1>10, <2>2, <3>1 DEF StartStreaming, RowsTyped
    <3>3. ExecutorsTyped'
      BY <1>0, <1>10, <2>2, GoToTyped DEF StartStreaming, Phase
    <3>4. QED
      BY <1>0, <1>10, <3>2, <3>3, Together DEF StartStreaming, TypeOK
  <2>3. QED
    BY <2>1, <2>2
<1>11. CASE CompleteStream(x)
  <2>1. RowsTyped'
    BY <1>0, <1>11 DEF CompleteStream, RowsTyped, StreamStatus
  <2>2. ExecutorsTyped'
    BY <1>0, <1>11, GoToTyped DEF CompleteStream, Phase
  <2>3. QED
    BY <1>0, <1>11, <2>1, <2>2, Together DEF CompleteStream, TypeOK
<1>12. CASE StreamFails(x)
  <2>1. stream' \in [Attempt -> StreamStatus] /\ HistoryTyped'
    BY <1>0, <1>12 DEF StreamFails, RowsTyped, StreamStatus, Upset, TypeOK
  <2>2. RowsTyped'
    BY <1>0, <1>12, <2>1 DEF StreamFails, RowsTyped
  <2>3. ExecutorsTyped'
    BY <1>0, <1>12, GoToTyped DEF StreamFails, Phase
  <2>4. QED
    BY <1>0, <1>12, <2>1, <2>2, <2>3, Together DEF StreamFails, TypeOK
<1>13. CASE Remediate(x)
  BY <1>0, <1>13, DecideTyped, GiveUpTyped, Together DEF Remediate, WriteBack, TypeOK
<1>14. CASE CommitTurn(x, TRUE) \/ CommitTurn(x, FALSE)
  BY <1>14, CommitTurnTyped
<1>15. CASE FinishWrite(x)
  <2>1. phase[x] # "idle"
    BY <1>15 DEF FinishWrite, WriteBack
  <2>2. RowsTyped' /\ ExecutorsTyped'
    BY <1>0, <1>15, <2>1, WriteTyped DEF FinishWrite
  <2>3. HistoryTyped'
    <3>1. late' = late \/ late' = TRUE
      BY <1>15 DEF FinishWrite
    <3>2. late \in BOOLEAN
      BY <1>0 DEF TypeOK
    <3>3. late' \in BOOLEAN
      BY <3>1, <3>2, Zenon
    <3>4. QED
      BY <1>0, <1>15, <3>3 DEF FinishWrite, TypeOK
  <2>4. QED
    BY <1>0, <1>15, <2>2, <2>3, Together DEF FinishWrite, TypeOK
<1>16. CASE Crash(x)
  <2>1. HistoryTyped' /\ RowsTyped'
    BY <1>0, <1>16 DEF Crash, Upset, TypeOK, RowsTyped
  <2>2. QED
    BY <1>0, <1>16, <2>1, GoIdleTyped, Together DEF Crash, TypeOK
<1>17. CASE Abort(x)
  BY <1>0, <1>17, FailVisiblyTyped, RecordFailureTyped, Together DEF Abort, TypeOK
<1>18. QED
  BY <1>1, <1>2, <1>3, <1>4, <1>5, <1>6, <1>7, <1>8, <1>9, <1>10, <1>11, <1>12,
     <1>13, <1>14, <1>15, <1>16, <1>17 DEF Execute

\* The steps outside the executors.
LEMMA AroundTyped ==
  ASSUME Typed,
         \/ \E s \in Submission : Submit(s)
         \/ CoordinateStranded
         \/ \E t \in Turn : \/ FulfillRolls(t) \/ RetryFailedAdjudication(t)
                            \/ AutoRetry(t) \/ RecoverPartialStream(t)
         \/ \E a \in Attempt : RecoverStuck(a) \/ ReclaimStrandedStreaming(a)
         \/ OtherMutation \/ Archive \/ Restore
  PROVE  Typed'
<1>0. TypeOK /\ ExecutorsTyped /\ RowsTyped
  BY DEF Typed, ExecutorsTyped, RowsTyped, TypeOK
<1> USE DEF campaign, turnRows, attemptRows, executors
<1>e. UNCHANGED executors => ExecutorsTyped'
  BY <1>0 DEF ExecutorsTyped, AtWork
<1>1. ASSUME NEW s \in Submission, Submit(s) PROVE Typed'
  <2>1. Unresolved \cup {s} \in SUBSET Submission
    BY DEF Unresolved
  <2>2. submission' \in [Submission -> {"unsent", "accepted", "resolved"}]
    BY <1>0, <1>1 DEF Submit, TypeOK
  <2>3. QED
    BY <1>0, <1>e, <1>1, <2>1, <2>2, CoordinateTyped, Together DEF Submit, TypeOK
<1>2. CASE CoordinateStranded
  <2>1. Unresolved \in SUBSET Submission
    BY DEF Unresolved
  <2>2. QED
    BY <1>0, <1>e, <1>2, <2>1, CoordinateTyped, Together DEF CoordinateStranded, TypeOK
<1>3. ASSUME NEW t \in Turn, FulfillRolls(t) PROVE Typed'
  <2>1. PICK a \in Attempt :
          /\ CreateAttempt(a, t, turnInputs[t])
          /\ status' = [status EXCEPT ![rolling[t]] = "superseded", ![a] = "prepared"]
    BY <1>3 DEF FulfillRolls
  <2>2. /\ status' \in [Attempt -> AttemptStatus] /\ turnStatus' \in [Turn -> TurnStatus]
        /\ rolling' \in [Turn -> Attempt \cup {None}]
    BY <1>0, <1>3, <2>1
    DEF FulfillRolls, RowsTyped, AttemptStatus, LiveStatus, DeadStatus, TurnStatus, ActiveStatus
  <2>3. turnInputs[t] \in SUBSET Submission
    BY <1>0 DEF RowsTyped
  <2>4. RowsTyped'
    BY <1>0, <1>3, <2>1, <2>2, <2>3, CreateTyped DEF FulfillRolls, RowsTyped
  <2>5. QED
    BY <1>0, <1>e, <1>3, <2>4, Together DEF FulfillRolls, TypeOK
<1>4. ASSUME NEW t \in Turn, Retry(t), autoRetried' \in SUBSET Turn, HistoryTyped'
      PROVE  Typed'
  <2>1. inputs[current[t]] \in SUBSET Submission
    BY <1>0, <1>4 DEF Retry, CanRetry, RowsTyped
  <2>2. QED
    BY <1>0, <1>e, <1>4, <2>1, RetryTyped, Together DEF Retry, TypeOK
<1>5. ASSUME NEW t \in Turn, RetryFailedAdjudication(t) \/ AutoRetry(t) PROVE Typed'
  <2>1. Retry(t) /\ autoRetried' \in SUBSET Turn /\ HistoryTyped'
    BY <1>0, <1>5 DEF RetryFailedAdjudication, AutoRetry, Upset, TypeOK
  <2>2. QED
    BY <1>4, <2>1
<1>6. ASSUME NEW t \in Turn, RecoverPartialStream(t) PROVE Typed'
  <2>1. current[t] \in Attempt /\ HistoryTyped'
    BY <1>0, <1>6 DEF RecoverPartialStream, CanRetry, RowsTyped, Upset, TypeOK
  <2>2. QED
    BY <1>0, <1>e, <1>6, <2>1, PromoteTyped, Together DEF RecoverPartialStream
<1>7. ASSUME NEW a \in Attempt, RecoverStuck(a) PROVE Typed'
  <2>1. status' \in [Attempt -> AttemptStatus] /\ mark' \in [Attempt -> {"clean", "delayed", "erred"}]
    BY <1>0, <1>7 DEF RecoverStuck, RowsTyped, AttemptStatus, LiveStatus
  <2>2. QED
    BY <1>0, <1>e, <1>7, <2>1, Together DEF RecoverStuck, RowsTyped, TypeOK
<1>8. ASSUME NEW a \in Attempt, ReclaimStrandedStreaming(a) PROVE Typed'
  <2>1. status' \in [Attempt -> AttemptStatus] /\ turnStatus' \in [Turn -> TurnStatus]
    BY <1>0, <1>8
    DEF ReclaimStrandedStreaming, RowsTyped, AttemptStatus, LiveStatus, TurnStatus, ActiveStatus
  <2>2. QED
    BY <1>0, <1>e, <1>8, <2>1, Together DEF ReclaimStrandedStreaming, RowsTyped, TypeOK
<1>9. CASE OtherMutation \/ Archive \/ Restore
  <2>1. revision' \in Nat /\ archived' \in BOOLEAN /\ HistoryTyped'
    <3>1. revision' = revision + 1 /\ upsets' \in {upsets, upsets + 1} /\ UNCHANGED late
      BY <1>9 DEF OtherMutation, Archive, Restore, Upset
    <3>2. archived' = archived \/ archived' = TRUE \/ archived' = FALSE
      BY <1>9, Zenon DEF OtherMutation, Archive, Restore
    <3>3. archived \in BOOLEAN /\ revision \in Nat /\ HistoryTyped
      BY <1>0 DEF TypeOK
    <3>4. archived' \in BOOLEAN
      BY <3>2, <3>3, Zenon
    <3>5. QED
      BY <3>1, <3>3, <3>4
  <2>2. RowsTyped'
    BY <1>0, <1>9 DEF OtherMutation, Archive, Restore, RowsTyped
  <2>3. QED
    BY <1>0, <1>e, <1>9, <2>1, <2>2, Together DEF OtherMutation, Archive, Restore, TypeOK
<1>10. QED
  BY <1>1, <1>2, <1>3, <1>5, <1>6, <1>7, <1>8, <1>9

LEMMA TypedStep == Typed /\ [Next]_vars => Typed'
<1> SUFFICES ASSUME Typed, [Next]_vars PROVE Typed'
  OBVIOUS
<1>1. CASE UNCHANGED vars
  BY <1>1 DEF Typed, TypeOK, AtWork, vars, campaign, turnRows, attemptRows, executors
<1>2. CASE Next
  BY <1>2, ExecuteTyped, AroundTyped DEF Next
<1>3. QED
  BY <1>1, <1>2

LEMMA InitTyped == Init => Typed
<1>0. Init => archived \in BOOLEAN /\ late \in BOOLEAN
  BY Zenon DEF Init
<1>1. Init => /\ revision \in Nat
              /\ submission \in [Submission -> {"unsent", "accepted", "resolved"}]
              /\ committed \in SUBSET Attempt /\ upsets \in Nat
  BY DEF Init
<1>2. Init => RowsTyped
  <2>1. Init => /\ turnStatus \in [Turn -> TurnStatus] /\ turnInputs \in [Turn -> SUBSET Submission]
                /\ current \in [Turn -> Attempt \cup {None}] /\ autoRetried \in SUBSET Turn
                /\ rolling \in [Turn -> Attempt \cup {None}]
    BY DEF Init, TurnStatus
  <2>2. Init => /\ status \in [Attempt -> AttemptStatus] /\ turnOf \in [Attempt -> Turn \cup {None}]
                /\ inputs \in [Attempt -> SUBSET Submission]
                /\ mark \in [Attempt -> {"clean", "delayed", "erred"}]
                /\ stream \in [Attempt -> StreamStatus]
    BY DEF Init, AttemptStatus, StreamStatus
  <2>3. Init => basedOn \in [Attempt -> Nat]
    BY DEF Init
  <2>4. QED
    BY <2>1, <2>2, <2>3 DEF RowsTyped
<1>3. Init => ExecutorsTyped
  BY DEF Init, ExecutorsTyped, AtWork, Phase
<1>4. QED
  BY <1>0, <1>1, <1>2, <1>3, Parts

\* Whatever the interleaving of executors, sweeps, players and owners, every
\* row keeps its type, and an executor at work has an attempt.
THEOREM TypeCorrect == Spec => []TypeOK
<1>1. Init => Typed
  BY InitTyped
<1>2. Typed => TypeOK
  BY DEF Typed
<1>3. QED
  BY <1>1, <1>2, TypedStep, PTL DEF Spec

-----------------------------------------------------------------------------
(* The invariant.                                                          *)

\* Every attempt that exists belongs to a turn, and every active turn has a
\* live attempt.
Placed == \A a \in Attempt : status[a] # "none" => turnOf[a] \in Turn
Alive ==
  \A t \in ActiveTurns :
    /\ current[t] \in Attempt /\ turnOf[current[t]] = t /\ status[current[t]] \in LiveStatus
\* The input of an active turn is that of its attempt, and all of it is owed.
Owed ==
  \A t \in ActiveTurns :
    /\ turnInputs[t] = inputs[current[t]]
    /\ turnInputs[t] # {} /\ turnInputs[t] \subseteq Unresolved
NoIdleRolls == \A t \in Turn : turnStatus[t] \notin ActiveStatus => rolling[t] = None
CommittedSucceeded == \A a \in Attempt : a \in committed <=> status[a] = "succeeded"

\* Executors work on attempts that exist.
Working == \A x \in Executor : phase[x] # "idle" => status[job[x]] # "none"

RowsSound == /\ Placed /\ Alive /\ Owed /\ NoIdleRolls /\ CommittedSucceeded
             /\ CurrentAlone /\ RowsMatch /\ ResolvedOnce
Sound == RowsSound /\ Working

-----------------------------------------------------------------------------
(* Every step is one of a few forms, as far as the rows are concerned.     *)

Accepts ==
  \/ UNCHANGED submission
  \/ /\ revision' = revision
     /\ \E s \in Submission : /\ submission[s] = "unsent"
                              /\ submission' = [submission EXCEPT ![s] = "accepted"]
Quiet == /\ Accepts /\ committed' = committed
         /\ (revision' = revision \/ revision' = revision + 1)

Opens(t, a, S) ==
  /\ Quiet /\ ActiveTurns = {} /\ turnStatus[t] = "none" /\ status[a] = "none"
  /\ S # {} /\ S \subseteq Unresolved'
  /\ status' = [status EXCEPT ![a] = "prepared"]
  /\ turnStatus' = [turnStatus EXCEPT ![t] = "pending"]
  /\ turnInputs' = [turnInputs EXCEPT ![t] = S]
  /\ current' = [current EXCEPT ![t] = a]
  /\ turnOf' = [turnOf EXCEPT ![a] = t]
  /\ inputs' = [inputs EXCEPT ![a] = S]
  /\ rolling' = rolling

Succeeds(t, a, how, S) ==
  /\ Quiet /\ turnStatus[t] \in ActiveStatus \ {"streaming"} /\ status[a] = "none"
  /\ S # {} /\ S \subseteq Unresolved'
  /\ status' = [status EXCEPT ![current[t]] = how, ![a] = "prepared"]
  /\ turnStatus' = [turnStatus EXCEPT ![t] = "pending"]
  /\ turnInputs' = [turnInputs EXCEPT ![t] = S]
  /\ current' = [current EXCEPT ![t] = a]
  /\ turnOf' = [turnOf EXCEPT ![a] = t]
  /\ inputs' = [inputs EXCEPT ![a] = S]
  /\ rolling' = [rolling EXCEPT ![t] = None]

Matching(a) == {<<"prepared", "pending", None>>, <<"running", "pending", None>>,
                <<"streaming", "streaming", None>>, <<"failed_visible", "failed_visible", None>>,
                <<"awaiting_roll", "awaiting_roll", a>>}

Moves(a, how, ts, r) ==
  /\ Quiet /\ status[a] \in LiveStatus /\ <<how, ts, r>> \in Matching(a)
  /\ status' = [status EXCEPT ![a] = how]
  /\ turnStatus' = [turnStatus EXCEPT ![turnOf[a]] = ts]
  /\ rolling' = [rolling EXCEPT ![turnOf[a]] = r]
  /\ UNCHANGED <<turnInputs, current, turnOf, inputs>>

Promotes(a) ==
  /\ status[a] \in LiveStatus /\ rolling[turnOf[a]] = None
  /\ Promote(a)

Discards(a) ==
  /\ Quiet /\ status[a] \in {"discarded", "abandoned"}
  /\ status' = [status EXCEPT ![a] = "discarded"]
  /\ UNCHANGED <<turnStatus, turnInputs, current, rolling, turnOf, inputs>>

Rests == /\ Quiet
         /\ UNCHANGED <<turnStatus, turnInputs, current, rolling, status, turnOf, inputs>>

Form ==
  \/ Rests
  \/ \E t \in Turn, a \in Attempt, S \in SUBSET Submission : Opens(t, a, S)
  \/ \E t \in Turn, a \in Attempt, S \in SUBSET Submission, how \in {"superseded", "abandoned"} :
       Succeeds(t, a, how, S)
  \/ \E a \in Attempt, how \in LiveStatus, ts \in ActiveStatus, r \in Attempt \cup {None} :
       Moves(a, how, ts, r)
  \/ \E a \in Attempt : Promotes(a)
  \/ \E a \in Attempt : Discards(a)

-----------------------------------------------------------------------------
(* The forms keep the invariant.                                           *)

LEMMA RowTypes ==
  Typed => /\ turnStatus \in [Turn -> TurnStatus] /\ turnInputs \in [Turn -> SUBSET Submission]
           /\ current \in [Turn -> Attempt \cup {None}] /\ rolling \in [Turn -> Attempt \cup {None}]
           /\ status \in [Attempt -> AttemptStatus] /\ turnOf \in [Attempt -> Turn \cup {None}]
           /\ inputs \in [Attempt -> SUBSET Submission]
           /\ committed \in SUBSET Attempt
           /\ submission \in [Submission -> {"unsent", "accepted", "resolved"}]
  BY DEF Typed, TypeOK

\* Accepting input resolves nothing and takes nothing away from what is owed.
LEMMA QuietResolves ==
  ASSUME Typed, Quiet
  PROVE  /\ \A s \in Submission : submission'[s] = "resolved" <=> submission[s] = "resolved"
         /\ Unresolved \subseteq Unresolved'
         /\ committed' = committed
  BY RowTypes DEF Quiet, Accepts, Unresolved

LEMMA OpensSound ==
  ASSUME Typed, RowsSound, NEW t \in Turn, NEW a \in Attempt, NEW S \in SUBSET Submission,
         Opens(t, a, S)
  PROVE  RowsSound'
<1> USE DEF RowsSound
<1>1. /\ status'[a] = "prepared" /\ turnOf'[a] = t /\ inputs'[a] = S
      /\ \A b \in Attempt \ {a} : /\ status'[b] = status[b] /\ turnOf'[b] = turnOf[b]
                                  /\ inputs'[b] = inputs[b]
  BY RowTypes DEF Opens
<1>2. /\ turnStatus'[t] = "pending" /\ turnInputs'[t] = S /\ current'[t] = a
      /\ \A u \in Turn \ {t} : /\ turnStatus'[u] = turnStatus[u] /\ turnInputs'[u] = turnInputs[u]
                               /\ current'[u] = current[u]
      /\ rolling' = rolling
  BY RowTypes DEF Opens
<1>3. ActiveTurns' = {t}
  BY <1>2 DEF Opens, ActiveTurns, ActiveStatus
<1>4. \A b \in Attempt : status[b] \notin LiveStatus
  BY DEF Opens, CurrentAlone
<1>5. a \notin committed /\ committed' = committed
  BY QuietResolves DEF Opens, CommittedSucceeded
<1>6. Placed'
  BY <1>1 DEF Placed
<1>7. Alive'
  BY <1>1, <1>2, <1>3 DEF Alive, LiveStatus
<1>8. Owed'
  BY <1>1, <1>2, <1>3 DEF Owed, Opens
<1>9. NoIdleRolls'
  BY <1>2 DEF NoIdleRolls, ActiveStatus
<1>10. CommittedSucceeded'
  BY <1>1, <1>5 DEF CommittedSucceeded
<1>11. CurrentAlone'
  BY <1>1, <1>2, <1>3, <1>4 DEF CurrentAlone
<1>12. RowsMatch'
  BY <1>1, <1>2, <1>3 DEF RowsMatch, NoIdleRolls, Opens, ActiveStatus
<1>13. ResolvedOnce'
  BY <1>1, <1>5, QuietResolves, RowTypes DEF ResolvedOnce, Opens
<1>14. QED
  BY <1>6, <1>7, <1>8, <1>9, <1>10, <1>11, <1>12, <1>13

LEMMA SucceedsSound ==
  ASSUME Typed, RowsSound, NEW t \in Turn, NEW a \in Attempt, NEW S \in SUBSET Submission,
         NEW how \in {"superseded", "abandoned"}, Succeeds(t, a, how, S)
  PROVE  RowsSound'
<1> USE DEF RowsSound
<1>0. /\ t \in ActiveTurns /\ current[t] \in Attempt /\ turnOf[current[t]] = t
      /\ status[current[t]] \in LiveStatus /\ current[t] # a /\ ActiveTurns = {t}
  <2>1. t \in ActiveTurns
    BY DEF Succeeds, ActiveTurns
  <2>2. QED
    BY <2>1 DEF Alive, CurrentAlone, Succeeds, LiveStatus
<1>1. /\ status'[a] = "prepared" /\ turnOf'[a] = t /\ inputs'[a] = S
      /\ status'[current[t]] = how
      /\ \A b \in Attempt \ {a} : /\ turnOf'[b] = turnOf[b] /\ inputs'[b] = inputs[b]
                                  /\ b # current[t] => status'[b] = status[b]
  BY <1>0, RowTypes DEF Succeeds
<1>2. /\ turnStatus'[t] = "pending" /\ turnInputs'[t] = S /\ current'[t] = a /\ rolling'[t] = None
      /\ \A u \in Turn \ {t} : /\ turnStatus'[u] = turnStatus[u] /\ turnInputs'[u] = turnInputs[u]
                               /\ current'[u] = current[u] /\ rolling'[u] = rolling[u]
  BY RowTypes DEF Succeeds
<1>3. ActiveTurns' = {t}
  BY <1>0, <1>2 DEF ActiveTurns, ActiveStatus
<1>4. \A b \in Attempt : status[b] \in LiveStatus => b = current[t]
  BY <1>0 DEF CurrentAlone
<1>5. a \notin committed /\ current[t] \notin committed /\ committed' = committed
  BY <1>0, QuietResolves DEF Succeeds, CommittedSucceeded, LiveStatus
<1>6. Placed'
  BY <1>0, <1>1 DEF Placed
<1>7. Alive'
  BY <1>1, <1>2, <1>3 DEF Alive, LiveStatus
<1>8. Owed'
  BY <1>1, <1>2, <1>3 DEF Owed, Succeeds
<1>9. NoIdleRolls'
  BY <1>2 DEF NoIdleRolls, ActiveStatus
<1>10. CommittedSucceeded'
  BY <1>0, <1>1, <1>5 DEF CommittedSucceeded
<1>11. CurrentAlone'
  BY <1>1, <1>2, <1>3, <1>4 DEF CurrentAlone, LiveStatus
<1>12. RowsMatch'
  BY <1>1, <1>2, <1>3 DEF RowsMatch
<1>13. ResolvedOnce'
  BY <1>1, <1>5, QuietResolves, RowTypes DEF ResolvedOnce, Succeeds
<1>14. QED
  BY <1>6, <1>7, <1>8, <1>9, <1>10, <1>11, <1>12, <1>13

\* A live attempt is the current one of the one active turn.
LEMMA LiveFacts ==
  ASSUME Typed, RowsSound, NEW a \in Attempt, status[a] \in LiveStatus
  PROVE  /\ turnOf[a] \in Turn /\ current[turnOf[a]] = a /\ ActiveTurns = {turnOf[a]}
         /\ a \notin committed
         /\ \A b \in Attempt : status[b] \in LiveStatus => b = a
         /\ inputs[a] # {} /\ inputs[a] \subseteq Unresolved /\ turnInputs[turnOf[a]] = inputs[a]
<1>1. turnOf[a] \in Turn
  BY DEF RowsSound, Placed, LiveStatus
<1>2. current[turnOf[a]] = a /\ ActiveTurns = {turnOf[a]}
  BY DEF RowsSound, CurrentAlone
<1>3. a \notin committed
  BY DEF RowsSound, CommittedSucceeded, LiveStatus
<1>4. ASSUME NEW b \in Attempt, status[b] \in LiveStatus PROVE b = a
  <2>1. current[turnOf[b]] = b /\ ActiveTurns = {turnOf[b]}
    BY <1>4 DEF RowsSound, CurrentAlone
  <2>2. QED
    BY <1>2, <2>1
<1>5. QED
  BY <1>1, <1>2, <1>3, <1>4 DEF RowsSound, Owed

LEMMA MovesSound ==
  ASSUME Typed, RowsSound, NEW a \in Attempt, NEW how \in LiveStatus, NEW ts \in ActiveStatus,
         NEW r \in Attempt \cup {None}, Moves(a, how, ts, r)
  PROVE  RowsSound'
<1> DEFINE t == turnOf[a]
<1>0. /\ t \in Turn /\ current[t] = a /\ ActiveTurns = {t}
      /\ \A b \in Attempt : status[b] \in LiveStatus => b = a
  BY LiveFacts DEF Moves
<1> USE DEF RowsSound
<1> HIDE DEF t
<1>1. /\ status'[a] = how
      /\ \A b \in Attempt \ {a} : status'[b] = status[b]
      /\ turnOf' = turnOf /\ inputs' = inputs /\ current' = current /\ turnInputs' = turnInputs
  BY RowTypes DEF Moves
<1>2. /\ turnStatus'[t] = ts /\ rolling'[t] = r
      /\ \A u \in Turn \ {t} : turnStatus'[u] = turnStatus[u] /\ rolling'[u] = rolling[u]
  BY <1>0, RowTypes DEF Moves, t
<1>3. ActiveTurns' = {t}
  BY <1>0, <1>2 DEF ActiveTurns
<1>4. turnOf[a] = t
  BY DEF t
<1>5. a \notin committed /\ committed' = committed /\ Unresolved \subseteq Unresolved'
  BY LiveFacts, QuietResolves DEF Moves
<1>6. Placed'
  BY <1>1, <1>4, <1>0 DEF Placed
<1>7. Alive'
  BY <1>0, <1>1, <1>3, <1>4 DEF Alive
<1>8. Owed'
  BY <1>0, <1>1, <1>3, <1>5 DEF Owed
<1>9. NoIdleRolls'
  BY <1>2 DEF NoIdleRolls
<1>10. CommittedSucceeded'
  BY <1>1, <1>5 DEF CommittedSucceeded, LiveStatus
<1>11. CurrentAlone'
  BY <1>0, <1>1, <1>3, <1>4 DEF CurrentAlone
<1>12. RowsMatch'
  <2>1. \/ how \in {"prepared", "running"} /\ ts = "pending" /\ r = None
        \/ how \in {"streaming", "failed_visible"} /\ ts = how /\ r = None
        \/ how = "awaiting_roll" /\ ts = "awaiting_roll" /\ r = a
    BY DEF Moves, Matching
  <2>2. QED
    BY <1>0, <1>1, <1>2, <1>3, <2>1 DEF RowsMatch
<1>13. ResolvedOnce'
  BY <1>1, <1>5, QuietResolves, RowTypes DEF ResolvedOnce, Moves
<1>14. QED
  BY <1>6, <1>7, <1>8, <1>9, <1>10, <1>11, <1>12, <1>13

LEMMA PromotesSound ==
  ASSUME Typed, RowsSound, NEW a \in Attempt, Promotes(a)
  PROVE  RowsSound'
<1> DEFINE t == turnOf[a]
<1>0. /\ t \in Turn /\ current[t] = a /\ ActiveTurns = {t} /\ a \notin committed
      /\ \A b \in Attempt : status[b] \in LiveStatus => b = a
      /\ inputs[a] \subseteq Unresolved
  BY LiveFacts DEF Promotes
<1> USE DEF RowsSound
<1> HIDE DEF t
<1>1. /\ status'[a] = "succeeded"
      /\ \A b \in Attempt \ {a} : status'[b] = status[b]
      /\ turnOf' = turnOf /\ inputs' = inputs /\ current' = current /\ turnInputs' = turnInputs
      /\ committed' = committed \cup {a}
  BY RowTypes DEF Promotes, Promote
<1>2. /\ turnStatus'[t] = "succeeded" /\ rolling' = rolling /\ rolling[t] = None
      /\ \A u \in Turn \ {t} : turnStatus'[u] = turnStatus[u]
  BY <1>0, RowTypes DEF Promotes, Promote, t
<1>3. ActiveTurns' = {}
  BY <1>0, <1>2 DEF ActiveTurns, ActiveStatus
<1>4. \A s \in Submission : /\ s \in inputs[a] => submission[s] = "accepted" /\ submission'[s] = "resolved"
                            /\ s \notin inputs[a] => submission'[s] = submission[s]
  BY <1>0, RowTypes DEF Promotes, Promote, ResolveSubmissions, Unresolved
<1>5. \A b \in Attempt : status'[b] \notin LiveStatus
  BY <1>0, <1>1 DEF LiveStatus
<1>6. Placed'
  BY <1>0, <1>1 DEF Placed, t
<1>7. Alive' /\ Owed' /\ RowsMatch'
  BY <1>3 DEF Alive, Owed, RowsMatch
<1>8. NoIdleRolls'
  BY <1>2 DEF NoIdleRolls
<1>9. CommittedSucceeded'
  BY <1>1 DEF CommittedSucceeded
<1>10. CurrentAlone'
  BY <1>5 DEF CurrentAlone
<1>11. ResolvedOnce'
  <2>1. ASSUME NEW b \in committed PROVE inputs[a] \cap inputs[b] = {}
    BY <1>4, RowTypes DEF ResolvedOnce
  <2>2. \A b, c \in committed' : b # c => inputs'[b] \cap inputs'[c] = {}
    BY <1>1, <2>1 DEF ResolvedOnce
  <2>3. ASSUME NEW s \in Submission
        PROVE  submission'[s] = "resolved" <=> \E b \in committed' : s \in inputs'[b]
    <3>1. CASE s \in inputs[a]
      BY <1>1, <1>4, <3>1
    <3>2. CASE s \notin inputs[a]
      BY <1>1, <1>4, <3>2 DEF ResolvedOnce
    <3>3. QED
      BY <3>1, <3>2
  <2>4. QED
    BY <2>2, <2>3 DEF ResolvedOnce
<1>12. QED
  BY <1>6, <1>7, <1>8, <1>9, <1>10, <1>11

LEMMA DiscardsSound ==
  ASSUME Typed, RowsSound, NEW a \in Attempt, Discards(a)
  PROVE  RowsSound'
<1> USE DEF RowsSound
<1>1. /\ status'[a] = "discarded" /\ status[a] \in {"discarded", "abandoned"}
      /\ \A b \in Attempt \ {a} : status'[b] = status[b]
      /\ UNCHANGED <<turnStatus, turnInputs, current, rolling, turnOf, inputs>>
  BY RowTypes DEF Discards
<1>2. \A b \in Attempt : /\ status'[b] \in LiveStatus <=> status[b] \in LiveStatus
                         /\ status[b] \in LiveStatus => status'[b] = status[b]
                         /\ status'[b] = "succeeded" <=> status[b] = "succeeded"
                         /\ status'[b] = "none" <=> status[b] = "none"
  BY <1>1 DEF LiveStatus
<1>3. ActiveTurns' = ActiveTurns /\ committed' = committed /\ Unresolved \subseteq Unresolved'
  BY <1>1, QuietResolves DEF ActiveTurns, Discards
<1>4. Placed' /\ NoIdleRolls' /\ CommittedSucceeded' /\ CurrentAlone'
  BY <1>1, <1>2, <1>3 DEF Placed, NoIdleRolls, CommittedSucceeded, CurrentAlone
<1>5. Alive' /\ Owed'
  BY <1>1, <1>2, <1>3 DEF Alive, Owed
<1>6. RowsMatch'
  BY <1>1, <1>2, <1>3 DEF RowsMatch, Alive
<1>7. ResolvedOnce'
  BY <1>1, <1>3, QuietResolves, RowTypes DEF ResolvedOnce, Discards
<1>8. QED
  BY <1>4, <1>5, <1>6, <1>7

LEMMA RestsSound ==
  ASSUME Typed, RowsSound, Rests
  PROVE  RowsSound'
<1> USE DEF RowsSound
<1>1. /\ UNCHANGED <<turnStatus, turnInputs, current, rolling, status, turnOf, inputs>>
      /\ ActiveTurns' = ActiveTurns /\ committed' = committed /\ Unresolved \subseteq Unresolved'
  BY QuietResolves DEF ActiveTurns, Rests
<1>2. Placed' /\ Alive' /\ NoIdleRolls' /\ CommittedSucceeded' /\ CurrentAlone'
  BY <1>1 DEF Placed, Alive, NoIdleRolls, CommittedSucceeded, CurrentAlone
<1>3. Owed' /\ RowsMatch'
  BY <1>1 DEF Owed, RowsMatch
<1>4. ResolvedOnce'
  BY <1>1, QuietResolves, RowTypes DEF ResolvedOnce, Rests
<1>5. QED
  BY <1>2, <1>3, <1>4

LEMMA FormSound == Typed /\ RowsSound /\ Form => RowsSound'
  BY OpensSound, SucceedsSound, MovesSound, PromotesSound, DiscardsSound, RestsSound DEF Form

-----------------------------------------------------------------------------
(* Every step that is not a late write takes one of the forms.             *)

\* What the executor's attempt and its turn look like, by the attempt's status.
LEMMA StatusOfTurn ==
  ASSUME Typed, RowsSound, NEW a \in Attempt, status[a] \in LiveStatus
  PROVE  /\ turnOf[a] \in Turn
         /\ status[a] \in {"prepared", "running"} =>
              turnStatus[turnOf[a]] = "pending" /\ rolling[turnOf[a]] = None
         /\ status[a] \in {"streaming", "failed_visible"} =>
              turnStatus[turnOf[a]] = status[a] /\ rolling[turnOf[a]] = None
         /\ status[a] = "awaiting_roll" =>
              turnStatus[turnOf[a]] = status[a] /\ rolling[turnOf[a]] = a
<1>1. /\ turnOf[a] \in Turn /\ current[turnOf[a]] = a /\ turnOf[a] \in ActiveTurns
  BY LiveFacts
<1>2. turnStatus[turnOf[a]] \in ActiveStatus
  BY <1>1 DEF ActiveTurns
<1>3. QED
  BY <1>1, <1>2 DEF RowsSound, RowsMatch, ActiveStatus, LiveStatus

\* A live attempt changes while its turn stands.
LEMMA MovesInPlace ==
  ASSUME Typed, RowsSound, NEW a \in Attempt, NEW how \in LiveStatus, status[a] \in LiveStatus,
         Quiet, <<how, turnStatus[turnOf[a]], rolling[turnOf[a]]>> \in Matching(a),
         status' = [status EXCEPT ![a] = how],
         UNCHANGED <<turnStatus, turnInputs, current, rolling, turnOf, inputs>>
  PROVE  Form
<1> DEFINE ts == turnStatus[turnOf[a]]
           r == rolling[turnOf[a]]
<1>1. turnOf[a] \in Turn
  BY StatusOfTurn
<1>2. r \in Attempt \cup {None} /\ ts \in ActiveStatus
  BY <1>1, RowTypes DEF Matching, ActiveStatus
<1>3. turnStatus' = [turnStatus EXCEPT ![turnOf[a]] = ts] /\ rolling' = [rolling EXCEPT ![turnOf[a]] = r]
  BY <1>1, RowTypes
<1>4. Moves(a, how, ts, r)
  BY <1>3 DEF Moves
<1>5. QED
  BY <1>2, <1>4 DEF Form

\* A live attempt and its turn change together; no roll is pending.
LEMMA MovesTogether ==
  ASSUME Typed, RowsSound, NEW a \in Attempt, NEW how \in {"streaming", "failed_visible"},
         status[a] \in LiveStatus, rolling[turnOf[a]] = None, Quiet,
         status' = [status EXCEPT ![a] = how], turnStatus' = [turnStatus EXCEPT ![turnOf[a]] = how],
         UNCHANGED <<turnInputs, current, rolling, turnOf, inputs>>
  PROVE  Form
<1>1. turnOf[a] \in Turn
  BY StatusOfTurn
<1>2. rolling' = [rolling EXCEPT ![turnOf[a]] = None]
  BY <1>1, RowTypes
<1>3. Moves(a, how, how, None) /\ how \in LiveStatus /\ how \in ActiveStatus
  BY <1>2 DEF Moves, Matching, LiveStatus, ActiveStatus
<1>4. QED
  BY <1>3 DEF Form

\* The turn of t goes on with a new attempt over S.
LEMMA GoesOn ==
  ASSUME Typed, RowsSound, NEW t \in Turn, NEW a \in Attempt, NEW S \in SUBSET Submission,
         NEW how \in {"superseded", "abandoned"}, Quiet,
         turnStatus[t] \in ActiveStatus \ {"streaming"}, CreateAttempt(a, t, S),
         S # {}, S \subseteq Unresolved',
         status' = [status EXCEPT ![current[t]] = how, ![a] = "prepared"],
         turnStatus' = [turnStatus EXCEPT ![t] = "pending"],
         turnInputs' = [turnInputs EXCEPT ![t] = S],
         rolling' = [rolling EXCEPT ![t] = None]
  PROVE  Form
<1>1. Succeeds(t, a, how, S)
  BY DEF Succeeds, CreateAttempt, FreshAttempt
<1>2. QED
  BY <1>1 DEF Form

LEMMA RestsForm ==
  ASSUME Quiet, UNCHANGED <<turnStatus, turnInputs, current, rolling, status, turnOf, inputs>>
  PROVE  Form
  BY DEF Form, Rests

LEMMA WriteForm ==
  ASSUME Typed, Sound, NEW x \in Executor, phase[x] # "idle", NEW what \in WriteBack, Quiet,
         what \in {"requeue", "postpone"} => status[job[x]] \in {"prepared", "running"},
         what = "fail" => status[job[x]] \in {"prepared", "running", "streaming"},
         what = "refresh" => NeedsRefresh(job[x]),
         Write(x, what)
  PROVE  Form
<1> DEFINE a == job[x]
<1>0. a \in Attempt /\ RowsSound
  BY DEF Typed, AtWork, Sound
<1> USE DEF turnRows
<1>1. CASE what \in {"requeue", "postpone"}
  <2>1. status[a] \in LiveStatus /\ <<"prepared", turnStatus[turnOf[a]], rolling[turnOf[a]]>> \in Matching(a)
    BY <1>0, <1>1, StatusOfTurn DEF LiveStatus, Matching
  <2>2. /\ status' = [status EXCEPT ![a] = "prepared"]
        /\ UNCHANGED <<turnStatus, turnInputs, current, rolling, turnOf, inputs>>
    BY <1>1 DEF Write, Requeue
  <2>3. QED
    BY <1>0, <2>1, <2>2, MovesInPlace DEF LiveStatus
<1>2. CASE what = "fail"
  <2>1. status[a] \in LiveStatus
    BY <1>2 DEF LiveStatus
  <2>2. rolling[turnOf[a]] = None /\ ActiveTurns = {turnOf[a]}
    BY <1>0, <1>2, <2>1, StatusOfTurn, LiveFacts
  <2>3. /\ status' = [status EXCEPT ![a] = "failed_visible"]
        /\ turnStatus' = [turnStatus EXCEPT ![turnOf[a]] = "failed_visible"]
        /\ UNCHANGED <<turnInputs, current, rolling, turnOf, inputs>>
    BY <1>2, <2>2 DEF Write, FailVisibly
  <2>4. QED
    BY <1>0, <2>1, <2>2, <2>3, MovesTogether
<1>3. CASE what = "refresh"
  <2>0. NeedsRefresh(a) /\ Refresh(x)
    BY <1>3 DEF Write
  <2>1. PICK b \in Attempt :
          /\ CreateAttempt(b, turnOf[a], inputs[a])
          /\ status' = [status EXCEPT ![a] = "superseded", ![b] = "prepared"]
    BY <2>0 DEF Refresh
  <2>2. status[a] \in LiveStatus /\ turnStatus[turnOf[a]] = "pending"
    BY <2>0 DEF NeedsRefresh, LiveStatus
  <2>3. /\ turnOf[a] \in Turn /\ current[turnOf[a]] = a /\ rolling[turnOf[a]] = None
        /\ inputs[a] # {} /\ inputs[a] \subseteq Unresolved /\ turnInputs[turnOf[a]] = inputs[a]
    BY <1>0, <2>0, <2>2, LiveFacts, StatusOfTurn DEF NeedsRefresh
  <2>4. inputs[a] \in SUBSET Submission
    BY <1>0, RowTypes
  <2>5. inputs[a] \subseteq Unresolved'
    BY <2>3, QuietResolves
  <2>6. /\ turnStatus' = [turnStatus EXCEPT ![turnOf[a]] = "pending"]
        /\ turnInputs' = [turnInputs EXCEPT ![turnOf[a]] = inputs[a]]
        /\ rolling' = [rolling EXCEPT ![turnOf[a]] = None]
    BY <2>0, <2>2, <2>3, RowTypes DEF Refresh
  <2>7. QED
    BY <1>0, <2>1, <2>2, <2>3, <2>4, <2>5, <2>6, GoesOn DEF ActiveStatus
<1>4. QED
  BY <1>1, <1>2, <1>3 DEF WriteBack

LEMMA DecideForm ==
  ASSUME Typed, Sound, NEW x \in Executor, phase[x] # "idle", NEW what \in WriteBack,
         Quiet,
         what \in {"requeue", "postpone"} => status[job[x]] \in {"prepared", "running"},
         what = "fail" => status[job[x]] \in {"prepared", "running", "streaming"},
         what = "refresh" => NeedsRefresh(job[x]),
         Decide(x, what)
  PROVE  Form
<1>1. CASE what \in Windows
  BY <1>1, RestsForm DEF Decide, turnRows, attemptRows
<1>2. CASE what \notin Windows
  BY <1>2, WriteForm DEF Decide
<1>3. QED
  BY <1>1, <1>2

LEMMA GiveUpForm ==
  ASSUME NEW x \in Executor, Quiet, GiveUp(x)
  PROVE  Form
  BY RestsForm DEF GiveUp, turnRows, attemptRows

LEMMA RecordFailureForm ==
  ASSUME Typed, Sound, NEW x \in Executor, phase[x] # "idle", NEW retriable \in BOOLEAN,
         Quiet, RecordFailure(x, retriable)
  PROVE  Form
<1> DEFINE a == job[x]
           crossed == turnStatus[turnOf[a]] \in {"streaming", "failed_visible"}
<1>0. a \in Attempt /\ RowsSound
  BY DEF Typed, AtWork, Sound
<1>1. CASE status[a] \notin {"prepared", "running", "streaming"}
  BY <1>1, GiveUpForm DEF RecordFailure
<1>2. CASE status[a] \in {"prepared", "running", "streaming"} /\ retriable /\ ~crossed
  <2>1. status[a] \in {"prepared", "running"}
    BY <1>0, <1>2, StatusOfTurn DEF LiveStatus
  <2>2. Decide(x, "requeue")
    BY <1>2 DEF RecordFailure
  <2>3. QED
    BY <2>1, <2>2, DecideForm DEF WriteBack
<1>3. CASE status[a] \in {"prepared", "running", "streaming"} /\ ~(retriable /\ ~crossed)
  <2>1. Decide(x, "fail")
    BY <1>3 DEF RecordFailure
  <2>2. QED
    BY <1>3, <2>1, DecideForm DEF WriteBack
<1>4. QED
  BY <1>1, <1>2, <1>3

LEMMA DeferArchivedForm ==
  ASSUME Typed, Sound, NEW x \in Executor, phase[x] # "idle", Quiet, DeferArchived(x)
  PROVE  Form
<1>1. CASE status[job[x]] = "running"
  BY <1>1, DecideForm DEF DeferArchived, WriteBack
<1>2. CASE status[job[x]] # "running"
  BY <1>2, GiveUpForm DEF DeferArchived
<1>3. QED
  BY <1>1, <1>2

\* An attempt that is not its turn's current one is dead; one that may commit
\* is live and its turn has no roll pending.
LEMMA CommitTurnForm ==
  ASSUME Typed, Sound, NEW x \in Executor, NEW silent \in BOOLEAN, CommitTurn(x, silent)
  PROVE  Form
<1> DEFINE a == job[x]
           t == turnOf[a]
<1>0. /\ phase[x] # "idle" /\ a \in Attempt /\ RowsSound /\ status[a] # "none"
      /\ status[a] \in AttemptStatus
  BY RowTypes DEF Typed, AtWork, Sound, Working, CommitTurn
<1> USE DEF campaign, turnRows
<1>q. UNCHANGED <<campaign, submission, committed>> => Quiet
  BY DEF Quiet, Accepts
<1>1. ASSUME NEW retriable \in BOOLEAN, RecordFailure(x, retriable),
             UNCHANGED <<campaign, submission, committed>>
      PROVE  Form
  BY <1>0, <1>1, <1>q, RecordFailureForm
<1>2. CASE current[t] # a /\ DiscardResult(x, a)
  <2>1. Quiet /\ UNCHANGED <<turnStatus, turnInputs, current, rolling, turnOf, inputs>>
    BY <1>2, <1>q DEF DiscardResult
  <2>2. CASE status[a] \in {"succeeded", "failed_visible", "superseded"}
    BY <1>2, <2>1, <2>2, RestsForm DEF DiscardResult
  <2>3. CASE status[a] \notin {"succeeded", "failed_visible", "superseded"}
    <3>1. status[a] \notin LiveStatus
      BY <1>0, <1>2, LiveFacts
    <3>2. status[a] \in {"discarded", "abandoned"}
      BY <1>0, <2>3, <3>1 DEF AttemptStatus, DeadStatus
    <3>3. Discards(a)
      BY <1>2, <2>1, <2>3, <3>2 DEF Discards, DiscardResult
    <3>4. QED
      BY <1>0, <3>3 DEF Form
  <2>4. QED
    BY <2>2, <2>3
<1>3. CASE /\ a \in committed /\ (status[a] = "succeeded" => turnStatus[t] = "succeeded")
           /\ ReplayCommit(a, silent)
  <2>1. status[a] = "succeeded" /\ turnStatus[t] = "succeeded"
    BY <1>0, <1>3 DEF RowsSound, CommittedSucceeded
  <2>2. UNCHANGED <<turnStatus, turnInputs, current, rolling, status, turnOf, inputs>> /\ Quiet
    BY <1>3, <1>q, <2>1 DEF ReplayCommit
  <2>3. QED
    BY <2>2, RestsForm
<1>4. CASE CommitBoundary(a, silent) /\ FailCommit(x) /\ UNCHANGED <<campaign, submission, committed>>
  <2>1. status[a] \in {"prepared", "running", "streaming"} /\ Quiet
    BY <1>4, <1>q DEF CommitBoundary
  <2>2. Write(x, "fail") \/ Decide(x, "fail")
    BY <1>4 DEF FailCommit, Write
  <2>3. QED
    BY <1>0, <2>1, <2>2, WriteForm, DecideForm DEF WriteBack
<1>5. CASE CommitBoundary(a, silent) /\ Promote(a)
  <2>1. status[a] \in LiveStatus /\ rolling[t] = None
    BY <1>5 DEF CommitBoundary, LiveStatus
  <2>2. Promotes(a)
    BY <1>5, <2>1 DEF Promotes
  <2>3. QED
    BY <1>0, <2>2 DEF Form
<1>6. CASE DeferArchived(x) /\ UNCHANGED <<campaign, submission, committed>>
  BY <1>0, <1>6, <1>q, DeferArchivedForm
<1>7. CASE UNCHANGED <<campaign, submission, committed, turnRows, attemptRows>>
  BY <1>7, <1>q, RestsForm DEF attemptRows
<1>8. QED
  BY <1>1, <1>2, <1>3, <1>4, <1>5, <1>6, <1>7 DEF CommitTurn

\* A write that is late is the one step that is of no form.
LEMMA ExecuteForm ==
  ASSUME Typed, Sound, ~late', NEW x \in Executor, Execute(x)
  PROVE  Form
<1> USE DEF campaign, turnRows, attemptRows
<1>0. RowsSound /\ (phase[x] # "idle" => job[x] \in Attempt)
  BY DEF Typed, AtWork, Sound
<1>q. UNCHANGED <<campaign, submission, committed>> => Quiet
  BY DEF Quiet, Accepts
<1>1. ASSUME NEW a \in Attempt, Begin(x, a) PROVE Form
  BY <1>1, <1>q, RestsForm DEF Begin
<1>2. CASE DeferBackpressured(x)
  BY <1>2, <1>q, RestsForm DEF DeferBackpressured
<1>3. CASE RefreshStale(x)
  BY <1>3, <1>q, DecideForm DEF RefreshStale, WriteBack
<1>4. CASE MarkRunning(x)
  <2>1. CASE status[job[x]] = "prepared"
    <3>1. /\ job[x] \in Attempt /\ status[job[x]] \in LiveStatus
          /\ <<"running", turnStatus[turnOf[job[x]]], rolling[turnOf[job[x]]]>> \in Matching(job[x])
      BY <1>0, <1>4, <2>1, StatusOfTurn DEF MarkRunning, LiveStatus, Matching
    <3>2. /\ status' = [status EXCEPT ![job[x]] = "running"]
          /\ UNCHANGED <<turnStatus, turnInputs, current, rolling, turnOf, inputs>>
      BY <1>4, <2>1 DEF MarkRunning
    <3>3. QED
      BY <1>0, <1>4, <1>q, <3>1, <3>2, MovesInPlace DEF MarkRunning, LiveStatus
  <2>2. CASE status[job[x]] # "prepared"
    BY <1>4, <2>2, <1>q, RestsForm DEF MarkRunning
  <2>3. QED
    BY <2>1, <2>2
<1>5. CASE AssembleContext(x)
  BY <1>5, <1>q, RestsForm, RecordFailureForm DEF AssembleContext
<1>6. CASE DeferForCatchUp(x)
  BY <1>6, <1>q, DecideForm DEF DeferForCatchUp, WriteBack
<1>7. CASE AdjudicationFails(x)
  BY <1>7, <1>q, RecordFailureForm DEF AdjudicationFails
<1>8. CASE ArchivedAtBoundary(x)
  BY <1>8, <1>q, DeferArchivedForm DEF ArchivedAtBoundary
<1>9. CASE RequestRolls(x)
  <2> DEFINE a == job[x]
             t == turnOf[a]
  <2>0. Quiet /\ phase[x] # "idle" /\ a \in Attempt
    BY <1>0, <1>9, <1>q DEF RequestRolls
  <2>1. CASE RecordFailure(x, FALSE)
    BY <2>0, <2>1, RecordFailureForm
  <2>2. CASE ~RecordFailure(x, FALSE)
    <3>1. /\ status[a] \in LiveStatus
          /\ turnStatus' = [turnStatus EXCEPT ![t] = "awaiting_roll"]
          /\ status' = [status EXCEPT ![a] = "awaiting_roll"]
          /\ rolling' = [rolling EXCEPT ![t] = a]
          /\ UNCHANGED <<turnInputs, current, turnOf, inputs>>
      BY <1>9, <2>2 DEF RequestRolls, LiveStatus
    <3>2. Moves(a, "awaiting_roll", "awaiting_roll", a)
      BY <2>0, <3>1 DEF Moves, Matching
    <3>3. QED
      BY <2>0, <3>2 DEF Form, LiveStatus, ActiveStatus
  <2>3. QED
    BY <2>1, <2>2
<1>10. CASE StartStreaming(x)
  <2> DEFINE a == job[x]
  <2>0. Quiet /\ phase[x] # "idle" /\ a \in Attempt
    BY <1>0, <1>10, <1>q DEF StartStreaming
  <2>1. CASE RecordFailure(x, FALSE)
    BY <2>0, <2>1, RecordFailureForm
  <2>2. CASE ~RecordFailure(x, FALSE)
    <3>1. /\ MayStream(a)
          /\ status' = [status EXCEPT ![a] = "streaming"]
          /\ turnStatus' = [turnStatus EXCEPT ![turnOf[a]] = "streaming"]
          /\ UNCHANGED <<turnInputs, current, rolling, turnOf, inputs>>
      BY <1>10, <2>2 DEF StartStreaming
    <3>2. status[a] \in LiveStatus /\ rolling[turnOf[a]] = None
      BY <3>1 DEF MayStream, LiveStatus
    <3>3. QED
      BY <1>0, <2>0, <3>1, <3>2, MovesTogether
  <2>3. QED
    BY <2>1, <2>2
<1>11. CASE CompleteStream(x)
  BY <1>11, <1>q, RestsForm DEF CompleteStream
<1>12. CASE StreamFails(x)
  BY <1>12, <1>q, RestsForm DEF StreamFails
<1>13. CASE Remediate(x)
  BY <1>13, <1>q, DecideForm, GiveUpForm DEF Remediate, WriteBack
<1>14. CASE CommitTurn(x, TRUE) \/ CommitTurn(x, FALSE)
  BY <1>14, CommitTurnForm
<1>15. CASE FinishWrite(x)
  <2>1. Stands(x) /\ phase[x] \in WriteBack /\ phase[x] # "idle"
    BY <1>15 DEF FinishWrite, WriteBack
  <2>2. /\ phase[x] \in {"requeue", "postpone"} => status[job[x]] \in {"prepared", "running"}
        /\ phase[x] = "fail" => status[job[x]] \in {"prepared", "running", "streaming"}
        /\ phase[x] = "refresh" => NeedsRefresh(job[x])
    BY <2>1 DEF Stands
  <2>3. Quiet /\ Write(x, phase[x])
    BY <1>15, <1>q DEF FinishWrite
  <2>4. QED
    BY <2>1, <2>2, <2>3, WriteForm
<1>16. CASE Crash(x)
  BY <1>16, <1>q, RestsForm DEF Crash
<1>17. CASE Abort(x)
  <2>0. Quiet /\ phase[x] # "idle"
    BY <1>17, <1>q DEF Abort
  <2>1. CASE status[job[x]] = "streaming"
    <3>1. Write(x, "fail")
      BY <1>17, <2>1 DEF Abort, Write
    <3>2. QED
      BY <2>0, <2>1, <3>1, WriteForm DEF WriteBack
  <2>2. CASE status[job[x]] # "streaming"
    BY <1>17, <2>0, <2>2, RecordFailureForm DEF Abort
  <2>3. QED
    BY <2>1, <2>2
<1>18. QED
  BY <1>1, <1>2, <1>3, <1>4, <1>5, <1>6, <1>7, <1>8, <1>9, <1>10, <1>11, <1>12,
     <1>13, <1>14, <1>15, <1>16, <1>17 DEF Execute

LEMMA CoordinateForm ==
  ASSUME Typed, RowsSound, NEW S \in SUBSET Submission, S # {}, S \subseteq Unresolved',
         Quiet, CoordinateTurn(S)
  PROVE  Form
<1> USE DEF turnRows, attemptRows
<1>1. CASE OpenTurn(S)
  <2>1. PICK t \in Turn, a \in Attempt :
          /\ FreshTurn(t)
          /\ CreateAttempt(a, t, S)
          /\ status' = [status EXCEPT ![a] = "prepared"]
          /\ turnStatus' = [turnStatus EXCEPT ![t] = "pending"]
          /\ turnInputs' = [turnInputs EXCEPT ![t] = S]
    BY <1>1 DEF OpenTurn
  <2>2. Opens(t, a, S)
    BY <1>1, <2>1 DEF OpenTurn, Opens, CreateAttempt, FreshTurn, FreshAttempt
  <2>3. QED
    BY <2>2 DEF Form
<1>2. ASSUME NEW t \in ActiveTurns, Widens(t), Succeed(t, "superseded", S),
             turnInputs' = [turnInputs EXCEPT ![t] = S], UNCHANGED <<rolling, autoRetried, stream>>
      PROVE  Form
  <2>1. t \in Turn /\ turnStatus[t] = "pending"
    BY <1>2 DEF ActiveTurns, Widens
  <2>2. rolling[t] = None
    BY <1>2, <2>1 DEF RowsSound, RowsMatch
  <2>3. rolling' = [rolling EXCEPT ![t] = None]
    BY <1>2, <2>1, <2>2, RowTypes
  <2>4. QED
    BY <1>2, <2>1, <2>3, GoesOn DEF Succeed, ActiveStatus
<1>3. ASSUME NEW t \in ActiveTurns, CanRetry(t), FreshAttemptFromOld(t, S)
      PROVE  Form
  <2>1. t \in Turn /\ turnStatus[t] = "failed_visible" /\ Succeed(t, "abandoned", S)
    BY <1>3 DEF ActiveTurns, CanRetry, FreshAttemptFromOld
  <2>2. rolling[t] = None /\ turnInputs[t] = inputs[current[t]]
    BY <2>1, <1>3 DEF RowsSound, RowsMatch, Owed
  <2>3. rolling' = [rolling EXCEPT ![t] = None] /\ turnInputs' = [turnInputs EXCEPT ![t] = S]
    BY <1>3, <2>1, <2>2, RowTypes DEF FreshAttemptFromOld
  <2>4. QED
    BY <2>1, <2>3, GoesOn DEF Succeed, ActiveStatus
<1>4. CASE UNCHANGED <<turnRows, attemptRows>>
  BY <1>4, RestsForm
<1>5. QED
  BY <1>1, <1>2, <1>3, <1>4 DEF CoordinateTurn

\* The steps that only players, owners and sweeps take.
Around ==
  \/ \E s \in Submission : Submit(s)
  \/ CoordinateStranded
  \/ \E t \in Turn : \/ FulfillRolls(t) \/ RetryFailedAdjudication(t)
                     \/ AutoRetry(t) \/ RecoverPartialStream(t)
  \/ \E a \in Attempt : RecoverStuck(a) \/ ReclaimStrandedStreaming(a)
  \/ OtherMutation \/ Archive \/ Restore

LEMMA AroundForm ==
  ASSUME Typed, RowsSound, Around
  PROVE  Form
<1> USE DEF campaign, turnRows, attemptRows
<1>q. UNCHANGED <<campaign, submission, committed>> => Quiet
  BY DEF Quiet, Accepts
<1>1. ASSUME NEW s \in Submission, Submit(s) PROVE Form
  <2>1. Unresolved' = Unresolved \cup {s} /\ Quiet
    BY <1>1, RowTypes DEF Submit, Unresolved, Quiet, Accepts
  <2>2. Unresolved \cup {s} \in SUBSET Submission
    BY DEF Unresolved
  <2>3. QED
    BY <1>1, <2>1, <2>2, CoordinateForm DEF Submit
<1>2. CASE CoordinateStranded
  <2>1. Unresolved' = Unresolved /\ Quiet /\ Unresolved # {}
    BY <1>2, <1>q DEF CoordinateStranded, Unresolved, Stranded
  <2>2. Unresolved \in SUBSET Submission
    BY DEF Unresolved
  <2>3. QED
    BY <1>2, <2>1, <2>2, CoordinateForm DEF CoordinateStranded
<1>3. ASSUME NEW t \in Turn, FulfillRolls(t) PROVE Form
  <2>0. t \in ActiveTurns
    BY <1>3, RowTypes DEF FulfillRolls, RowsSound, NoIdleRolls, ActiveTurns
  <2>1. turnStatus[t] = "awaiting_roll" /\ rolling[t] = current[t]
    BY <1>3, <2>0 DEF FulfillRolls, RowsSound, RowsMatch
  <2>2. PICK a \in Attempt :
          /\ CreateAttempt(a, t, turnInputs[t])
          /\ status' = [status EXCEPT ![current[t]] = "superseded", ![a] = "prepared"]
    BY <1>3, <2>1 DEF FulfillRolls
  <2>3. /\ turnInputs[t] # {} /\ turnInputs[t] \subseteq Unresolved'
        /\ turnInputs[t] \in SUBSET Submission
    BY <1>3, <2>0, RowTypes DEF RowsSound, Owed, FulfillRolls, Unresolved
  <2>4. turnInputs' = [turnInputs EXCEPT ![t] = turnInputs[t]]
    BY <1>3, RowTypes DEF FulfillRolls
  <2>5. QED
    BY <1>3, <1>q, <2>1, <2>2, <2>3, <2>4, GoesOn DEF FulfillRolls, ActiveStatus
<1>4. ASSUME NEW t \in Turn, RetryFailedAdjudication(t) \/ AutoRetry(t) PROVE Form
  <2>1. /\ CanRetry(t) /\ FreshAttemptFromOld(t, inputs[current[t]])
        /\ UNCHANGED <<campaign, submission, committed>>
    BY <1>4 DEF RetryFailedAdjudication, AutoRetry, Retry
  <2>2. t \in ActiveTurns /\ turnStatus[t] = "failed_visible"
    BY <2>1 DEF CanRetry, ActiveTurns, ActiveStatus
  <2>3. /\ rolling[t] = None /\ turnInputs[t] = inputs[current[t]]
        /\ turnInputs[t] # {} /\ turnInputs[t] \subseteq Unresolved'
        /\ turnInputs[t] \in SUBSET Submission
    BY <2>1, <2>2, RowTypes DEF RowsSound, RowsMatch, Owed, Unresolved
  <2>4. /\ rolling' = [rolling EXCEPT ![t] = None]
        /\ turnInputs' = [turnInputs EXCEPT ![t] = turnInputs[t]]
        /\ Succeed(t, "abandoned", turnInputs[t])
    BY <2>1, <2>3, RowTypes DEF FreshAttemptFromOld
  <2>5. QED
    BY <1>q, <2>1, <2>2, <2>3, <2>4, GoesOn DEF Succeed, ActiveStatus
<1>5. ASSUME NEW t \in Turn, RecoverPartialStream(t) PROVE Form
  <2>1. current[t] \in Attempt /\ status[current[t]] \in LiveStatus /\ t \in ActiveTurns
    BY <1>5, RowTypes DEF RecoverPartialStream, CanRetry, LiveStatus, ActiveTurns, ActiveStatus
  <2>2. turnOf[current[t]] = t
    BY <2>1 DEF RowsSound, Alive
  <2>3. Promotes(current[t])
    BY <1>5, <2>1, <2>2 DEF Promotes, RecoverPartialStream
  <2>4. QED
    BY <2>1, <2>3 DEF Form
<1>6. ASSUME NEW a \in Attempt, RecoverStuck(a) PROVE Form
  <2>1. /\ status[a] \in LiveStatus
        /\ <<"prepared", turnStatus[turnOf[a]], rolling[turnOf[a]]>> \in Matching(a)
    BY <1>6, StatusOfTurn DEF RecoverStuck, LiveStatus, Matching
  <2>2. QED
    BY <1>6, <1>q, <2>1, MovesInPlace DEF RecoverStuck, LiveStatus
<1>7. ASSUME NEW a \in Attempt, ReclaimStrandedStreaming(a) PROVE Form
  <2>1. status[a] \in LiveStatus /\ rolling[turnOf[a]] = None
    BY <1>7, StatusOfTurn DEF ReclaimStrandedStreaming, Reclaimable, LiveStatus
  <2>2. QED
    BY <1>7, <1>q, <2>1, MovesTogether DEF ReclaimStrandedStreaming
<1>8. CASE OtherMutation \/ Archive \/ Restore
  <2>1. Quiet
    BY <1>8 DEF OtherMutation, Archive, Restore, Quiet, Accepts
  <2>2. QED
    BY <1>8, <2>1, RestsForm DEF OtherMutation, Archive, Restore
<1>9. QED
  BY <1>1, <1>2, <1>3, <1>4, <1>5, <1>6, <1>7, <1>8 DEF Around

LEMMA NextForm == Typed /\ Sound /\ ~late' /\ Next => Form
  BY ExecuteForm, AroundForm DEF Next, Around, Sound

-----------------------------------------------------------------------------
\* No form makes an attempt disappear.
LEMMA AttemptsStay ==
  ASSUME Typed, RowsSound, Form, NEW b \in Attempt, status[b] # "none"
  PROVE  status'[b] # "none"
  BY RowTypes DEF Form, Rests, Opens, Succeeds, Moves, Matching, Promotes, Promote, Discards

\* An executor steps to idle, or to a phase of its own with an attempt that exists.
Steps(x) ==
  /\ \A y \in Executor \ {x} : phase'[y] = phase[y] /\ job'[y] = job[y]
  /\ \/ phase'[x] = "idle"
     \/ phase[x] # "idle" /\ job'[x] = job[x]
     \/ job'[x] \in Attempt /\ status'[job'[x]] = "prepared"

LEMMA IdleSteps ==
  ASSUME Typed, NEW x \in Executor, GoIdle(x)
  PROVE  Steps(x)
  BY DEF Typed, TypeOK, GoIdle, Steps

LEMMA GoToSteps ==
  ASSUME Typed, NEW x \in Executor, phase[x] # "idle", NEW next, GoTo(x, next)
  PROVE  Steps(x)
  BY DEF Typed, TypeOK, GoTo, Steps

LEMMA WriteSteps ==
  ASSUME Typed, NEW x \in Executor, NEW what, Write(x, what)
  PROVE  Steps(x)
<1>1. CASE GoIdle(x)
  BY <1>1, IdleSteps
<1>2. CASE Refresh(x)
  BY <1>2 DEF Refresh, Typed, TypeOK, Steps
<1>3. QED
  BY <1>1, <1>2 DEF Write, Requeue, FailVisibly

LEMMA DecideSteps ==
  ASSUME Typed, NEW x \in Executor, phase[x] # "idle", NEW what, Decide(x, what)
  PROVE  Steps(x)
  BY WriteSteps, GoToSteps DEF Decide

LEMMA RecordFailureSteps ==
  ASSUME Typed, NEW x \in Executor, phase[x] # "idle", NEW retriable, RecordFailure(x, retriable)
  PROVE  Steps(x)
  BY DecideSteps, IdleSteps DEF RecordFailure, GiveUp

LEMMA DeferArchivedSteps ==
  ASSUME Typed, NEW x \in Executor, phase[x] # "idle", DeferArchived(x)
  PROVE  Steps(x)
  BY DecideSteps, IdleSteps DEF DeferArchived, GiveUp

LEMMA ExecuteSteps ==
  ASSUME Typed, NEW x \in Executor, Execute(x)
  PROVE  Steps(x)
<1>1. ASSUME NEW a \in Attempt, Begin(x, a) PROVE Steps(x)
  BY <1>1 DEF Begin, ExecutionOwnership, Typed, TypeOK, Steps, attemptRows
<1>2. CASE DeferBackpressured(x) \/ Crash(x)
  BY <1>2, IdleSteps DEF DeferBackpressured, Crash
<1>3. CASE RefreshStale(x) \/ DeferForCatchUp(x)
  BY <1>3, DecideSteps DEF RefreshStale, DeferForCatchUp
<1>4. CASE MarkRunning(x)
  BY <1>4, IdleSteps, GoToSteps DEF MarkRunning
<1>5. CASE AssembleContext(x)
  BY <1>5, RecordFailureSteps, GoToSteps DEF AssembleContext
<1>6. CASE AdjudicationFails(x)
  BY <1>6, RecordFailureSteps DEF AdjudicationFails
<1>7. CASE ArchivedAtBoundary(x)
  BY <1>7, DeferArchivedSteps DEF ArchivedAtBoundary
<1>8. CASE RequestRolls(x)
  BY <1>8, RecordFailureSteps, IdleSteps DEF RequestRolls
<1>9. CASE StartStreaming(x) \/ CompleteStream(x) \/ StreamFails(x)
  BY <1>9, RecordFailureSteps, GoToSteps DEF StartStreaming, CompleteStream, StreamFails
<1>10. CASE Remediate(x)
  BY <1>10, DecideSteps, IdleSteps DEF Remediate, GiveUp
<1>11. ASSUME NEW silent \in BOOLEAN, CommitTurn(x, silent) PROVE Steps(x)
  <2>1. phase[x] # "idle"
    BY <1>11 DEF CommitTurn
  <2>2. \/ \E retriable \in BOOLEAN : RecordFailure(x, retriable)
        \/ DeferArchived(x) \/ GoIdle(x) \/ Decide(x, "fail") \/ GoTo(x, "aborted")
    BY <1>11 DEF CommitTurn, DiscardResult, FailCommit, FailVisibly
  <2>3. QED
    BY <2>1, <2>2, RecordFailureSteps, DeferArchivedSteps, DecideSteps, IdleSteps, GoToSteps
<1>12. CASE FinishWrite(x)
  BY <1>12, WriteSteps DEF FinishWrite
<1>13. CASE Abort(x)
  BY <1>13, RecordFailureSteps, IdleSteps DEF Abort, FailVisibly
<1>14. QED
  BY <1>1, <1>2, <1>3, <1>4, <1>5, <1>6, <1>7, <1>8, <1>9, <1>10, <1>11, <1>12, <1>13 DEF Execute

LEMMA WorkingStep ==
  ASSUME Typed, Sound, Next, Form
  PROVE  Working'
<1>1. CASE UNCHANGED <<phase, job>>
  BY <1>1, AttemptsStay DEF Typed, AtWork, Sound, Working
<1>2. ASSUME NEW x \in Executor, Steps(x) PROVE Working'
  <2>1. ASSUME NEW y \in Executor, phase'[y] # "idle"
        PROVE  status'[job'[y]] # "none"
    BY <1>2, <2>1, AttemptsStay DEF Steps, Typed, AtWork, Sound, Working
  <2>2. QED
    BY <2>1 DEF Working
<1>3. CASE Around
  BY <1>1, <1>3
  DEF Around, Submit, CoordinateStranded, FulfillRolls, RetryFailedAdjudication, AutoRetry, Retry,
      RecoverPartialStream, RecoverStuck, ReclaimStrandedStreaming, OtherMutation, Archive, Restore,
      executors
<1>4. QED
  BY <1>2, <1>3, ExecuteSteps DEF Next, Around

LEMMA InitSound == Init => Typed /\ Sound
<1> SUFFICES ASSUME Init PROVE Typed /\ Sound
  OBVIOUS
<1>1. Typed
  BY InitTyped
<1>2. /\ \A t \in Turn : turnStatus[t] = "none" /\ rolling[t] = None
      /\ \A a \in Attempt : status[a] = "none" /\ turnOf[a] = None
      /\ \A s \in Submission : submission[s] = "unsent"
      /\ \A x \in Executor : phase[x] = "idle"
      /\ committed = {} /\ ActiveTurns = {}
  BY DEF Init, ActiveTurns, ActiveStatus
<1>3. QED
  BY <1>1, <1>2
  DEF Sound, RowsSound, Working, Placed, Alive, Owed, NoIdleRolls, CommittedSucceeded,
      CurrentAlone, RowsMatch, ResolvedOnce, LiveStatus, ActiveStatus

LEMMA SoundStep ==
  ASSUME Typed, Sound, ~late', [Next]_vars
  PROVE  Sound'
<1>1. CASE Next
  <2>1. Form
    BY <1>1, NextForm
  <2>2. QED
    BY <1>1, <2>1, FormSound, WorkingStep DEF Sound
<1>2. CASE UNCHANGED vars
  <2>1. Rests
    BY <1>2 DEF vars, campaign, turnRows, attemptRows, Rests, Quiet, Accepts
  <2>2. RowsSound'
    BY <2>1, FormSound DEF Form, Sound
  <2>3. Working'
    BY <1>2 DEF vars, executors, attemptRows, Sound, Working
  <2>4. QED
    BY <2>2, <2>3 DEF Sound
<1>3. QED
  BY <1>1, <1>2

-----------------------------------------------------------------------------
(* The theorems.                                                           *)

\* Nobody takes back that a write came late.
LEMMA LateStays ==
  ASSUME Typed, [Next]_vars, late
  PROVE  late'
<1>1. CASE UNCHANGED late
  BY <1>1
<1>2. ASSUME NEW x \in Executor, Execute(x) PROVE late'
  BY <1>1, <1>2
  DEF Execute, Begin, DeferBackpressured, RefreshStale, MarkRunning, AssembleContext, DeferForCatchUp,
      AdjudicationFails, ArchivedAtBoundary, RequestRolls, StartStreaming, CompleteStream, StreamFails,
      Remediate, CommitTurn, Abort, FinishWrite, Crash, Upset
<1>3. CASE Around
  BY <1>1, <1>3
  DEF Around, Submit, CoordinateStranded, FulfillRolls, RetryFailedAdjudication, AutoRetry, Retry,
      RecoverPartialStream, RecoverStuck, ReclaimStrandedStreaming, OtherMutation, Archive, Restore, Upset
<1>4. QED
  BY <1>1, <1>2, <1>3 DEF Next, Around, vars

\* The strengthening of the invariants below is invariant: input, turns and
\* attempts fit together whatever players, owners, sweeps and executors do,
\* until a write comes to rows that have moved on from the read behind it.
THEOREM SoundAlways == Spec => [](Typed /\ (late \/ Sound))
<1>1. Init => Typed /\ (late \/ Sound)
  BY InitSound
<1>2. Typed /\ (late \/ Sound) /\ [Next]_vars => (Typed /\ (late \/ Sound))'
  BY TypedStep, SoundStep, LateStays
<1>3. QED
  BY <1>1, <1>2, PTL DEF Spec

\* At most one attempt of the thread is alive, the current one of its one
\* active turn: coordination, retries, rolls, refreshes, and writes of which the
\* read still holds, leave no second one that an executor could claim.
THEOREM OneLiveAttempt == Spec => []LiveAttemptIsCurrent
<1>1. Typed /\ (late \/ Sound) => LiveAttemptIsCurrent
  BY DEF Sound, RowsSound, LiveAttemptIsCurrent
<1>2. QED
  BY <1>1, SoundAlways, PTL

\* The two rows of an active turn do not disagree, so every one has a way on,
\* until a write comes late.
THEOREM TurnsMatch == Spec => []TurnMatchesAttempt
<1>1. Typed /\ (late \/ Sound) => TurnMatchesAttempt
  BY DEF Sound, RowsSound, TurnMatchesAttempt
<1>2. QED
  BY <1>1, SoundAlways, PTL

\* With any deferrals and windows: every submission is resolved by exactly one
\* committed attempt, and no two commits share input, until a write comes late.
THEOREM ExactlyOnce == Spec => [](late \/ ResolvedOnce)
<1>1. Typed /\ (late \/ Sound) => (late \/ ResolvedOnce)
  BY DEF Sound, RowsSound
<1>2. QED
  BY <1>1, SoundAlways, PTL

-----------------------------------------------------------------------------
(* The thread implements its ledger.                                       *)

Batches == {inputs[a] : a \in committed}

\* The input of a committed attempt is history.
LEMMA QuietBatches ==
  ASSUME Typed, RowsSound, Form, Quiet
  PROVE  Batches' = Batches
<1>1. \A a \in committed : status[a] = "succeeded"
  BY RowTypes DEF RowsSound, CommittedSucceeded
<1>2. committed' = committed
  BY DEF Quiet
<1>3. \A a \in committed : inputs'[a] = inputs[a]
  <2>1. ASSUME NEW a \in Attempt, Promotes(a) PROVE FALSE
    BY <2>1 DEF Promotes, Promote, Quiet, RowsSound, CommittedSucceeded, LiveStatus
  <2>2. QED
    BY <1>1, <2>1, RowTypes DEF Form, Rests, Opens, Succeeds, Moves, Discards
<1>4. QED
  BY <1>2, <1>3 DEF Batches

LEMMA QuietKeepsLedger ==
  ASSUME Typed, ResolvedOnce, Quiet, Batches' = Batches
  PROVE  [Ledger!LedgerNext]_(Ledger!ledger)
<1>1. {inputs'[a] : a \in committed'} = {inputs[a] : a \in committed}
  BY DEF Batches
<1>2. CASE UNCHANGED submission
  <2>1. Unresolved' = Unresolved
    BY <1>2 DEF Unresolved
  <2>2. QED
    BY <1>1, <2>1 DEF Ledger!LedgerNext, Ledger!Move, Ledger!ledger, Quiet
<1>3. ASSUME NEW s \in Submission, submission[s] = "unsent", revision' = revision,
             submission' = [submission EXCEPT ![s] = "accepted"]
      PROVE  Ledger!LedgerNext
  <2>1. Unresolved' = Unresolved \cup {s} /\ s \notin Unresolved
    BY <1>3, RowTypes DEF Unresolved
  <2>2. s \notin UNION {inputs[a] : a \in committed}
    BY <1>3, RowTypes DEF ResolvedOnce
  <2>3. Ledger!Accept(s)
    BY <1>1, <1>3, <2>1, <2>2 DEF Ledger!Accept
  <2>4. QED
    BY <2>3 DEF Ledger!LedgerNext
<1>4. QED
  BY <1>2, <1>3 DEF Quiet, Accepts

LEMMA PromoteLedger ==
  ASSUME Typed, NEW a \in Attempt, inputs[a] # {}, inputs[a] \subseteq Unresolved, Promote(a)
  PROVE  Ledger!LedgerNext
<1>3. /\ inputs' = inputs /\ committed' = committed \cup {a} /\ revision' = revision + 1
      /\ submission' = [s \in Submission |-> IF s \in inputs[a] THEN "resolved" ELSE submission[s]]
  BY DEF Promote, ResolveSubmissions
<1>4. Unresolved' = Unresolved \ inputs[a]
  BY <1>3 DEF Unresolved
<1>5. {inputs'[b] : b \in committed'} = {inputs[b] : b \in committed} \cup {inputs[a]}
  BY <1>3
<1>6. PICK batch \in SUBSET Submission : batch = inputs[a]
  BY RowTypes
<1>7. Ledger!Play(batch)
  BY <1>3, <1>4, <1>5, <1>6 DEF Ledger!Play
<1>8. QED
  BY <1>7 DEF Ledger!LedgerNext

LEMMA QuietLedger ==
  ASSUME Typed, RowsSound, Form, Quiet
  PROVE  [Ledger!LedgerNext]_(Ledger!ledger)
  BY QuietBatches, QuietKeepsLedger DEF RowsSound

LEMMA PromotesLedger ==
  ASSUME Typed, RowsSound, NEW a \in Attempt, Promotes(a)
  PROVE  Ledger!LedgerNext
<1>1. turnOf[a] \in ActiveTurns /\ current[turnOf[a]] = a
  BY LiveFacts DEF Promotes
<1>2. inputs[a] # {} /\ inputs[a] \subseteq Unresolved
  BY <1>1, RowTypes DEF RowsSound, Owed
<1>3. QED
  BY <1>2, PromoteLedger DEF Promotes

LEMMA LedgerStep ==
  ASSUME Typed, Sound, ~late', [Next]_vars
  PROVE  [Ledger!LedgerNext]_(Ledger!ledger)
<1>1. CASE UNCHANGED vars
  BY <1>1 DEF vars, campaign, attemptRows, Ledger!ledger, Unresolved
<1>2. CASE Next
  <2>1. Form /\ RowsSound
    BY <1>2, NextForm DEF Sound
  <2>2. CASE Quiet
    BY <2>1, <2>2, QuietLedger
  <2>3. ASSUME NEW a \in Attempt, Promotes(a) PROVE Ledger!LedgerNext
    BY <2>1, <2>3, PromotesLedger
  <2>4. QED
    BY <2>1, <2>2, <2>3 DEF Form, Rests, Opens, Succeeds, Moves, Discards
<1>3. QED
  BY <1>1, <1>2

\* Seen from the players, coordination, execution, retries and recovery are a
\* ledger, with any deferrals and windows and until a write comes late: input is
\* accepted once, waits, and is committed in batches, each exactly once and each
\* one revision of the campaign.
THEOREM ImplementsLedger ==
  Spec => Ledger!LedgerInit /\ [][late' \/ Ledger!LedgerNext]_(Ledger!ledger)
<1>1. Init => Ledger!LedgerInit
  BY DEF Init, Ledger!LedgerInit, Unresolved
<1>2. /\ Typed /\ (late \/ Sound) /\ [Next]_vars
      => [late' \/ Ledger!LedgerNext]_(Ledger!ledger)
  BY LedgerStep, LateStays
<1>3. QED
  BY <1>1, <1>2, SoundAlways, PTL DEF Spec

-----------------------------------------------------------------------------
(* Dormancy, whatever falls between a read and its write.                  *)

\* Archive moves the revision past every narrated attempt, and those that are
\* created while the table sleeps are not narrated before it wakes.
Slumber ==
  /\ \A a \in Attempt : basedOn[a] <= revision /\ (status[a] = "none" => stream[a] = "none")
  /\ archived => \A a \in Attempt : /\ status[a] # "streaming"
                                    /\ basedOn[a] = revision => stream[a] = "none"

\* What every step but the start of a narration leaves of the rows.
Hushed ==
  /\ \A a \in Attempt :
       /\ stream'[a] # "none" => stream[a] # "none"
       /\ status'[a] = "streaming" => status[a] = "streaming"
       /\ status'[a] = "none" => status[a] = "none"
       /\ basedOn'[a] = basedOn[a] \/ (status[a] = "none" /\ basedOn'[a] = revision)
  /\ \A t \in Turn : turnStatus'[t] = "streaming" => turnStatus[t] = "streaming"

LEMMA CreateBased ==
  ASSUME Typed, NEW b \in Attempt, NEW t, NEW S, CreateAttempt(b, t, S)
  PROVE  /\ status[b] = "none"
         /\ \A a \in Attempt : basedOn'[a] = IF a = b THEN revision ELSE basedOn[a]
  BY DEF CreateAttempt, FreshAttempt, Typed, TypeOK

LEMMA SucceedHushed ==
  ASSUME Typed, NEW t \in Turn, NEW how \in {"superseded", "abandoned"}, NEW S, Succeed(t, how, S),
         \A a \in Attempt : stream'[a] # "none" => stream[a] # "none"
  PROVE  Hushed
  BY CreateBased, RowTypes DEF Succeed, Hushed

LEMMA RetryHushed ==
  ASSUME Typed, NEW t \in Turn, NEW S, FreshAttemptFromOld(t, S)
  PROVE  Hushed
<1>1. \A a \in Attempt : stream'[a] # "none" => stream[a] # "none"
  BY DEF FreshAttemptFromOld, Typed, TypeOK
<1>2. QED
  BY <1>1, SucceedHushed DEF FreshAttemptFromOld

LEMMA CoordinateHushed ==
  ASSUME Typed, NEW S, CoordinateTurn(S)
  PROVE  Hushed
<1>1. CASE OpenTurn(S)
  BY <1>1, CreateBased, RowTypes DEF OpenTurn, Hushed
<1>2. ASSUME NEW t \in ActiveTurns, Succeed(t, "superseded", S), UNCHANGED stream
      PROVE  Hushed
  BY <1>2, SucceedHushed DEF ActiveTurns
<1>3. ASSUME NEW t \in ActiveTurns, FreshAttemptFromOld(t, S) PROVE Hushed
  BY <1>3, RetryHushed DEF ActiveTurns
<1>4. CASE UNCHANGED <<turnRows, attemptRows>>
  BY <1>4 DEF turnRows, attemptRows, Hushed
<1>5. QED
  BY <1>1, <1>2, <1>3, <1>4 DEF CoordinateTurn

LEMMA WriteHushed ==
  ASSUME Typed, NEW x \in Executor, NEW what, Write(x, what)
  PROVE  Hushed
<1>1. ASSUME NEW how, Requeue(x, how) PROVE Hushed
  BY <1>1, RowTypes DEF Requeue, Hushed, turnRows
<1>2. CASE FailVisibly(x)
  BY <1>2, RowTypes DEF FailVisibly, Hushed
<1>3. CASE Refresh(x)
  BY <1>3, CreateBased, RowTypes DEF Refresh, Hushed
<1>4. QED
  BY <1>1, <1>2, <1>3 DEF Write

LEMMA DecideHushed ==
  ASSUME Typed, NEW x \in Executor, NEW what, Decide(x, what)
  PROVE  Hushed
<1>1. CASE UNCHANGED <<turnRows, attemptRows>>
  BY <1>1 DEF turnRows, attemptRows, Hushed
<1>2. QED
  BY <1>1, WriteHushed DEF Decide

LEMMA GiveUpHushed ==
  ASSUME NEW x, GiveUp(x)
  PROVE  Hushed
  BY DEF GiveUp, turnRows, attemptRows, Hushed

LEMMA RecordFailureHushed ==
  ASSUME Typed, NEW x \in Executor, NEW retriable, RecordFailure(x, retriable)
  PROVE  Hushed
  BY DecideHushed, GiveUpHushed DEF RecordFailure

LEMMA DeferArchivedHushed ==
  ASSUME Typed, NEW x \in Executor, DeferArchived(x)
  PROVE  Hushed
  BY DecideHushed, GiveUpHushed DEF DeferArchived

LEMMA PromoteHushed ==
  ASSUME Typed, NEW a \in Attempt, Promote(a)
  PROVE  Hushed
<1>1. \A b \in Attempt : stream'[b] # "none" => stream[b] # "none"
  BY DEF Promote, Typed, TypeOK
<1>2. QED
  BY <1>1, RowTypes DEF Promote, Hushed

\* The steps that sleep through: the campaign row and the submissions stand.
Still == /\ Hushed
         /\ UNCHANGED <<archived, revision, committed>>
         /\ submission' = submission \/ ~archived

\* The commits of a thread, on a table that is awake.
Commits == Hushed /\ ~archived /\ archived' = archived /\ revision' = revision + 1

Begins == /\ ~archived /\ archived' = archived /\ revision' = revision
          /\ \E a \in Attempt : /\ status[a] \in {"prepared", "running"}
                                /\ status' = [status EXCEPT ![a] = "streaming"]
                                /\ stream' = [stream EXCEPT ![a] = "streaming"]
                                /\ UNCHANGED basedOn

\* The step of the whole campaign, or of the table's life cycle.
Turns == /\ UNCHANGED <<attemptRows, turnRows, submission, committed>> /\ revision' = revision + 1
         /\ archived' => archived \/ \A a \in Attempt : status[a] # "streaming"

LEMMA CommitTurnSlumbers ==
  ASSUME Typed, Slumber, NEW x \in Executor, NEW silent \in BOOLEAN, CommitTurn(x, silent)
  PROVE  Still \/ Commits
<1> DEFINE a == job[x]
<1>0. a \in Attempt
  BY DEF CommitTurn, Typed, AtWork
<1> USE DEF campaign, turnRows
<1>1. ASSUME NEW retriable \in BOOLEAN, RecordFailure(x, retriable),
             UNCHANGED <<campaign, submission, committed>>
      PROVE  Still
  BY <1>1, RecordFailureHushed DEF Still
<1>2. CASE DiscardResult(x, a)
  BY <1>2, RowTypes DEF DiscardResult, Still, Hushed
<1>3. CASE ReplayCommit(a, silent)
  BY <1>3, RowTypes DEF ReplayCommit, Still, Hushed
<1>4. CASE FailCommit(x) /\ UNCHANGED <<campaign, submission, committed>>
  <2>1. Hushed
    <3>1. Write(x, "fail") \/ Decide(x, "fail")
      BY <1>4 DEF FailCommit, Write
    <3>2. QED
      BY <3>1, WriteHushed, DecideHushed
  <2>2. QED
    BY <1>4, <2>1 DEF Still
<1>5. CASE CommitBoundary(a, silent) /\ ~Dormant(silent) /\ Promote(a)
  <2>1. ~archived
    BY <1>0, <1>5 DEF Dormant, CommitBoundary, Slumber
  <2>2. QED
    BY <1>0, <1>5, <2>1, PromoteHushed DEF Commits, Promote
<1>6. CASE DeferArchived(x) /\ UNCHANGED <<campaign, submission, committed>>
  BY <1>6, DeferArchivedHushed DEF Still
<1>7. CASE UNCHANGED <<campaign, submission, committed, turnRows, attemptRows>>
  BY <1>7 DEF attemptRows, Still, Hushed
<1>8. QED
  BY <1>1, <1>2, <1>3, <1>4, <1>5, <1>6, <1>7 DEF CommitTurn

LEMMA ExecuteSlumbers ==
  ASSUME Typed, Slumber, NEW x \in Executor, Execute(x)
  PROVE  Still \/ Commits \/ Begins
<1> USE DEF campaign, turnRows, attemptRows
<1>1. ASSUME NEW a \in Attempt, Begin(x, a) PROVE Still
  BY <1>1 DEF Begin, Still, Hushed
<1>2. CASE DeferBackpressured(x) \/ Crash(x)
  BY <1>2 DEF DeferBackpressured, Crash, Still, Hushed
<1>3. CASE RefreshStale(x) \/ DeferForCatchUp(x)
  BY <1>3, DecideHushed DEF RefreshStale, DeferForCatchUp, Still
<1>4. CASE MarkRunning(x)
  BY <1>4, RowTypes DEF MarkRunning, Still, Hushed
<1>5. CASE AssembleContext(x)
  <2>1. CASE RecordFailure(x, FALSE)
    BY <1>5, <2>1, RecordFailureHushed DEF AssembleContext, Still
  <2>2. CASE UNCHANGED <<turnRows, attemptRows>>
    BY <1>5, <2>2 DEF AssembleContext, Still, Hushed
  <2>3. QED
    BY <1>5, <2>1, <2>2 DEF AssembleContext
<1>6. CASE AdjudicationFails(x)
  BY <1>6, RecordFailureHushed DEF AdjudicationFails, Still
<1>7. CASE ArchivedAtBoundary(x)
  BY <1>7, DeferArchivedHushed DEF ArchivedAtBoundary, Still
<1>8. CASE RequestRolls(x)
  <2>1. CASE RecordFailure(x, FALSE)
    BY <1>8, <2>1, RecordFailureHushed DEF RequestRolls, Still
  <2>2. CASE ~RecordFailure(x, FALSE)
    BY <1>8, <2>2, RowTypes DEF RequestRolls, Still, Hushed
  <2>3. QED
    BY <2>1, <2>2
<1>9. CASE StartStreaming(x)
  <2>1. CASE RecordFailure(x, FALSE)
    BY <1>9, <2>1, RecordFailureHushed DEF StartStreaming, Still
  <2>2. CASE ~RecordFailure(x, FALSE)
    <3>1. job[x] \in Attempt
      BY <1>9 DEF StartStreaming, Typed, AtWork
    <3>2. Begins
      BY <1>9, <2>2, <3>1 DEF StartStreaming, MayStream, Begins
    <3>3. QED
      BY <3>2
  <2>3. QED
    BY <2>1, <2>2
<1>10. CASE CompleteStream(x)
  BY <1>10 DEF CompleteStream, Typed, TypeOK, Still, Hushed
<1>11. CASE StreamFails(x)
  BY <1>11 DEF StreamFails, Typed, TypeOK, Still, Hushed
<1>12. CASE Remediate(x)
  BY <1>12, DecideHushed, GiveUpHushed DEF Remediate, Still
<1>13. CASE CommitTurn(x, TRUE) \/ CommitTurn(x, FALSE)
  BY <1>13, CommitTurnSlumbers
<1>14. CASE FinishWrite(x)
  BY <1>14, WriteHushed DEF FinishWrite, Still
<1>15. CASE Abort(x)
  <2>1. Hushed
    <3>1. Write(x, "fail") \/ \E retriable \in BOOLEAN : RecordFailure(x, retriable)
      BY <1>15 DEF Abort, Write
    <3>2. QED
      BY <3>1, WriteHushed, RecordFailureHushed
  <2>2. QED
    BY <1>15, <2>1 DEF Abort, Still
<1>16. QED
  BY <1>1, <1>2, <1>3, <1>4, <1>5, <1>6, <1>7, <1>8, <1>9, <1>10, <1>11, <1>12, <1>13, <1>14, <1>15
  DEF Execute

LEMMA AroundSlumbers ==
  ASSUME Typed, Slumber, Around
  PROVE  Still \/ Commits \/ Turns
<1> USE DEF campaign
<1>1. ASSUME NEW s \in Submission, Submit(s) PROVE Still
  BY <1>1, CoordinateHushed DEF Submit, Still
<1>2. CASE CoordinateStranded
  BY <1>2, CoordinateHushed DEF CoordinateStranded, Still
<1>3. ASSUME NEW t \in Turn, FulfillRolls(t) PROVE Still
  BY <1>3, CreateBased, RowTypes DEF FulfillRolls, Still, Hushed
<1>4. ASSUME NEW t \in Turn, RetryFailedAdjudication(t) \/ AutoRetry(t) PROVE Still
  BY <1>4, RetryHushed DEF RetryFailedAdjudication, AutoRetry, Retry, Still
<1>5. ASSUME NEW t \in Turn, RecoverPartialStream(t) PROVE Commits
  <2>1. current[t] \in Attempt /\ stream[current[t]] # "none" /\ basedOn[current[t]] = revision
    BY <1>5, RowTypes DEF RecoverPartialStream, CanRetry, RevisionStands
  <2>2. ~archived
    BY <2>1 DEF Slumber
  <2>3. QED
    BY <1>5, <2>1, <2>2, PromoteHushed DEF RecoverPartialStream, Commits, Promote
<1>6. ASSUME NEW a \in Attempt, RecoverStuck(a) PROVE Still
  BY <1>6, RowTypes DEF RecoverStuck, Still, Hushed, turnRows
<1>7. ASSUME NEW a \in Attempt, ReclaimStrandedStreaming(a) PROVE Still
  BY <1>7, RowTypes DEF ReclaimStrandedStreaming, Still, Hushed
<1>8. CASE OtherMutation \/ Archive \/ Restore
  BY <1>8 DEF OtherMutation, Archive, Archivable, Restore, Turns
<1>9. QED
  BY <1>1, <1>2, <1>3, <1>4, <1>5, <1>6, <1>7, <1>8 DEF Around

LEMMA NumbersTyped == Typed => revision \in Nat /\ basedOn \in [Attempt -> Nat]
  BY DEF Typed, TypeOK

LEMMA SlumberStep ==
  ASSUME Typed, Slumber, Still \/ Commits \/ Begins \/ Turns
  PROVE  Slumber'
<1>1. CASE Still
  BY <1>1, NumbersTyped DEF Still, Hushed, Slumber
<1>2. CASE Commits
  BY <1>2, NumbersTyped DEF Commits, Hushed, Slumber
<1>3. CASE Begins
  BY <1>3, RowTypes DEF Begins, Slumber, Typed, TypeOK
<1>4. CASE Turns
  BY <1>4, NumbersTyped DEF Turns, Slumber, attemptRows
<1>5. QED
  BY <1>1, <1>2, <1>3, <1>4

\* While the table is archived no turn is committed, no input is accepted or
\* resolved and nothing begins to be narrated, even where other steps fall
\* between the reads and the writes of an executor, and whatever else moves
\* the campaign meanwhile.
THEOREM DormantStands == Spec => DormantTableStands
<1> DEFINE Sleeps == archived /\ archived' =>
                       /\ committed' = committed /\ submission' = submission
                       /\ \A t \in Turn : turnStatus'[t] = "streaming" => turnStatus[t] = "streaming"
<1>1. Init => Typed /\ Slumber
  <2>1. Init => Slumber
    BY DEF Init, Slumber
  <2>2. QED
    BY <2>1, InitTyped
<1>2. ASSUME Typed, Slumber, Next PROVE Still \/ Commits \/ Begins \/ Turns
  BY <1>2, ExecuteSlumbers, AroundSlumbers DEF Next, Around
<1>3. Typed /\ Slumber /\ [Next]_vars => (Typed /\ Slumber)'
  <2>1. ASSUME Slumber, UNCHANGED vars PROVE Slumber'
    BY <2>1 DEF vars, campaign, attemptRows, Slumber
  <2>2. QED
    BY <1>2, <2>1, TypedStep, SlumberStep
<1>4. ASSUME Typed, Slumber, Next PROVE Sleeps
  <2>1. CASE Still
    BY <2>1 DEF Still, Hushed
  <2>2. CASE Commits \/ Begins
    BY <2>2 DEF Commits, Begins
  <2>3. CASE Turns
    BY <2>3 DEF Turns, turnRows
  <2>4. QED
    BY <1>2, <1>4, <2>1, <2>2, <2>3
<1>5. Spec => [][Sleeps]_vars
  BY <1>1, <1>3, <1>4, PTL DEF Spec
<1>6. QED
  BY <1>5 DEF DormantTableStands
-----------------------------------------------------------------------------
(* What is resolved was played, whatever falls between a read and its write.*)

\* A commit resolves what its attempt carries, and the attempt keeps its input.
Played ==
  /\ \A s \in Submission : submission[s] = "resolved" <=> \E a \in committed : s \in inputs[a]
  /\ \A a \in committed : status[a] # "none"

\* An attempt that exists keeps the input it was made with.
KeepsInputs ==
  \A a \in Attempt : status[a] # "none" => status'[a] # "none" /\ inputs'[a] = inputs[a]

LEMMA CreateKeepsInputs ==
  ASSUME Typed, NEW b \in Attempt, NEW t, NEW S, CreateAttempt(b, t, S),
         \A a \in Attempt : status[a] # "none" => status'[a] # "none"
  PROVE  KeepsInputs
  BY DEF CreateAttempt, FreshAttempt, Typed, TypeOK, KeepsInputs

LEMMA SucceedKeepsInputs ==
  ASSUME Typed, NEW t, NEW how \in {"superseded", "abandoned"}, NEW S, Succeed(t, how, S)
  PROVE  KeepsInputs
<1>1. \A a \in Attempt : status[a] # "none" => status'[a] # "none"
  BY RowTypes DEF Succeed
<1>2. QED
  BY <1>1, CreateKeepsInputs DEF Succeed

LEMMA CoordinateKeepsInputs ==
  ASSUME Typed, NEW S, CoordinateTurn(S)
  PROVE  KeepsInputs
<1>1. CASE OpenTurn(S)
  <2>1. \A a \in Attempt : status[a] # "none" => status'[a] # "none"
    BY <1>1, RowTypes DEF OpenTurn
  <2>2. QED
    BY <1>1, <2>1, CreateKeepsInputs DEF OpenTurn
<1>2. ASSUME NEW t \in ActiveTurns, Succeed(t, "superseded", S) \/ FreshAttemptFromOld(t, S)
      PROVE  KeepsInputs
  BY <1>2, SucceedKeepsInputs DEF FreshAttemptFromOld
<1>3. CASE UNCHANGED <<turnRows, attemptRows>>
  BY <1>3 DEF attemptRows, KeepsInputs
<1>4. QED
  BY <1>1, <1>2, <1>3 DEF CoordinateTurn

LEMMA WriteKeepsInputs ==
  ASSUME Typed, NEW x \in Executor, NEW what, Write(x, what)
  PROVE  KeepsInputs
<1>1. ASSUME NEW how, Requeue(x, how) PROVE KeepsInputs
  BY <1>1, RowTypes DEF Requeue, KeepsInputs
<1>2. CASE FailVisibly(x)
  BY <1>2, RowTypes DEF FailVisibly, KeepsInputs
<1>3. CASE Refresh(x)
  <2>1. \A a \in Attempt : status[a] # "none" => status'[a] # "none"
    BY <1>3, RowTypes DEF Refresh
  <2>2. QED
    BY <1>3, <2>1, CreateKeepsInputs DEF Refresh
<1>4. QED
  BY <1>1, <1>2, <1>3 DEF Write

LEMMA DecideKeepsInputs ==
  ASSUME Typed, NEW x \in Executor, NEW what, Decide(x, what)
  PROVE  KeepsInputs
<1>1. CASE UNCHANGED <<turnRows, attemptRows>>
  BY <1>1 DEF attemptRows, KeepsInputs
<1>2. QED
  BY <1>1, WriteKeepsInputs DEF Decide

LEMMA GiveUpKeepsInputs ==
  ASSUME NEW x, GiveUp(x)
  PROVE  KeepsInputs
  BY DEF GiveUp, attemptRows, KeepsInputs

LEMMA RecordFailureKeepsInputs ==
  ASSUME Typed, NEW x \in Executor, NEW retriable, RecordFailure(x, retriable)
  PROVE  KeepsInputs
  BY DecideKeepsInputs, GiveUpKeepsInputs DEF RecordFailure

LEMMA DeferArchivedKeepsInputs ==
  ASSUME Typed, NEW x \in Executor, DeferArchived(x)
  PROVE  KeepsInputs
  BY DecideKeepsInputs, GiveUpKeepsInputs DEF DeferArchived

\* The steps that commit nothing and resolve nothing, and the commit.
Unplayed ==
  /\ KeepsInputs /\ committed' = committed
  /\ \A s \in Submission : submission'[s] = "resolved" <=> submission[s] = "resolved"

Plays == \E a \in Attempt : status[a] # "none" /\ Promote(a)

LEMMA CommitTurnPlays ==
  ASSUME Typed, NEW x \in Executor, NEW silent \in BOOLEAN, CommitTurn(x, silent)
  PROVE  Unplayed \/ Plays
<1> DEFINE a == job[x]
<1>0. a \in Attempt
  BY DEF CommitTurn, Typed, AtWork
<1>1. ASSUME NEW retriable \in BOOLEAN, RecordFailure(x, retriable),
             UNCHANGED <<campaign, submission, committed>>
      PROVE  Unplayed
  BY <1>1, RecordFailureKeepsInputs DEF Unplayed
<1>2. CASE DiscardResult(x, a)
  BY <1>2, RowTypes DEF DiscardResult, Unplayed, KeepsInputs
<1>3. CASE ReplayCommit(a, silent)
  BY <1>3, RowTypes DEF ReplayCommit, Unplayed, KeepsInputs
<1>4. CASE FailCommit(x) /\ UNCHANGED <<campaign, submission, committed>>
  <2>1. Write(x, "fail") \/ Decide(x, "fail")
    BY <1>4 DEF FailCommit, Write
  <2>2. QED
    BY <1>4, <2>1, WriteKeepsInputs, DecideKeepsInputs DEF Unplayed
<1>5. CASE CommitBoundary(a, silent) /\ Promote(a)
  BY <1>0, <1>5 DEF CommitBoundary, Plays
<1>6. CASE DeferArchived(x) /\ UNCHANGED <<campaign, submission, committed>>
  BY <1>6, DeferArchivedKeepsInputs DEF Unplayed
<1>7. CASE UNCHANGED <<campaign, submission, committed, turnRows, attemptRows>>
  BY <1>7 DEF attemptRows, Unplayed, KeepsInputs
<1>8. QED
  BY <1>1, <1>2, <1>3, <1>4, <1>5, <1>6, <1>7 DEF CommitTurn

LEMMA ExecutePlays ==
  ASSUME Typed, NEW x \in Executor, Execute(x)
  PROVE  Unplayed \/ Plays
<1> USE DEF attemptRows
<1>1. ASSUME NEW a \in Attempt, Begin(x, a) PROVE Unplayed
  BY <1>1 DEF Begin, Unplayed, KeepsInputs
<1>2. CASE DeferBackpressured(x) \/ Crash(x) \/ CompleteStream(x) \/ StreamFails(x)
  BY <1>2 DEF DeferBackpressured, Crash, CompleteStream, StreamFails, Unplayed, KeepsInputs
<1>3. CASE RefreshStale(x) \/ DeferForCatchUp(x)
  BY <1>3, DecideKeepsInputs DEF RefreshStale, DeferForCatchUp, Unplayed
<1>4. CASE MarkRunning(x)
  BY <1>4, RowTypes DEF MarkRunning, Unplayed, KeepsInputs
<1>5. CASE AssembleContext(x)
  <2>1. KeepsInputs
    BY <1>5, RecordFailureKeepsInputs DEF AssembleContext, KeepsInputs
  <2>2. QED
    BY <1>5, <2>1 DEF AssembleContext, Unplayed
<1>6. CASE AdjudicationFails(x)
  BY <1>6, RecordFailureKeepsInputs DEF AdjudicationFails, Unplayed
<1>7. CASE ArchivedAtBoundary(x)
  BY <1>7, DeferArchivedKeepsInputs DEF ArchivedAtBoundary, Unplayed
<1>8. CASE RequestRolls(x)
  <2>1. CASE RecordFailure(x, FALSE)
    BY <1>8, <2>1, RecordFailureKeepsInputs DEF RequestRolls, Unplayed
  <2>2. CASE ~RecordFailure(x, FALSE)
    BY <1>8, <2>2, RowTypes DEF RequestRolls, Unplayed, KeepsInputs
  <2>3. QED
    BY <2>1, <2>2
<1>9. CASE StartStreaming(x)
  <2>1. CASE RecordFailure(x, FALSE)
    BY <1>9, <2>1, RecordFailureKeepsInputs DEF StartStreaming, Unplayed
  <2>2. CASE ~RecordFailure(x, FALSE)
    BY <1>9, <2>2, RowTypes DEF StartStreaming, Unplayed, KeepsInputs
  <2>3. QED
    BY <2>1, <2>2
<1>10. CASE Remediate(x)
  BY <1>10, DecideKeepsInputs, GiveUpKeepsInputs DEF Remediate, Unplayed
<1>11. CASE CommitTurn(x, TRUE) \/ CommitTurn(x, FALSE)
  BY <1>11, CommitTurnPlays
<1>12. CASE FinishWrite(x)
  BY <1>12, WriteKeepsInputs DEF FinishWrite, Unplayed
<1>13. CASE Abort(x)
  <2>1. Write(x, "fail") \/ \E retriable \in BOOLEAN : RecordFailure(x, retriable)
    BY <1>13 DEF Abort, Write
  <2>2. QED
    BY <1>13, <2>1, WriteKeepsInputs, RecordFailureKeepsInputs DEF Abort, Unplayed
<1>14. QED
  BY <1>1, <1>2, <1>3, <1>4, <1>5, <1>6, <1>7, <1>8, <1>9, <1>10, <1>11, <1>12, <1>13 DEF Execute

LEMMA AroundPlays ==
  ASSUME Typed, Around
  PROVE  Unplayed \/ Plays
<1>1. ASSUME NEW s \in Submission, Submit(s) PROVE Unplayed
  <2>1. KeepsInputs
    BY <1>1, CoordinateKeepsInputs DEF Submit
  <2>2. \A r \in Submission : submission'[r] = "resolved" <=> submission[r] = "resolved"
    BY <1>1, RowTypes DEF Submit
  <2>3. QED
    BY <1>1, <2>1, <2>2 DEF Submit, Unplayed
<1>2. CASE CoordinateStranded
  BY <1>2, CoordinateKeepsInputs DEF CoordinateStranded, Unplayed
<1>3. ASSUME NEW t \in Turn, FulfillRolls(t) PROVE Unplayed
  <2>1. \A a \in Attempt : status[a] # "none" => status'[a] # "none"
    BY <1>3, RowTypes DEF FulfillRolls
  <2>2. KeepsInputs
    BY <1>3, <2>1, CreateKeepsInputs DEF FulfillRolls
  <2>3. QED
    BY <1>3, <2>2 DEF FulfillRolls, Unplayed
<1>4. ASSUME NEW t \in Turn, RetryFailedAdjudication(t) \/ AutoRetry(t) PROVE Unplayed
  BY <1>4, SucceedKeepsInputs
  DEF RetryFailedAdjudication, AutoRetry, Retry, FreshAttemptFromOld, Unplayed
<1>5. ASSUME NEW t \in Turn, RecoverPartialStream(t) PROVE Plays
  BY <1>5, RowTypes DEF RecoverPartialStream, CanRetry, Plays
<1>6. ASSUME NEW a \in Attempt, RecoverStuck(a) \/ ReclaimStrandedStreaming(a) PROVE Unplayed
  BY <1>6, RowTypes DEF RecoverStuck, ReclaimStrandedStreaming, Unplayed, KeepsInputs
<1>7. CASE OtherMutation \/ Archive \/ Restore
  BY <1>7 DEF OtherMutation, Archive, Restore, attemptRows, Unplayed, KeepsInputs
<1>8. QED
  BY <1>1, <1>2, <1>3, <1>4, <1>5, <1>6, <1>7 DEF Around

LEMMA PlayedStep ==
  ASSUME Typed, Played, [Next]_vars
  PROVE  Played'
<1>1. CASE UNCHANGED vars
  BY <1>1 DEF vars, attemptRows, Played
<1>2. CASE Unplayed
  BY <1>2, RowTypes DEF Unplayed, KeepsInputs, Played
<1>3. CASE Plays
  <2>1. PICK a \in Attempt : status[a] # "none" /\ Promote(a)
    BY <1>3 DEF Plays
  <2>2. committed' = committed \cup {a} /\ inputs' = inputs
    BY <2>1 DEF Promote
  <2>3. \A s \in Submission : submission'[s] = "resolved" <=> s \in inputs[a] \/ submission[s] = "resolved"
    BY <2>1, RowTypes DEF Promote, ResolveSubmissions
  <2>4. \A b \in Attempt : status[b] # "none" => status'[b] # "none"
    BY <2>1, RowTypes DEF Promote
  <2>5. QED
    BY <2>1, <2>2, <2>3, <2>4, RowTypes DEF Played
<1>4. QED
  BY <1>1, <1>2, <1>3, ExecutePlays, AroundPlays DEF Next, Around

\* Whatever is deferred, and whatever falls between the reads and the writes of
\* an executor, input is resolved exactly when a committed attempt carried it:
\* no commit leaves its input open and nothing is resolved unplayed.
THEOREM PlayedIsResolved ==
  Spec => [](\A s \in Submission :
               submission[s] = "resolved" <=> \E a \in committed : s \in inputs[a])
<1>1. Init => Played
  BY DEF Init, Played
<1>2. Typed /\ Played /\ [Next]_vars => (Typed /\ Played)'
  BY TypedStep, PlayedStep
<1>3. Played => \A s \in Submission :
                  submission[s] = "resolved" <=> \E a \in committed : s \in inputs[a]
  BY DEF Played
<1>4. QED
  BY <1>1, <1>2, <1>3, InitTyped, PTL DEF Spec

-----------------------------------------------------------------------------
(* Between a read and its write.  As long as nothing defers an attempt for *)
(* post-turn work, no attempt is refreshed under the advisory lock of      *)
(* another one, and the lock alone keeps input from being played twice     *)
(* whatever falls into the windows.                                        *)

NoDeferral == Upsets \cap {"lag", "catchup"} = {}

\* What may become of an attempt under the hands of its executor.
HeldStatus == {"prepared", "running", "streaming", "superseded", "abandoned", "discarded"}

\* An executor works on the attempt whose lock it holds, and alone; nobody
\* else lets that attempt fail, wait or commit.
Held ==
  /\ \A a \in Attempt : mark[a] # "delayed"
  /\ \A x \in Executor :
       /\ job[x] = owned[x] /\ (phase[x] = "idle" => job[x] = None)
       /\ phase[x] \notin {"postpone", "refresh"}
       /\ phase[x] # "idle" => status[job[x]] \in HeldStatus
  /\ \A x, y \in Executor : x # y /\ job[x] # None => job[x] # job[y]

\* Attempts and turns belong together, though a blind write may leave them in
\* states that do not match.
Rooted ==
  /\ \A a \in Attempt : status[a] # "none" =>
       turnOf[a] \in Turn /\ turnStatus[turnOf[a]] # "none" /\ inputs[a] # {}
  /\ \A t \in Turn : turnStatus[t] # "none" =>
       /\ current[t] \in Attempt /\ turnOf[current[t]] = t /\ status[current[t]] # "none"
       /\ turnInputs[t] = inputs[current[t]]
OneActive == \A t, u \in ActiveTurns : t = u
\* A commit is the last thing that happens to its attempt, and no other
\* attempt ever takes its turn over.
Closed ==
  /\ CommittedSucceeded
  /\ \A a \in committed : current[turnOf[a]] = a /\ rolling[turnOf[a]] = None
  /\ \A t \in Turn : turnStatus[t] = "succeeded" => current[t] \in committed
RollsPlaced ==
  \A t \in Turn : rolling[t] # None =>
    t \in ActiveTurns /\ turnOf[rolling[t]] = t /\ status[rolling[t]] # "none"
OpenOwed == \A t \in ActiveTurns : current[t] \notin committed => turnInputs[t] \subseteq Unresolved

RowsFirm == Rooted /\ OneActive /\ Closed /\ RollsPlaced /\ OpenOwed /\ ResolvedOnce
Firm == RowsFirm /\ Held

-----------------------------------------------------------------------------
(* What a step may do to the rows: open a turn or rest, as above, or one   *)
(* of these.                                                               *)

\* The active turn goes on with the fresh attempt a; old is done with.
Continues(t, a, old, how, S) ==
  /\ Quiet /\ turnStatus[t] \in ActiveStatus /\ current[t] \notin committed
  /\ status[a] = "none" /\ status[old] \notin {"none", "succeeded"}
  /\ S # {} /\ S \subseteq Unresolved'
  /\ status' = [status EXCEPT ![old] = how, ![a] = "prepared"]
  /\ turnStatus' = [turnStatus EXCEPT ![t] = "pending"]
  /\ turnInputs' = [turnInputs EXCEPT ![t] = S]
  /\ current' = [current EXCEPT ![t] = a]
  /\ turnOf' = [turnOf EXCEPT ![a] = t]
  /\ inputs' = [inputs EXCEPT ![a] = S]
  /\ rolling' = rolling \/ rolling' = [rolling EXCEPT ![t] = None]

Unfinished == AttemptStatus \ {"none", "succeeded"}

\* An attempt that is not committed changes, perhaps with its turn.
Touches(a, how) ==
  /\ Quiet /\ status[a] \in Unfinished
  /\ status' = [status EXCEPT ![a] = how]
  /\ \/ turnStatus' = turnStatus
     \/ /\ ActiveTurns \subseteq {turnOf[a]}
        /\ \E ts \in ActiveStatus : turnStatus' = [turnStatus EXCEPT ![turnOf[a]] = ts]
  /\ \/ rolling' = rolling
     \/ /\ current[turnOf[a]] = a /\ turnStatus'[turnOf[a]] \in ActiveStatus
        /\ rolling' = [rolling EXCEPT ![turnOf[a]] = a]
  /\ UNCHANGED <<turnInputs, current, turnOf, inputs>>

\* The current attempt of an active turn commits.
Concludes(a) ==
  /\ status[a] \in Unfinished /\ current[turnOf[a]] = a
  /\ turnStatus[turnOf[a]] \in ActiveStatus /\ rolling[turnOf[a]] = None
  /\ Promote(a)

Shape ==
  \/ Rests
  \/ \E t \in Turn, a \in Attempt, S \in SUBSET Submission : Opens(t, a, S)
  \/ \E t \in Turn, a, old \in Attempt, how \in {"superseded", "abandoned"},
        S \in SUBSET Submission : Continues(t, a, old, how, S)
  \/ \E a \in Attempt, how \in Unfinished : Touches(a, how)
  \/ \E a \in Attempt : Concludes(a)

LEMMA RestsFirm ==
  ASSUME Typed, RowsFirm, Rests
  PROVE  RowsFirm'
<1> USE DEF RowsFirm
<1>1. /\ committed' = committed /\ Unresolved \subseteq Unresolved'
      /\ \A s \in Submission : submission'[s] = "resolved" <=> submission[s] = "resolved"
  BY QuietResolves DEF Rests
<1>2. ActiveTurns' = ActiveTurns
  BY DEF Rests, ActiveTurns
<1>3. Rooted'
  BY DEF Rests, Rooted
<1>4. OneActive' /\ RollsPlaced'
  BY <1>2 DEF Rests, OneActive, RollsPlaced
<1>5. Closed'
  BY <1>1 DEF Rests, Closed, CommittedSucceeded
<1>6. OpenOwed'
  BY <1>1, <1>2 DEF Rests, OpenOwed
<1>7. ResolvedOnce'
  BY <1>1 DEF Rests, ResolvedOnce
<1>8. QED
  BY <1>3, <1>4, <1>5, <1>6, <1>7

LEMMA OpensFirm ==
  ASSUME Typed, RowsFirm, NEW t \in Turn, NEW a \in Attempt, NEW S \in SUBSET Submission,
         Opens(t, a, S)
  PROVE  RowsFirm'
<1> USE DEF RowsFirm
<1>1. /\ status'[a] = "prepared" /\ turnOf'[a] = t /\ inputs'[a] = S
      /\ \A b \in Attempt \ {a} : /\ status'[b] = status[b] /\ turnOf'[b] = turnOf[b]
                                  /\ inputs'[b] = inputs[b]
  BY RowTypes DEF Opens
<1>2. /\ turnStatus'[t] = "pending" /\ turnInputs'[t] = S /\ current'[t] = a
      /\ \A u \in Turn \ {t} : /\ turnStatus'[u] = turnStatus[u] /\ turnInputs'[u] = turnInputs[u]
                               /\ current'[u] = current[u]
      /\ rolling' = rolling
  BY RowTypes DEF Opens
<1>3. ActiveTurns' = {t}
  BY <1>2 DEF Opens, ActiveTurns, ActiveStatus
<1>4. /\ status[a] = "none" /\ turnStatus[t] = "none" /\ a \notin committed
      /\ committed' = committed /\ S # {} /\ S \subseteq Unresolved'
      /\ \A s \in Submission : submission'[s] = "resolved" <=> submission[s] = "resolved"
  BY QuietResolves DEF Opens, Closed, CommittedSucceeded
<1>5. \A u \in Turn : rolling[u] = None
  BY DEF RollsPlaced, Opens
<1>6. \A b \in committed : b # a /\ status[b] = "succeeded" /\ turnOf[b] \in Turn \ {t}
  BY <1>4, RowTypes DEF Closed, CommittedSucceeded, Rooted
<1>7. Rooted'
  <2>1. \A u \in Turn \ {t} : turnStatus[u] # "none" => current[u] # a /\ status[current[u]] # "none"
    BY <1>4 DEF Rooted
  <2>2. QED
    BY <1>1, <1>2, <1>4, <2>1 DEF Rooted
<1>8. OneActive' /\ RollsPlaced'
  BY <1>2, <1>3, <1>5 DEF OneActive, RollsPlaced
<1>9. Closed'
  <2>1. CommittedSucceeded'
    BY <1>1, <1>4 DEF Closed, CommittedSucceeded
  <2>2. \A b \in committed' : current'[turnOf'[b]] = b /\ rolling'[turnOf'[b]] = None
    BY <1>1, <1>2, <1>4, <1>6, RowTypes DEF Closed
  <2>3. \A u \in Turn : turnStatus'[u] = "succeeded" => current'[u] \in committed'
    BY <1>2, <1>4 DEF Closed
  <2>4. QED
    BY <2>1, <2>2, <2>3 DEF Closed
<1>10. OpenOwed'
  BY <1>2, <1>3, <1>4 DEF OpenOwed
<1>11. ResolvedOnce'
  BY <1>1, <1>4, <1>6, RowTypes DEF ResolvedOnce
<1>12. QED
  BY <1>7, <1>8, <1>9, <1>10, <1>11

LEMMA ContinuesFirm ==
  ASSUME Typed, RowsFirm, NEW t \in Turn, NEW a \in Attempt, NEW old \in Attempt,
         NEW how \in {"superseded", "abandoned"}, NEW S \in SUBSET Submission,
         Continues(t, a, old, how, S)
  PROVE  RowsFirm'
<1> USE DEF RowsFirm
<1>0. old # a /\ ActiveTurns = {t}
  BY DEF Continues, ActiveTurns, OneActive
<1>1. /\ status'[a] = "prepared" /\ turnOf'[a] = t /\ inputs'[a] = S /\ status'[old] = how
      /\ \A b \in Attempt \ {a} : /\ turnOf'[b] = turnOf[b] /\ inputs'[b] = inputs[b]
                                  /\ b # old => status'[b] = status[b]
  BY <1>0, RowTypes DEF Continues
<1>2. /\ turnStatus'[t] = "pending" /\ turnInputs'[t] = S /\ current'[t] = a
      /\ \A u \in Turn \ {t} : /\ turnStatus'[u] = turnStatus[u] /\ turnInputs'[u] = turnInputs[u]
                               /\ current'[u] = current[u] /\ rolling'[u] = rolling[u]
      /\ rolling'[t] = rolling[t] \/ rolling'[t] = None
  BY RowTypes DEF Continues
<1>3. ActiveTurns' = {t}
  BY <1>0, <1>2 DEF ActiveTurns, ActiveStatus
<1>4. /\ status[a] = "none" /\ status[old] # "none" /\ a \notin committed /\ old \notin committed
      /\ committed' = committed /\ S # {} /\ S \subseteq Unresolved'
      /\ \A s \in Submission : submission'[s] = "resolved" <=> submission[s] = "resolved"
  BY QuietResolves DEF Continues, Closed, CommittedSucceeded
<1>6. \A b \in committed : /\ b \in Attempt \ {a, old} /\ status[b] = "succeeded"
                           /\ turnOf[b] \in Turn \ {t}
  BY <1>4, RowTypes DEF Closed, CommittedSucceeded, Rooted, Continues
<1>7. Rooted'
  <2>1. \A u \in Turn \ {t} : turnStatus[u] # "none" => current[u] # a /\ status[current[u]] # "none"
    BY <1>4 DEF Rooted
  <2>2. \A b \in Attempt : status'[b] # "none" =>
          turnOf'[b] \in Turn /\ turnStatus'[turnOf'[b]] # "none" /\ inputs'[b] # {}
    BY <1>1, <1>2, <1>4 DEF Rooted
  <2>3. \A u \in Turn : turnStatus'[u] # "none" =>
          /\ current'[u] \in Attempt /\ turnOf'[current'[u]] = u /\ status'[current'[u]] # "none"
          /\ turnInputs'[u] = inputs'[current'[u]]
    BY <1>1, <1>2, <1>4, <2>1 DEF Rooted
  <2>4. QED
    BY <2>2, <2>3 DEF Rooted
<1>8. OneActive' /\ RollsPlaced'
  <2>1. OneActive'
    BY <1>3 DEF OneActive
  <2>2. ASSUME NEW u \in Turn, rolling'[u] # None
        PROVE  u \in ActiveTurns' /\ turnOf'[rolling'[u]] = u /\ status'[rolling'[u]] # "none"
    <3>1. rolling'[u] = rolling[u]
      BY <1>2, <2>2
    <3>2. /\ u \in ActiveTurns /\ turnOf[rolling[u]] = u /\ status[rolling[u]] # "none"
          /\ rolling[u] \in Attempt
      BY <2>2, <3>1, RowTypes DEF RollsPlaced
    <3>3. QED
      BY <1>0, <1>1, <1>3, <1>4, <3>1, <3>2
  <2>3. QED
    BY <2>1, <2>2 DEF RollsPlaced
<1>9. Closed'
  <2>1. CommittedSucceeded'
    BY <1>1, <1>4, <1>6 DEF Closed, CommittedSucceeded
  <2>2. \A b \in committed' : current'[turnOf'[b]] = b /\ rolling'[turnOf'[b]] = None
    BY <1>1, <1>2, <1>4, <1>6 DEF Closed
  <2>3. \A u \in Turn : turnStatus'[u] = "succeeded" => current'[u] \in committed'
    BY <1>2, <1>4 DEF Closed
  <2>4. QED
    BY <2>1, <2>2, <2>3 DEF Closed
<1>10. OpenOwed'
  BY <1>2, <1>3, <1>4 DEF OpenOwed
<1>11. ResolvedOnce'
  BY <1>1, <1>4, <1>6, RowTypes DEF ResolvedOnce
<1>12. QED
  BY <1>7, <1>8, <1>9, <1>10, <1>11

LEMMA TouchesFirm ==
  ASSUME Typed, RowsFirm, NEW a \in Attempt, NEW how \in Unfinished, Touches(a, how)
  PROVE  RowsFirm'
<1> DEFINE t == turnOf[a]
<1> USE DEF RowsFirm
<1>0. /\ t \in Turn /\ turnStatus[t] # "none" /\ status[a] # "none" /\ a \notin committed
      /\ how \notin {"none", "succeeded"}
  BY DEF Touches, Unfinished, Rooted, Closed, CommittedSucceeded
<1>1. /\ status'[a] = how /\ \A b \in Attempt \ {a} : status'[b] = status[b]
      /\ turnOf' = turnOf /\ inputs' = inputs /\ current' = current /\ turnInputs' = turnInputs
  BY RowTypes DEF Touches
<1>2. /\ \A u \in Turn \ {t} : turnStatus'[u] = turnStatus[u] /\ rolling'[u] = rolling[u]
      /\ turnStatus'[t] = turnStatus[t] \/ (ActiveTurns \subseteq {t} /\ turnStatus'[t] \in ActiveStatus)
      /\ rolling'[t] = rolling[t]
         \/ (rolling'[t] = a /\ current[t] = a /\ turnStatus'[t] \in ActiveStatus)
  BY <1>0, RowTypes DEF Touches
<1>3. /\ committed' = committed /\ Unresolved \subseteq Unresolved'
      /\ \A s \in Submission : submission'[s] = "resolved" <=> submission[s] = "resolved"
  BY QuietResolves DEF Touches
<1>4. ActiveTurns' = ActiveTurns \/ (ActiveTurns \subseteq {t} /\ ActiveTurns' = {t})
  BY <1>0, <1>2 DEF ActiveTurns
<1>5. ActiveTurns \subseteq ActiveTurns'
  BY <1>4
<1> HIDE DEF t
<1>6. t = turnOf[a]
  BY DEF t
<1>7. Rooted'
  <2>1. \A u \in Turn : turnStatus'[u] # "none" => turnStatus[u] # "none"
    BY <1>0, <1>2
  <2>2. \A u \in Turn : turnStatus[u] # "none" => turnStatus'[u] # "none"
    BY <1>0, <1>2 DEF ActiveStatus
  <2>3. \A b \in Attempt : status'[b] # "none" <=> status[b] # "none"
    BY <1>0, <1>1
  <2>4. QED
    BY <1>1, <2>1, <2>2, <2>3 DEF Rooted
<1>8. OneActive'
  BY <1>4 DEF OneActive
<1>9. RollsPlaced'
  <2>1. ASSUME NEW u \in Turn, rolling'[u] # None
        PROVE  u \in ActiveTurns' /\ turnOf'[rolling'[u]] = u /\ status'[rolling'[u]] # "none"
    <3>1. CASE rolling'[u] = rolling[u]
      <4>1. /\ u \in ActiveTurns /\ turnOf[rolling[u]] = u /\ status[rolling[u]] # "none"
            /\ rolling[u] \in Attempt
        BY <2>1, <3>1, RowTypes DEF RollsPlaced
      <4>2. QED
        BY <1>0, <1>1, <1>5, <3>1, <4>1
    <3>2. CASE rolling'[u] # rolling[u]
      <4>1. u = t /\ rolling'[t] = a /\ turnStatus'[t] \in ActiveStatus
        BY <1>2, <3>2
      <4>2. QED
        BY <1>0, <1>1, <1>6, <4>1 DEF ActiveTurns
    <3>3. QED
      BY <3>1, <3>2
  <2>2. QED
    BY <2>1 DEF RollsPlaced
<1>10. Closed'
  <2>1. CommittedSucceeded'
    BY <1>0, <1>1, <1>3 DEF Closed, CommittedSucceeded
  <2>2. ASSUME NEW b \in committed PROVE current'[turnOf'[b]] = b /\ rolling'[turnOf'[b]] = None
    <3>1. current[turnOf[b]] = b /\ rolling[turnOf[b]] = None /\ b # a
      BY <1>0 DEF Closed
    <3>2. turnOf[b] \in Turn
      BY RowTypes DEF Closed, CommittedSucceeded, Rooted
    <3>3. QED
      BY <1>1, <1>2, <3>1, <3>2
  <2>3. \A u \in Turn : turnStatus'[u] = "succeeded" => current'[u] \in committed'
    BY <1>1, <1>2, <1>3 DEF Closed, ActiveStatus
  <2>4. QED
    BY <1>3, <2>1, <2>2, <2>3 DEF Closed
<1>11. OpenOwed'
  <2>1. ASSUME NEW u \in ActiveTurns', current[u] \notin committed PROVE turnInputs[u] \subseteq Unresolved
    <3>1. CASE u \in ActiveTurns
      BY <2>1, <3>1 DEF OpenOwed
    <3>2. CASE u \notin ActiveTurns
      <4>1. u = t /\ t \notin ActiveTurns
        BY <1>4, <3>2
      <4>2. turnStatus[t] = "succeeded"
        BY <1>0, <4>1, RowTypes DEF ActiveTurns, TurnStatus
      <4>3. QED
        BY <1>0, <2>1, <4>1, <4>2 DEF Closed
    <3>3. QED
      BY <3>1, <3>2
  <2>2. QED
    BY <1>1, <1>3, <2>1 DEF OpenOwed
<1>12. ResolvedOnce'
  BY <1>1, <1>3 DEF ResolvedOnce
<1>13. QED
  BY <1>7, <1>8, <1>9, <1>10, <1>11, <1>12

LEMMA ConcludesFirm ==
  ASSUME Typed, RowsFirm, NEW a \in Attempt, Concludes(a)
  PROVE  RowsFirm'
<1> DEFINE t == turnOf[a]
<1> USE DEF RowsFirm
<1>0. /\ t \in Turn /\ status[a] # "none" /\ a \notin committed /\ ActiveTurns = {t}
      /\ current[t] = a /\ rolling[t] = None /\ turnInputs[t] = inputs[a]
      /\ inputs[a] \subseteq Unresolved /\ inputs[a] # {}
  <2>1. t \in Turn /\ status[a] # "none" /\ a \notin committed /\ inputs[a] # {}
    BY DEF Concludes, Unfinished, Rooted, Closed, CommittedSucceeded
  <2>2. t \in ActiveTurns /\ current[t] = a /\ rolling[t] = None
    BY <2>1 DEF Concludes, ActiveTurns
  <2>3. turnInputs[t] = inputs[a]
    BY <2>2 DEF Rooted, ActiveTurns, ActiveStatus
  <2>4. QED
    BY <2>1, <2>2, <2>3 DEF OneActive, OpenOwed
<1>1. /\ status'[a] = "succeeded" /\ \A b \in Attempt \ {a} : status'[b] = status[b]
      /\ turnOf' = turnOf /\ inputs' = inputs /\ current' = current /\ turnInputs' = turnInputs
      /\ rolling' = rolling /\ committed' = committed \cup {a}
  BY RowTypes DEF Concludes, Promote
<1>2. /\ turnStatus'[t] = "succeeded" /\ \A u \in Turn \ {t} : turnStatus'[u] = turnStatus[u]
  BY <1>0, RowTypes DEF Concludes, Promote
<1>3. \A s \in Submission : submission'[s] = IF s \in inputs[a] THEN "resolved" ELSE submission[s]
  BY DEF Concludes, Promote, ResolveSubmissions
<1>4. ActiveTurns' = {}
  BY <1>0, <1>2 DEF ActiveTurns, ActiveStatus
<1> HIDE DEF t
<1>6. t = turnOf[a]
  BY DEF t
<1>7. Rooted'
  <2>1. \A u \in Turn : turnStatus'[u] # "none" <=> turnStatus[u] # "none"
    BY <1>0, <1>2 DEF ActiveTurns, ActiveStatus
  <2>2. \A b \in Attempt : status'[b] # "none" <=> status[b] # "none"
    BY <1>0, <1>1
  <2>3. QED
    BY <1>1, <2>1, <2>2 DEF Rooted
<1>8. OneActive' /\ OpenOwed'
  BY <1>4 DEF OneActive, OpenOwed
<1>9. RollsPlaced'
  <2>1. \A u \in Turn : rolling[u] = None
    BY <1>0 DEF RollsPlaced
  <2>2. QED
    BY <1>1, <2>1 DEF RollsPlaced
<1>10. Closed'
  <2>1. CommittedSucceeded'
    BY <1>1 DEF Closed, CommittedSucceeded
  <2>2. \A b \in committed' : current'[turnOf'[b]] = b /\ rolling'[turnOf'[b]] = None
    BY <1>0, <1>1, <1>6 DEF Closed
  <2>3. \A u \in Turn : turnStatus'[u] = "succeeded" => current'[u] \in committed'
    BY <1>0, <1>1, <1>2 DEF Closed
  <2>4. QED
    BY <2>1, <2>2, <2>3 DEF Closed
<1>11. ResolvedOnce'
  <2>1. \A b \in committed : inputs[b] \cap inputs[a] = {}
    BY <1>0, RowTypes DEF ResolvedOnce, Unresolved
  <2>2. \A b, c \in committed' : b # c => inputs'[b] \cap inputs'[c] = {}
    BY <1>1, <2>1 DEF ResolvedOnce
  <2>3. \A s \in Submission : submission'[s] = "resolved" <=> \E b \in committed' : s \in inputs'[b]
    BY <1>1, <1>3 DEF ResolvedOnce
  <2>4. QED
    BY <2>2, <2>3 DEF ResolvedOnce
<1>12. QED
  BY <1>7, <1>8, <1>9, <1>10, <1>11

LEMMA ShapeFirm == Typed /\ RowsFirm /\ Shape => RowsFirm'
  BY RestsFirm, OpensFirm, ContinuesFirm, TouchesFirm, ConcludesFirm DEF Shape

-----------------------------------------------------------------------------
(* Every step has such a shape.                                            *)

\* The executor's attempt is one that is not committed.
LEMMA HeldFacts ==
  ASSUME Typed, Firm, NEW x \in Executor, phase[x] # "idle"
  PROVE  /\ job[x] \in Attempt /\ status[job[x]] \in HeldStatus /\ status[job[x]] \in Unfinished
         /\ turnOf[job[x]] \in Turn /\ job[x] \notin committed
<1>1. job[x] \in Attempt /\ status[job[x]] \in HeldStatus
  BY DEF Typed, AtWork, Firm, Held
<1>2. status[job[x]] \in Unfinished
  BY <1>1 DEF HeldStatus, Unfinished, AttemptStatus, LiveStatus, DeadStatus
<1>3. QED
  BY <1>1, <1>2 DEF Unfinished, Firm, RowsFirm, Rooted, Closed, CommittedSucceeded

LEMMA FailVisiblyShape ==
  ASSUME Typed, Firm, NEW x \in Executor, phase[x] # "idle", Quiet, FailVisibly(x)
  PROVE  Shape
<1> DEFINE a == job[x]
<1>0. a \in Attempt /\ status[a] \in Unfinished /\ turnOf[a] \in Turn
  BY HeldFacts
<1>1. UNCHANGED <<turnInputs, current, rolling, turnOf, inputs>>
  BY DEF FailVisibly
<1>2. CASE ActiveTurns \subseteq {turnOf[a]}
  <2>1. /\ status' = [status EXCEPT ![a] = "failed_visible"]
        /\ turnStatus' = [turnStatus EXCEPT ![turnOf[a]] = "failed_visible"]
    BY <1>2 DEF FailVisibly
  <2>2. "failed_visible" \in ActiveStatus /\ "failed_visible" \in Unfinished
    BY DEF ActiveStatus, Unfinished, AttemptStatus, LiveStatus
  <2>3. Touches(a, "failed_visible")
    BY <1>0, <1>1, <1>2, <2>1, <2>2 DEF Touches
  <2>4. QED
    BY <1>0, <2>2, <2>3 DEF Shape
<1>3. CASE ~(ActiveTurns \subseteq {turnOf[a]})
  <2>1. Rests
    BY <1>1, <1>3 DEF FailVisibly, Rests
  <2>2. QED
    BY <2>1 DEF Shape
<1>4. QED
  BY <1>2, <1>3

\* The attempt alone changes.
LEMMA TouchesAlone ==
  ASSUME NEW a \in Attempt, NEW how \in Unfinished, Quiet, status[a] \in Unfinished,
         status' = [status EXCEPT ![a] = how],
         UNCHANGED <<turnStatus, turnInputs, current, rolling, turnOf, inputs>>
  PROVE  Shape
  BY DEF Touches, Shape

\* The attempt changes with its turn, which is active already.
LEMMA TouchesActive ==
  ASSUME Typed, RowsFirm, NEW a \in Attempt, NEW how \in {"streaming", "failed_visible"},
         Quiet, status[a] \in Unfinished, turnStatus[turnOf[a]] \in ActiveStatus,
         status' = [status EXCEPT ![a] = how], turnStatus' = [turnStatus EXCEPT ![turnOf[a]] = how],
         UNCHANGED <<turnInputs, current, rolling, turnOf, inputs>>
  PROVE  Shape
<1>1. turnOf[a] \in ActiveTurns
  BY DEF RowsFirm, Rooted, Unfinished, ActiveTurns
<1>2. ActiveTurns \subseteq {turnOf[a]}
  BY <1>1 DEF RowsFirm, OneActive
<1>3. how \in ActiveStatus /\ how \in Unfinished
  BY DEF ActiveStatus, Unfinished, AttemptStatus, LiveStatus
<1>4. Touches(a, how)
  BY <1>2, <1>3 DEF Touches
<1>5. QED
  BY <1>3, <1>4 DEF Shape

\* The writes that remain: a requeue with an error, and a visible failure.
LEMMA WriteShape ==
  ASSUME Typed, Firm, NEW x \in Executor, phase[x] # "idle", NEW what \in {"requeue", "fail"},
         Quiet, Write(x, what)
  PROVE  Shape
<1> USE DEF turnRows
<1>1. CASE what = "fail"
  BY <1>1, FailVisiblyShape DEF Write
<1>2. CASE what = "requeue"
  <2>1. /\ status' = [status EXCEPT ![job[x]] = "prepared"]
        /\ UNCHANGED <<turnStatus, turnInputs, current, rolling, turnOf, inputs>>
    BY <1>2 DEF Write, Requeue
  <2>2. "prepared" \in Unfinished
    BY DEF Unfinished, AttemptStatus, LiveStatus
  <2>3. QED
    BY <2>1, <2>2, HeldFacts, TouchesAlone
<1>3. QED
  BY <1>1, <1>2

LEMMA RestsShape ==
  ASSUME Quiet, UNCHANGED <<turnStatus, turnInputs, current, rolling, status, turnOf, inputs>>
  PROVE  Shape
  BY DEF Shape, Rests

LEMMA DecideShape ==
  ASSUME Typed, Firm, NEW x \in Executor, phase[x] # "idle", NEW what \in {"requeue", "fail"},
         Quiet, Decide(x, what)
  PROVE  Shape
  BY WriteShape, RestsShape DEF Decide, turnRows, attemptRows

LEMMA RecordFailureShape ==
  ASSUME Typed, Firm, NEW x \in Executor, phase[x] # "idle", NEW retriable \in BOOLEAN,
         Quiet, RecordFailure(x, retriable)
  PROVE  Shape
<1>1. CASE GiveUp(x)
  BY <1>1, RestsShape DEF GiveUp, turnRows, attemptRows
<1>2. CASE Decide(x, "requeue") \/ Decide(x, "fail")
  BY <1>2, DecideShape
<1>3. QED
  BY <1>1, <1>2 DEF RecordFailure

LEMMA DeferArchivedShape ==
  ASSUME Typed, Firm, NEW x \in Executor, phase[x] # "idle", Quiet, DeferArchived(x)
  PROVE  Shape
<1>1. CASE GiveUp(x)
  BY <1>1, RestsShape DEF GiveUp, turnRows, attemptRows
<1>2. CASE Decide(x, "requeue")
  BY <1>2, DecideShape
<1>3. QED
  BY <1>1, <1>2 DEF DeferArchived

LEMMA CommitTurnShape ==
  ASSUME Typed, Firm, NEW x \in Executor, NEW silent \in BOOLEAN, CommitTurn(x, silent)
  PROVE  Shape
<1> DEFINE a == job[x]
           t == turnOf[a]
<1>0. /\ phase[x] # "idle" /\ a \in Attempt /\ RowsFirm /\ status[a] \in Unfinished
      /\ t \in Turn /\ a \notin committed
  <2>1. phase[x] # "idle"
    BY DEF CommitTurn
  <2>2. QED
    BY <2>1, HeldFacts DEF Firm
<1> USE DEF campaign, turnRows
<1>q. UNCHANGED <<campaign, submission, committed>> => Quiet
  BY DEF Quiet, Accepts
<1>1. ASSUME NEW retriable \in BOOLEAN, RecordFailure(x, retriable),
             UNCHANGED <<campaign, submission, committed>>
      PROVE  Shape
  BY <1>0, <1>1, <1>q, RecordFailureShape
<1>2. CASE DiscardResult(x, a)
  <2>1. Quiet /\ UNCHANGED <<turnStatus, turnInputs, current, rolling, turnOf, inputs>>
    BY <1>2, <1>q DEF DiscardResult
  <2>2. CASE status' = status
    BY <2>1, <2>2, RestsShape
  <2>3. CASE status' = [status EXCEPT ![a] = "discarded"]
    <3>1. "discarded" \in Unfinished
      BY DEF Unfinished, AttemptStatus, DeadStatus
    <3>2. QED
      BY <1>0, <2>1, <2>3, <3>1, TouchesAlone
  <2>4. QED
    BY <1>2, <2>2, <2>3 DEF DiscardResult
<1>4. CASE FailCommit(x) /\ UNCHANGED <<campaign, submission, committed>>
  <2>1. Write(x, "fail") \/ Decide(x, "fail")
    BY <1>4 DEF FailCommit, Write
  <2>2. QED
    BY <1>0, <1>4, <1>q, <2>1, WriteShape, DecideShape
<1>5. CASE current[t] = a /\ CommitBoundary(a, silent) /\ Promote(a)
  <2>1. turnStatus[t] \in ActiveStatus /\ rolling[t] = None
    BY <1>5 DEF CommitBoundary, ActiveStatus
  <2>2. Concludes(a)
    BY <1>0, <1>5, <2>1 DEF Concludes
  <2>3. QED
    BY <1>0, <2>2 DEF Shape
<1>6. CASE DeferArchived(x) /\ UNCHANGED <<campaign, submission, committed>>
  BY <1>0, <1>6, <1>q, DeferArchivedShape
<1>7. CASE UNCHANGED <<campaign, submission, committed, turnRows, attemptRows>>
  BY <1>7, <1>q, RestsShape DEF attemptRows
<1>8. QED
  BY <1>0, <1>1, <1>2, <1>4, <1>5, <1>6, <1>7 DEF CommitTurn

\* Without a deferral the gate never finds an attempt to refresh.
LEMMA NothingStale ==
  ASSUME NoDeferral, Typed, Firm, NEW x \in Executor
  PROVE  ~DeferBackpressured(x) /\ ~RefreshStale(x) /\ ~DeferForCatchUp(x)
<1>1. ~DeferBackpressured(x) /\ ~DeferForCatchUp(x)
  BY DEF NoDeferral, DeferBackpressured, DeferForCatchUp, Upset
<1>2. ASSUME RefreshStale(x) PROVE FALSE
  <2>1. job[x] \in Attempt /\ mark[job[x]] = "delayed"
    BY <1>2, HeldFacts DEF RefreshStale, NeedsRefresh
  <2>2. QED
    BY <2>1 DEF Firm, Held
<1>3. QED
  BY <1>1, <1>2

LEMMA ExecuteShape ==
  ASSUME NoDeferral, Typed, Firm, NEW x \in Executor, Execute(x)
  PROVE  Shape
<1> USE DEF campaign, turnRows, attemptRows
<1>0. RowsFirm /\ (phase[x] # "idle" =>
                     job[x] \in Attempt /\ status[job[x]] \in Unfinished /\ turnOf[job[x]] \in Turn)
  BY HeldFacts DEF Firm
<1>q. UNCHANGED <<campaign, submission, committed>> => Quiet
  BY DEF Quiet, Accepts
<1>1. ASSUME NEW a \in Attempt, Begin(x, a) PROVE Shape
  BY <1>1, <1>q, RestsShape DEF Begin
<1>4. CASE MarkRunning(x)
  <2>1. CASE status' = status
    BY <1>4, <2>1, <1>q, RestsShape DEF MarkRunning
  <2>2. CASE status' = [status EXCEPT ![job[x]] = "running"]
    <3>1. "running" \in Unfinished
      BY DEF Unfinished, AttemptStatus, LiveStatus
    <3>2. QED
      BY <1>0, <1>4, <1>q, <2>2, <3>1, TouchesAlone DEF MarkRunning
  <2>3. QED
    BY <1>4, <2>1, <2>2 DEF MarkRunning
<1>5. CASE AssembleContext(x)
  BY <1>5, <1>q, RestsShape, RecordFailureShape DEF AssembleContext
<1>7. CASE AdjudicationFails(x)
  BY <1>7, <1>q, RecordFailureShape DEF AdjudicationFails
<1>8. CASE ArchivedAtBoundary(x)
  BY <1>8, <1>q, DeferArchivedShape DEF ArchivedAtBoundary
<1>9. CASE RequestRolls(x)
  <2> DEFINE a == job[x]
             t == turnOf[a]
  <2>0. Quiet /\ phase[x] # "idle" /\ a \in Attempt /\ status[a] \in Unfinished /\ t \in Turn
    BY <1>0, <1>9, <1>q DEF RequestRolls
  <2>1. CASE RecordFailure(x, FALSE)
    BY <2>0, <2>1, RecordFailureShape
  <2>2. CASE ~RecordFailure(x, FALSE)
    <3>1. /\ current[t] = a /\ turnStatus[t] \in {"pending", "awaiting_roll"}
          /\ turnStatus' = [turnStatus EXCEPT ![t] = "awaiting_roll"]
          /\ status' = [status EXCEPT ![a] = "awaiting_roll"]
          /\ rolling' = [rolling EXCEPT ![t] = a]
          /\ UNCHANGED <<turnInputs, current, turnOf, inputs>>
      BY <1>9, <2>2 DEF RequestRolls
    <3>2. t \in ActiveTurns /\ "awaiting_roll" \in ActiveStatus /\ "awaiting_roll" \in Unfinished
      BY <2>0, <3>1 DEF ActiveTurns, ActiveStatus, Unfinished, AttemptStatus, LiveStatus
    <3>3. ActiveTurns \subseteq {t} /\ turnStatus'[t] \in ActiveStatus
      BY <1>0, <2>0, <3>1, <3>2, RowTypes DEF RowsFirm, OneActive
    <3>4. Touches(a, "awaiting_roll")
      BY <2>0, <3>1, <3>2, <3>3 DEF Touches
    <3>5. QED
      BY <2>0, <3>2, <3>4 DEF Shape
  <2>3. QED
    BY <2>1, <2>2
<1>10. CASE StartStreaming(x)
  <2> DEFINE a == job[x]
  <2>0. Quiet /\ phase[x] # "idle" /\ a \in Attempt /\ status[a] \in Unfinished
    BY <1>0, <1>10, <1>q DEF StartStreaming
  <2>1. CASE RecordFailure(x, FALSE)
    BY <2>0, <2>1, RecordFailureShape
  <2>2. CASE ~RecordFailure(x, FALSE)
    <3>1. /\ MayStream(a)
          /\ status' = [status EXCEPT ![a] = "streaming"]
          /\ turnStatus' = [turnStatus EXCEPT ![turnOf[a]] = "streaming"]
          /\ UNCHANGED <<turnInputs, current, rolling, turnOf, inputs>>
      BY <1>10, <2>2 DEF StartStreaming
    <3>2. turnStatus[turnOf[a]] \in ActiveStatus
      BY <3>1 DEF MayStream, ActiveStatus
    <3>3. QED
      BY <1>0, <2>0, <3>1, <3>2, TouchesActive
  <2>3. QED
    BY <2>1, <2>2
<1>11. CASE CompleteStream(x)
  BY <1>11, <1>q, RestsShape DEF CompleteStream
<1>12. CASE StreamFails(x)
  BY <1>12, <1>q, RestsShape DEF StreamFails
<1>13. CASE Remediate(x)
  BY <1>13, <1>q, DecideShape, RestsShape DEF Remediate, GiveUp
<1>14. CASE CommitTurn(x, TRUE) \/ CommitTurn(x, FALSE)
  BY <1>14, CommitTurnShape
<1>15. CASE FinishWrite(x)
  <2>1. phase[x] \in {"requeue", "fail"} /\ phase[x] # "idle"
    BY <1>15 DEF FinishWrite, WriteBack, Firm, Held
  <2>2. QED
    BY <1>15, <1>q, <2>1, WriteShape DEF FinishWrite
<1>16. CASE Crash(x)
  BY <1>16, <1>q, RestsShape DEF Crash
<1>17. CASE Abort(x)
  <2>1. Write(x, "fail") \/ \E retriable \in BOOLEAN : RecordFailure(x, retriable)
    BY <1>17 DEF Abort, Write
  <2>2. Quiet /\ phase[x] # "idle"
    BY <1>17, <1>q DEF Abort
  <2>3. QED
    BY <2>1, <2>2, WriteShape, RecordFailureShape
<1>18. QED
  BY <1>1, <1>4, <1>5, <1>7, <1>8, <1>9, <1>10, <1>11, <1>12, <1>13, <1>14, <1>15, <1>16, <1>17,
     NothingStale DEF Execute

\* The turn of t goes on with a new attempt in the place of old.
LEMMA GoesOnFirm ==
  ASSUME Typed, RowsFirm, NEW t \in Turn, NEW a \in Attempt, NEW old \in Attempt,
         NEW S \in SUBSET Submission, NEW how \in {"superseded", "abandoned"}, Quiet,
         turnStatus[t] \in ActiveStatus, current[t] \notin committed,
         status[old] \notin {"none", "succeeded"},
         CreateAttempt(a, t, S), S # {}, S \subseteq Unresolved',
         status' = [status EXCEPT ![old] = how, ![a] = "prepared"],
         turnStatus' = [turnStatus EXCEPT ![t] = "pending"],
         turnInputs' = [turnInputs EXCEPT ![t] = S],
         rolling' = rolling \/ rolling' = [rolling EXCEPT ![t] = None]
  PROVE  Shape
<1>1. Continues(t, a, old, how, S)
  BY DEF Continues, CreateAttempt, FreshAttempt
<1>2. QED
  BY <1>1 DEF Shape

LEMMA CoordinateShape ==
  ASSUME Typed, RowsFirm, NEW S \in SUBSET Submission, S # {}, S \subseteq Unresolved',
         Quiet, CoordinateTurn(S)
  PROVE  Shape
<1> USE DEF turnRows, attemptRows
<1>1. CASE OpenTurn(S)
  <2>1. PICK t \in Turn, a \in Attempt :
          /\ FreshTurn(t)
          /\ CreateAttempt(a, t, S)
          /\ status' = [status EXCEPT ![a] = "prepared"]
          /\ turnStatus' = [turnStatus EXCEPT ![t] = "pending"]
          /\ turnInputs' = [turnInputs EXCEPT ![t] = S]
    BY <1>1 DEF OpenTurn
  <2>2. Opens(t, a, S)
    BY <1>1, <2>1 DEF OpenTurn, Opens, CreateAttempt, FreshTurn, FreshAttempt
  <2>3. QED
    BY <2>2 DEF Shape
<1>2. ASSUME NEW t \in ActiveTurns, status[current[t]] \notin {"none", "succeeded"},
             NEW how \in {"superseded", "abandoned"},
             Succeed(t, how, S), turnInputs' = [turnInputs EXCEPT ![t] = S], UNCHANGED rolling
      PROVE  Shape
  <2>1. /\ t \in Turn /\ turnStatus[t] \in ActiveStatus /\ current[t] \in Attempt
        /\ current[t] \notin committed
    BY <1>2 DEF ActiveTurns, ActiveStatus, RowsFirm, Rooted, Closed, CommittedSucceeded
  <2>2. PICK a \in Attempt : /\ CreateAttempt(a, t, S)
                             /\ status' = [status EXCEPT ![current[t]] = how, ![a] = "prepared"]
    BY <1>2 DEF Succeed
  <2>3. QED
    BY <1>2, <2>1, <2>2, GoesOnFirm DEF Succeed
<1>3. ASSUME NEW t \in ActiveTurns, Widens(t), Succeed(t, "superseded", S),
             turnInputs' = [turnInputs EXCEPT ![t] = S], UNCHANGED rolling
      PROVE  Shape
  BY <1>2, <1>3 DEF Widens
<1>4. ASSUME NEW t \in ActiveTurns, CanRetry(t), FreshAttemptFromOld(t, S)
      PROVE  Shape
  <2>1. turnInputs[t] = inputs[current[t]]
    BY DEF ActiveTurns, ActiveStatus, RowsFirm, Rooted
  <2>2. turnInputs' = [turnInputs EXCEPT ![t] = S]
    BY <1>4, <2>1, RowTypes DEF FreshAttemptFromOld, ActiveTurns
  <2>3. QED
    BY <1>2, <1>4, <2>2 DEF CanRetry, FreshAttemptFromOld
<1>5. CASE UNCHANGED <<turnRows, attemptRows>>
  BY <1>5, RestsShape
<1>6. QED
  BY <1>1, <1>3, <1>4, <1>5 DEF CoordinateTurn

LEMMA AroundShape ==
  ASSUME Typed, RowsFirm, Around
  PROVE  Shape
<1> USE DEF campaign, turnRows, attemptRows
<1>q. UNCHANGED <<campaign, submission, committed>> => Quiet
  BY DEF Quiet, Accepts
<1>1. ASSUME NEW s \in Submission, Submit(s) PROVE Shape
  <2>1. Unresolved' = Unresolved \cup {s} /\ Quiet
    BY <1>1, RowTypes DEF Submit, Unresolved, Quiet, Accepts
  <2>2. Unresolved \cup {s} \in SUBSET Submission
    BY DEF Unresolved
  <2>3. QED
    BY <1>1, <2>1, <2>2, CoordinateShape DEF Submit
<1>2. CASE CoordinateStranded
  <2>1. Unresolved' = Unresolved /\ Quiet /\ Unresolved # {}
    BY <1>2, <1>q DEF CoordinateStranded, Unresolved, Stranded
  <2>2. Unresolved \in SUBSET Submission
    BY DEF Unresolved
  <2>3. QED
    BY <1>2, <2>1, <2>2, CoordinateShape DEF CoordinateStranded
<1>3. ASSUME NEW t \in Turn, FulfillRolls(t) PROVE Shape
  <2>1. /\ t \in ActiveTurns /\ turnStatus[t] \in ActiveStatus /\ rolling[t] \in Attempt
        /\ turnOf[rolling[t]] = t /\ status[rolling[t]] # "none"
    BY <1>3, RowTypes DEF FulfillRolls, RowsFirm, RollsPlaced, ActiveTurns
  <2>2. /\ current[t] \in Attempt /\ turnOf[current[t]] = t /\ turnInputs[t] = inputs[current[t]]
        /\ inputs[current[t]] # {}
    BY <2>1 DEF RowsFirm, Rooted, ActiveTurns, ActiveStatus
  <2>3. current[t] \notin committed /\ rolling[t] \notin committed
    BY <1>3, <2>1, <2>2 DEF FulfillRolls, RowsFirm, Closed
  <2>4. status[rolling[t]] \notin {"none", "succeeded"}
    BY <2>1, <2>3 DEF RowsFirm, Closed, CommittedSucceeded
  <2>5. /\ turnInputs[t] # {} /\ turnInputs[t] \subseteq Unresolved'
        /\ turnInputs[t] \in SUBSET Submission
    BY <1>3, <2>1, <2>2, <2>3, RowTypes DEF RowsFirm, OpenOwed, FulfillRolls, Unresolved
  <2>6. PICK a \in Attempt :
          /\ CreateAttempt(a, t, turnInputs[t])
          /\ status' = [status EXCEPT ![rolling[t]] = "superseded", ![a] = "prepared"]
    BY <1>3 DEF FulfillRolls
  <2>7. turnInputs' = [turnInputs EXCEPT ![t] = turnInputs[t]]
    BY <1>3, RowTypes DEF FulfillRolls
  <2>8. QED
    BY <1>3, <1>q, <2>1, <2>3, <2>4, <2>5, <2>6, <2>7, GoesOnFirm DEF FulfillRolls
<1>4. ASSUME NEW t \in Turn, RetryFailedAdjudication(t) \/ AutoRetry(t) PROVE Shape
  <2>1. /\ CanRetry(t) /\ FreshAttemptFromOld(t, inputs[current[t]])
        /\ UNCHANGED <<campaign, submission, committed>>
    BY <1>4 DEF RetryFailedAdjudication, AutoRetry, Retry
  <2>2. /\ t \in ActiveTurns /\ turnStatus[t] \in ActiveStatus /\ current[t] \in Attempt
        /\ status[current[t]] = "failed_visible"
    BY <2>1, RowTypes DEF CanRetry, ActiveTurns, ActiveStatus
  <2>3. current[t] \notin committed
    BY <2>2 DEF RowsFirm, Closed, CommittedSucceeded
  <2>4. /\ turnInputs[t] = inputs[current[t]] /\ turnInputs[t] # {}
        /\ turnInputs[t] \subseteq Unresolved' /\ turnInputs[t] \in SUBSET Submission
    BY <2>1, <2>2, <2>3, RowTypes DEF RowsFirm, Rooted, OpenOwed, Unresolved, ActiveTurns, ActiveStatus
  <2>5. /\ turnInputs' = [turnInputs EXCEPT ![t] = turnInputs[t]] /\ rolling' = rolling
        /\ Succeed(t, "abandoned", turnInputs[t])
    BY <2>1, <2>4, RowTypes DEF FreshAttemptFromOld
  <2>6. PICK a \in Attempt :
          /\ CreateAttempt(a, t, turnInputs[t])
          /\ status' = [status EXCEPT ![current[t]] = "abandoned", ![a] = "prepared"]
    BY <2>5 DEF Succeed
  <2>7. turnStatus' = [turnStatus EXCEPT ![t] = "pending"]
    BY <2>5 DEF Succeed
  <2>8. QED
    BY <1>q, <2>1, <2>2, <2>3, <2>4, <2>5, <2>6, <2>7, GoesOnFirm
<1>5. ASSUME NEW t \in Turn, RecoverPartialStream(t) PROVE Shape
  <2>1. /\ current[t] \in Attempt /\ status[current[t]] \in Unfinished
        /\ turnStatus[t] \in ActiveStatus /\ rolling[t] = None
    BY <1>5, RowTypes
    DEF RecoverPartialStream, CanRetry, Unfinished, AttemptStatus, LiveStatus, ActiveStatus
  <2>2. turnOf[current[t]] = t
    BY <2>1 DEF RowsFirm, Rooted, ActiveStatus
  <2>3. Concludes(current[t])
    BY <1>5, <2>1, <2>2 DEF Concludes, RecoverPartialStream
  <2>4. QED
    BY <2>1, <2>3 DEF Shape
<1>6. ASSUME NEW a \in Attempt, RecoverStuck(a) PROVE Shape
  <2>1. status[a] \in Unfinished /\ "prepared" \in Unfinished
    BY <1>6 DEF RecoverStuck, Unfinished, AttemptStatus, LiveStatus
  <2>2. QED
    BY <1>6, <1>q, <2>1, TouchesAlone DEF RecoverStuck
<1>7. ASSUME NEW a \in Attempt, ReclaimStrandedStreaming(a) PROVE Shape
  <2>1. status[a] \in Unfinished /\ turnStatus[turnOf[a]] \in ActiveStatus
    BY <1>7
    DEF ReclaimStrandedStreaming, Reclaimable, Unfinished, AttemptStatus, LiveStatus, ActiveStatus
  <2>2. QED
    BY <1>7, <1>q, <2>1, TouchesActive DEF ReclaimStrandedStreaming
<1>8. CASE OtherMutation \/ Archive \/ Restore
  <2>1. Quiet
    BY <1>8 DEF OtherMutation, Archive, Restore, Quiet, Accepts
  <2>2. QED
    BY <1>8, <2>1, RestsShape DEF OtherMutation, Archive, Restore
<1>9. QED
  BY <1>1, <1>2, <1>3, <1>4, <1>5, <1>6, <1>7, <1>8 DEF Around

-----------------------------------------------------------------------------
(* The executors.                                                          *)

\* An executor writes the status of its own attempt only.  It ends, goes on, or
\* takes an attempt nobody holds.
Strides(x) ==
  /\ \A y \in Executor \ {x} : phase'[y] = phase[y] /\ job'[y] = job[y] /\ owned'[y] = owned[y]
  /\ \A b \in Attempt : b # job[x] => status'[b] = status[b]
  /\ \A a \in Attempt : mark'[a] # "delayed"
  /\ \/ phase'[x] = "idle" /\ job'[x] = None /\ owned'[x] = None
     \/ /\ phase'[x] \notin {"idle", "postpone", "refresh"}
        /\ job'[x] = owned'[x] /\ job'[x] \in Attempt /\ status'[job'[x]] \in HeldStatus
        /\ job'[x] = job[x] \/ \A y \in Executor : owned[y] # job'[x]

\* What only moves the executor, or ends its work.
LEMMA GoToStrides ==
  ASSUME Typed, Firm, NEW x \in Executor, phase[x] # "idle", NEW next \in Phase,
         next \notin {"idle", "postpone", "refresh"}, GoTo(x, next),
         UNCHANGED mark, \A b \in Attempt : b # job[x] => status'[b] = status[b],
         status'[job[x]] \in HeldStatus
  PROVE  Strides(x)
<1>1. job[x] \in Attempt /\ job[x] = owned[x]
  BY HeldFacts DEF Firm, Held
<1>2. /\ phase'[x] = next /\ job' = job /\ owned' = owned
      /\ \A y \in Executor \ {x} : phase'[y] = phase[y]
  BY DEF GoTo, Typed, TypeOK
<1>3. \A a \in Attempt : mark'[a] # "delayed"
  BY DEF Firm, Held
<1>4. QED
  BY <1>1, <1>2, <1>3 DEF Strides

LEMMA IdleStrides ==
  ASSUME Typed, Firm, NEW x \in Executor, GoIdle(x),
         \A b \in Attempt : b # job[x] => status'[b] = status[b],
         \A a \in Attempt : mark'[a] # "delayed"
  PROVE  Strides(x)
  BY DEF Strides, GoIdle, Typed, TypeOK

LEMMA NoMark ==
  ASSUME Firm
  PROVE  /\ \A a \in Attempt : mark[a] # "delayed"
         /\ UNCHANGED mark => \A a \in Attempt : mark'[a] # "delayed"
  BY DEF Firm, Held

LEMMA WriteStrides ==
  ASSUME Typed, Firm, NEW x \in Executor, phase[x] # "idle", NEW what \in {"requeue", "fail"},
         Write(x, what)
  PROVE  Strides(x)
<1>0. job[x] \in Attempt
  BY HeldFacts
<1>1. CASE what = "fail"
  <2>1. GoIdle(x) /\ UNCHANGED mark /\ \A b \in Attempt : b # job[x] => status'[b] = status[b]
    BY <1>0, <1>1, RowTypes DEF Write, FailVisibly
  <2>2. QED
    BY <2>1, NoMark, IdleStrides
<1>2. CASE what = "requeue"
  <2>1. GoIdle(x) /\ \A b \in Attempt : b # job[x] => status'[b] = status[b]
    BY <1>0, <1>2, RowTypes DEF Write, Requeue
  <2>2. \A a \in Attempt : mark'[a] # "delayed"
    BY <1>0, <1>2, NoMark DEF Write, Requeue, Typed, TypeOK
  <2>3. QED
    BY <2>1, <2>2, IdleStrides
<1>3. QED
  BY <1>1, <1>2

LEMMA DecideStrides ==
  ASSUME Typed, Firm, NEW x \in Executor, phase[x] # "idle", NEW what \in {"requeue", "fail"},
         Decide(x, what)
  PROVE  Strides(x)
<1>1. CASE what \in Windows
  <2>1. GoTo(x, what) /\ UNCHANGED <<status, mark>> /\ what \in Phase
    BY <1>1 DEF Decide, attemptRows, Phase, WriteBack
  <2>2. status'[job[x]] \in HeldStatus
    BY <2>1, HeldFacts
  <2>3. QED
    BY <2>1, <2>2, GoToStrides
<1>2. CASE what \notin Windows
  BY <1>2, WriteStrides DEF Decide
<1>3. QED
  BY <1>1, <1>2

LEMMA GiveUpStrides ==
  ASSUME Typed, Firm, NEW x \in Executor, GiveUp(x)
  PROVE  Strides(x)
  BY NoMark, IdleStrides DEF GiveUp, attemptRows

LEMMA RecordFailureStrides ==
  ASSUME Typed, Firm, NEW x \in Executor, phase[x] # "idle", NEW retriable, RecordFailure(x, retriable)
  PROVE  Strides(x)
  BY DecideStrides, GiveUpStrides DEF RecordFailure

LEMMA DeferArchivedStrides ==
  ASSUME Typed, Firm, NEW x \in Executor, phase[x] # "idle", DeferArchived(x)
  PROVE  Strides(x)
  BY DecideStrides, GiveUpStrides DEF DeferArchived

\* A write of its own status with which an execution ends.
LEMMA EndStrides ==
  ASSUME Typed, Firm, NEW x \in Executor, phase[x] # "idle", GoIdle(x), UNCHANGED mark,
         status' = status \/ \E how : status' = [status EXCEPT ![job[x]] = how]
  PROVE  Strides(x)
<1>1. \A b \in Attempt : b # job[x] => status'[b] = status[b]
  BY RowTypes
<1>2. QED
  BY <1>1, NoMark, IdleStrides

LEMMA ExecuteStrides ==
  ASSUME NoDeferral, Typed, Firm, NEW x \in Executor, Execute(x)
  PROVE  Strides(x)
<1>0. phase[x] # "idle" => job[x] \in Attempt /\ status[job[x]] \in HeldStatus
  BY HeldFacts
<1>1. ASSUME NEW a \in Attempt, Begin(x, a) PROVE Strides(x)
  <2>1. /\ phase'[x] = "claiming" /\ job'[x] = a /\ owned'[x] = a /\ status'[a] = "prepared"
        /\ \A y \in Executor : owned[y] # a
        /\ \A y \in Executor \ {x} : phase'[y] = phase[y] /\ job'[y] = job[y] /\ owned'[y] = owned[y]
        /\ status' = status /\ mark' = mark
    BY <1>1 DEF Begin, ExecutionOwnership, Typed, TypeOK, attemptRows
  <2>2. QED
    BY <2>1, NoMark DEF Strides, HeldStatus
<1>2. CASE Crash(x)
  BY <1>2, EndStrides DEF Crash, attemptRows
<1>3. CASE MarkRunning(x)
  <2>1. CASE GoIdle(x)
    BY <1>3, <2>1, EndStrides DEF MarkRunning
  <2>2. CASE GoTo(x, "claimed") /\ status' = [status EXCEPT ![job[x]] = "running"]
    <3>1. /\ status'[job[x]] \in HeldStatus /\ "claimed" \in Phase
          /\ \A b \in Attempt : b # job[x] => status'[b] = status[b]
      BY <1>0, <1>3, <2>2, RowTypes DEF MarkRunning, HeldStatus, Phase
    <3>2. QED
      BY <1>3, <2>2, <3>1, GoToStrides DEF MarkRunning
  <2>3. QED
    BY <1>3, <2>1, <2>2 DEF MarkRunning
<1>4. CASE AssembleContext(x)
  <2>1. CASE RecordFailure(x, FALSE)
    BY <1>4, <2>1, RecordFailureStrides DEF AssembleContext
  <2>2. CASE GoTo(x, "adjudicated") /\ UNCHANGED <<turnRows, attemptRows>>
    <3>1. UNCHANGED <<status, mark>> /\ "adjudicated" \in Phase
      BY <2>2 DEF attemptRows, Phase
    <3>2. status'[job[x]] \in HeldStatus
      BY <1>0, <1>4, <3>1 DEF AssembleContext
    <3>3. QED
      BY <1>4, <2>2, <3>1, <3>2, GoToStrides DEF AssembleContext
  <2>3. QED
    BY <1>4, <2>1, <2>2 DEF AssembleContext
<1>5. CASE AdjudicationFails(x)
  BY <1>5, RecordFailureStrides DEF AdjudicationFails
<1>6. CASE ArchivedAtBoundary(x)
  BY <1>6, DeferArchivedStrides DEF ArchivedAtBoundary
<1>7. CASE RequestRolls(x)
  BY <1>7, RecordFailureStrides, EndStrides DEF RequestRolls
<1>8. CASE StartStreaming(x)
  <2>1. CASE RecordFailure(x, FALSE)
    BY <1>8, <2>1, RecordFailureStrides DEF StartStreaming
  <2>2. CASE ~RecordFailure(x, FALSE)
    <3>1. /\ GoTo(x, "narrating") /\ UNCHANGED mark /\ "narrating" \in Phase
          /\ status' = [status EXCEPT ![job[x]] = "streaming"]
      BY <1>8, <2>2 DEF StartStreaming, Phase
    <3>2. /\ status'[job[x]] \in HeldStatus /\ phase[x] # "idle"
          /\ \A b \in Attempt : b # job[x] => status'[b] = status[b]
      BY <1>0, <1>8, <3>1, RowTypes DEF StartStreaming, HeldStatus
    <3>3. QED
      BY <3>1, <3>2, GoToStrides
  <2>3. QED
    BY <2>1, <2>2
<1>9. CASE CompleteStream(x) \/ StreamFails(x)
  <2>1. PICK next \in {"narrated", "broken"} : GoTo(x, next)
    BY <1>9 DEF CompleteStream, StreamFails
  <2>2. UNCHANGED <<status, mark>> /\ phase[x] # "idle" /\ next \in Phase
    BY <1>9 DEF CompleteStream, StreamFails, Phase
  <2>3. status'[job[x]] \in HeldStatus
    BY <1>0, <2>2
  <2>4. QED
    BY <2>1, <2>2, <2>3, GoToStrides
<1>10. CASE Remediate(x)
  BY <1>10, DecideStrides, GiveUpStrides DEF Remediate
<1>11. CASE CommitTurn(x, TRUE) \/ CommitTurn(x, FALSE)
  <2>0. phase[x] # "idle"
    BY <1>11 DEF CommitTurn
  <2>1. ASSUME NEW retriable, RecordFailure(x, retriable) PROVE Strides(x)
    BY <2>0, <2>1, RecordFailureStrides
  <2>2. CASE DiscardResult(x, job[x])
    BY <2>0, <2>2, EndStrides DEF DiscardResult
  <2>3. ASSUME NEW silent, ReplayCommit(job[x], silent), GoIdle(x) PROVE Strides(x)
    BY <2>0, <2>3, EndStrides DEF ReplayCommit
  <2>4. CASE FailCommit(x)
    <3>1. Write(x, "fail") \/ Decide(x, "fail")
      BY <2>4 DEF FailCommit, Write
    <3>2. QED
      BY <2>0, <3>1, WriteStrides, DecideStrides
  <2>5. CASE Promote(job[x]) /\ GoIdle(x)
    BY <2>0, <2>5, EndStrides DEF Promote
  <2>6. CASE DeferArchived(x)
    BY <2>0, <2>6, DeferArchivedStrides
  <2>7. CASE GoTo(x, "aborted") /\ UNCHANGED attemptRows
    <3>1. UNCHANGED <<status, mark>> /\ "aborted" \in Phase
      BY <2>7 DEF attemptRows, Phase
    <3>2. status'[job[x]] \in HeldStatus
      BY <1>0, <2>0, <3>1
    <3>3. QED
      BY <2>0, <2>7, <3>1, <3>2, GoToStrides
  <2>8. QED
    BY <1>11, <2>1, <2>2, <2>3, <2>4, <2>5, <2>6, <2>7 DEF CommitTurn
<1>12. CASE FinishWrite(x)
  <2>1. phase[x] \in {"requeue", "fail"} /\ phase[x] # "idle"
    BY <1>12 DEF FinishWrite, WriteBack, Firm, Held
  <2>2. QED
    BY <1>12, <2>1, WriteStrides DEF FinishWrite
<1>13. CASE Abort(x)
  <2>1. Write(x, "fail") \/ \E retriable \in BOOLEAN : RecordFailure(x, retriable)
    BY <1>13 DEF Abort, Write
  <2>2. phase[x] # "idle"
    BY <1>13 DEF Abort
  <2>3. QED
    BY <2>1, <2>2, WriteStrides, RecordFailureStrides
<1>14. QED
  BY <1>1, <1>2, <1>3, <1>4, <1>5, <1>6, <1>7, <1>8, <1>9, <1>10, <1>11, <1>12, <1>13,
     NothingStale DEF Execute

LEMMA StridesHeld ==
  ASSUME Typed, Firm, NEW x \in Executor, Strides(x)
  PROVE  Held'
<1>1. \A y \in Executor : /\ job[y] = owned[y] /\ (phase[y] = "idle" => job[y] = None)
                          /\ phase[y] # "idle" => job[y] \in Attempt
  BY DEF Typed, AtWork, Firm, Held
<1>2. ASSUME NEW y \in Executor \ {x}, phase[y] # "idle" PROVE status'[job[y]] = status[job[y]]
  <2>1. job[y] # job[x] /\ job[y] \in Attempt
    BY <1>1, <1>2 DEF Firm, Held, None, Attempt
  <2>2. QED
    BY <2>1 DEF Strides
<1>3. ASSUME NEW y \in Executor
      PROVE  /\ job'[y] = owned'[y] /\ (phase'[y] = "idle" => job'[y] = None)
             /\ phase'[y] \notin {"postpone", "refresh"}
             /\ phase'[y] # "idle" => status'[job'[y]] \in HeldStatus
  <2>1. CASE y = x
    BY <2>1 DEF Strides
  <2>2. CASE y # x
    BY <1>1, <1>2, <2>2 DEF Strides, Firm, Held
  <2>3. QED
    BY <2>1, <2>2
<1>4. ASSUME NEW y \in Executor, NEW z \in Executor, y # z, job'[y] # None PROVE job'[y] # job'[z]
  <2>1. ASSUME NEW w \in Executor \ {x}, job'[x] # None PROVE job[w] # job'[x]
    <3>1. job'[x] = job[x] \/ owned[w] # job'[x]
      BY <2>1 DEF Strides
    <3>2. QED
      BY <1>1, <2>1, <3>1 DEF Firm, Held
  <2>2. \A w \in Executor \ {x} : job'[w] = job[w]
    BY DEF Strides
  <2>3. CASE y = x
    BY <1>4, <2>1, <2>2, <2>3
  <2>4. CASE y # x /\ z = x
    BY <1>4, <2>1, <2>2, <2>4
  <2>5. CASE y # x /\ z # x
    BY <1>4, <2>2, <2>5 DEF Firm, Held
  <2>6. QED
    BY <2>3, <2>4, <2>5
<1>5. QED
  BY <1>3, <1>4 DEF Held, Strides

\* What players, owners and sweeps do leaves the executors and what they hold.
Spares(b) == status[b] \in HeldStatus => status'[b] \in HeldStatus

LEMMA SparesHeld ==
  ASSUME Typed, Firm, UNCHANGED executors, \A a \in Attempt : mark'[a] # "delayed",
         \A b \in Attempt : (\E x \in Executor : owned[x] = b) => Spares(b)
  PROVE  Held'
<1>1. ASSUME NEW x \in Executor, phase[x] # "idle" PROVE status'[job[x]] \in HeldStatus
  BY <1>1, HeldFacts DEF Firm, Held, Spares
<1>2. QED
  BY <1>1 DEF Firm, Held, executors

LEMMA SucceedSpares ==
  ASSUME Typed, NEW t \in Turn, NEW how \in {"superseded", "abandoned"}, NEW S, Succeed(t, how, S)
  PROVE  (\A b \in Attempt : Spares(b)) /\ UNCHANGED mark
  BY RowTypes DEF Succeed, CreateAttempt, Spares, HeldStatus

LEMMA CoordinateSpares ==
  ASSUME Typed, NEW S, CoordinateTurn(S)
  PROVE  (\A b \in Attempt : Spares(b)) /\ UNCHANGED mark
<1>1. CASE OpenTurn(S)
  BY <1>1, RowTypes DEF OpenTurn, CreateAttempt, Spares, HeldStatus
<1>2. ASSUME NEW t \in ActiveTurns, Succeed(t, "superseded", S) \/ FreshAttemptFromOld(t, S)
      PROVE  (\A b \in Attempt : Spares(b)) /\ UNCHANGED mark
  BY <1>2, SucceedSpares DEF FreshAttemptFromOld, ActiveTurns
<1>3. CASE UNCHANGED <<turnRows, attemptRows>>
  BY <1>3 DEF attemptRows, Spares
<1>4. QED
  BY <1>1, <1>2, <1>3 DEF CoordinateTurn

LEMMA AroundHeld ==
  ASSUME Typed, Firm, Around
  PROVE  Held'
<1>1. UNCHANGED executors
  BY DEF Around, Submit, CoordinateStranded, FulfillRolls, RetryFailedAdjudication, AutoRetry, Retry,
         RecoverPartialStream, RecoverStuck, ReclaimStrandedStreaming, OtherMutation, Archive, Restore
<1>2. ASSUME NEW s \in Submission, Submit(s) PROVE Held'
  BY <1>1, <1>2, CoordinateSpares, NoMark, SparesHeld DEF Submit
<1>3. CASE CoordinateStranded
  BY <1>1, <1>3, CoordinateSpares, NoMark, SparesHeld DEF CoordinateStranded
<1>4. ASSUME NEW t \in Turn, FulfillRolls(t) PROVE Held'
  <2>1. (\A b \in Attempt : Spares(b)) /\ UNCHANGED mark
    BY <1>4, RowTypes DEF FulfillRolls, CreateAttempt, Spares, HeldStatus
  <2>2. QED
    BY <1>1, <2>1, NoMark, SparesHeld
<1>5. ASSUME NEW t \in Turn, RetryFailedAdjudication(t) \/ AutoRetry(t) PROVE Held'
  <2>1. Succeed(t, "abandoned", inputs[current[t]])
    BY <1>5 DEF RetryFailedAdjudication, AutoRetry, Retry, FreshAttemptFromOld
  <2>2. QED
    BY <1>1, <2>1, SucceedSpares, NoMark, SparesHeld
<1>6. ASSUME NEW t \in Turn, RecoverPartialStream(t) PROVE Held'
  <2>1. (\A b \in Attempt : Spares(b)) /\ UNCHANGED mark
    BY <1>6, RowTypes DEF RecoverPartialStream, CanRetry, Promote, Spares, HeldStatus
  <2>2. QED
    BY <1>1, <2>1, NoMark, SparesHeld
<1>7. ASSUME NEW a \in Attempt, RecoverStuck(a) PROVE Held'
  <2>1. \A b \in Attempt : Spares(b)
    BY <1>7, RowTypes DEF RecoverStuck, Spares, HeldStatus
  <2>2. \A b \in Attempt : mark'[b] # "delayed"
    BY <1>7, NoMark DEF RecoverStuck, Typed, TypeOK
  <2>3. QED
    BY <1>1, <2>1, <2>2, SparesHeld
<1>8. ASSUME NEW a \in Attempt, ReclaimStrandedStreaming(a) PROVE Held'
  <2>1. (\A b \in Attempt : b # a => Spares(b)) /\ UNCHANGED mark /\ \A x \in Executor : owned[x] # a
    BY <1>8, RowTypes DEF ReclaimStrandedStreaming, Reclaimable, Spares, HeldStatus
  <2>2. QED
    BY <1>1, <2>1, NoMark, SparesHeld
<1>9. CASE OtherMutation \/ Archive \/ Restore
  <2>1. (\A b \in Attempt : Spares(b)) /\ UNCHANGED mark
    BY <1>9 DEF OtherMutation, Archive, Restore, attemptRows, Spares
  <2>2. QED
    BY <1>1, <2>1, NoMark, SparesHeld
<1>10. QED
  BY <1>2, <1>3, <1>4, <1>5, <1>6, <1>7, <1>8, <1>9 DEF Around
-----------------------------------------------------------------------------
LEMMA InitFirm == Init => Firm
<1> SUFFICES ASSUME Init PROVE Firm
  OBVIOUS
<1>1. /\ \A t \in Turn : turnStatus[t] = "none" /\ rolling[t] = None
      /\ \A a \in Attempt : status[a] = "none" /\ mark[a] = "clean"
      /\ \A s \in Submission : submission[s] = "unsent"
      /\ \A x \in Executor : phase[x] = "idle" /\ job[x] = None /\ owned[x] = None
      /\ committed = {} /\ ActiveTurns = {}
  BY DEF Init, ActiveTurns, ActiveStatus
<1>2. RowsFirm
  BY <1>1
  DEF RowsFirm, Rooted, OneActive, Closed, CommittedSucceeded, RollsPlaced, OpenOwed, ResolvedOnce
<1>3. Held
  BY <1>1 DEF Held
<1>4. QED
  BY <1>2, <1>3 DEF Firm

LEMMA NextShape == NoDeferral /\ Typed /\ Firm /\ Next => Shape
  BY ExecuteShape, AroundShape DEF Next, Around, Firm

LEMMA FirmStep ==
  ASSUME NoDeferral, Typed, Firm, [Next]_vars
  PROVE  Firm'
<1>1. CASE Next
  <2>1. RowsFirm'
    BY <1>1, NextShape, ShapeFirm DEF Firm
  <2>2. Held'
    BY <1>1, ExecuteStrides, StridesHeld, AroundHeld DEF Next, Around
  <2>3. QED
    BY <2>1, <2>2 DEF Firm
<1>2. CASE UNCHANGED vars
  <2>1. Rests
    BY <1>2 DEF vars, campaign, turnRows, attemptRows, Rests, Quiet, Accepts
  <2>2. RowsFirm'
    BY <2>1, RestsFirm DEF Firm
  <2>3. Held'
    BY <1>2 DEF vars, executors, attemptRows, Firm, Held
  <2>4. QED
    BY <2>2, <2>3 DEF Firm
<1>3. QED
  BY <1>1, <1>2

\* The strengthening for any windows.
\* Where nothing defers an attempt, its rows and its lock hold each other up:
\* every executor works alone on the attempt whose advisory lock it took, and
\* attempts, turns and inputs belong together, even where other steps fall
\* between the reads and the writes of an executor (execute_dm_attempt).
THEOREM FirmAlways ==
  ASSUME NoDeferral
  PROVE  Spec => [](Typed /\ Firm)
<1>1. Typed /\ Firm /\ [Next]_vars => (Typed /\ Firm)'
  BY TypedStep, FirmStep
<1>2. QED
  BY <1>1, InitTyped, InitFirm, PTL DEF Spec

\* No two executors are ever at work on one attempt, whatever falls into the
\* windows; the finding of a second executor needs a deferral and a refresh.
THEOREM ExecutorsApart ==
  ASSUME NoDeferral
  PROVE  Spec => []OneExecutor
<1>1. Typed /\ Firm => OneExecutor
  BY DEF Firm, Held, OneExecutor
<1>2. QED
  BY <1>1, FirmAlways, PTL

\* Accepted input is played by exactly one committed attempt, even where the
\* late write of an overtaken executor hits the row of a committed one.
THEOREM OnceInWindows ==
  ASSUME NoDeferral
  PROVE  Spec => []ResolvedOnce
<1>1. Typed /\ Firm => ResolvedOnce
  BY DEF Firm, RowsFirm
<1>2. QED
  BY <1>1, FirmAlways, PTL

LEMMA FirmLedger ==
  ASSUME NoDeferral, Typed, Firm, [Next]_vars
  PROVE  [Ledger!LedgerNext]_(Ledger!ledger)
<1>0. RowsFirm /\ ResolvedOnce
  BY DEF Firm, RowsFirm
<1>1. CASE UNCHANGED vars
  BY <1>1 DEF vars, campaign, attemptRows, Ledger!ledger, Unresolved
<1>2. ASSUME NEW a \in Attempt, Concludes(a) PROVE Ledger!LedgerNext
  <2>1. turnOf[a] \in ActiveTurns /\ current[turnOf[a]] = a /\ inputs[a] # {} /\ a \notin committed
    BY <1>0, <1>2
    DEF Concludes, Unfinished, RowsFirm, Rooted, Closed, CommittedSucceeded, ActiveTurns
  <2>2. inputs[a] \subseteq Unresolved
    BY <1>0, <2>1 DEF RowsFirm, Rooted, OpenOwed, ActiveTurns, ActiveStatus
  <2>3. QED
    BY <1>2, <2>1, <2>2, PromoteLedger DEF Concludes
<1>3. ASSUME Shape, Quiet PROVE Batches' = Batches
  <2>1. \A a \in committed : status[a] = "succeeded"
    BY <1>0, RowTypes DEF RowsFirm, Closed, CommittedSucceeded
  <2>2. committed' = committed
    BY <1>3 DEF Quiet
  <2>3. \A a \in committed : inputs'[a] = inputs[a]
    <3>1. ASSUME NEW a \in Attempt, Concludes(a) PROVE FALSE
      BY <1>0, <2>1, <2>2, <3>1 DEF Concludes, Promote, Unfinished
    <3>2. QED
      BY <1>3, <2>1, <3>1, RowTypes DEF Shape, Rests, Opens, Continues, Touches
  <2>4. QED
    BY <2>2, <2>3 DEF Batches
<1>4. CASE Next
  <2>1. Shape
    BY <1>4, NextShape
  <2>2. CASE Quiet
    BY <1>0, <1>3, <2>1, <2>2, QuietKeepsLedger
  <2>3. QED
    BY <1>2, <2>1, <2>2 DEF Shape, Rests, Opens, Continues, Touches
<1>5. QED
  BY <1>1, <1>4

\* And the thread implements its ledger through all of that.
THEOREM LedgerInWindows ==
  ASSUME NoDeferral
  PROVE  Spec => KeepsLedger
<1>1. Init => Ledger!LedgerInit
  BY DEF Init, Ledger!LedgerInit, Unresolved
<1>2. Typed /\ Firm /\ [Next]_vars => [Ledger!LedgerNext]_(Ledger!ledger)
  BY FirmLedger
<1>3. QED
  BY <1>1, <1>2, FirmAlways, PTL DEF Spec, KeepsLedger, Ledger!LedgerSpec
-----------------------------------------------------------------------------
(* What no window and no refresh can take away.                            *)

\* A turn whose narration is visible waits for no roll.
ClearStage == \A t \in Turn : turnStatus[t] = "streaming" => rolling[t] = None

\* What a step leaves of a turn that is being narrated, and of one that begins to be.
Respects ==
  \A t \in Turn :
    /\ turnStatus[t] = "streaming" =>
         turnInputs'[t] = turnInputs[t] /\ current'[t] = current[t] /\ rolling'[t] = None
    /\ turnStatus'[t] = "streaming" => turnStatus[t] = "streaming" \/ rolling'[t] = None

\* The turn rows but one, which is not being narrated and does not begin to be.
LEMMA OneTurnRespects ==
  ASSUME ClearStage, NEW t, t \in Turn => turnStatus[t] # "streaming" /\ turnStatus'[t] # "streaming",
         \A u \in Turn : u # t =>
           /\ turnStatus'[u] = turnStatus[u] /\ turnInputs'[u] = turnInputs[u]
           /\ current'[u] = current[u] /\ rolling'[u] = rolling[u]
  PROVE  Respects
  BY DEF ClearStage, Respects

LEMMA SucceedRespects ==
  ASSUME Typed, ClearStage, NEW t \in Turn, NEW how, NEW S, turnStatus[t] # "streaming",
         Succeed(t, how, S), rolling' = rolling,
         \A u \in Turn : u # t => turnInputs'[u] = turnInputs[u]
  PROVE  Respects
<1>1. /\ turnStatus'[t] = "pending"
      /\ \A u \in Turn : u # t => turnStatus'[u] = turnStatus[u] /\ current'[u] = current[u]
  BY RowTypes DEF Succeed, CreateAttempt
<1>2. QED
  BY <1>1, OneTurnRespects

LEMMA RetryRespects ==
  ASSUME Typed, ClearStage, NEW t \in Turn, NEW S, CanRetry(t), FreshAttemptFromOld(t, S)
  PROVE  Respects
<1>1. rolling' = rolling /\ \A u \in Turn : u # t => turnInputs'[u] = turnInputs[u]
  BY RowTypes DEF FreshAttemptFromOld
<1>2. QED
  BY <1>1, SucceedRespects DEF FreshAttemptFromOld, CanRetry

LEMMA CoordinateRespects ==
  ASSUME Typed, ClearStage, NEW S, CoordinateTurn(S)
  PROVE  Respects
<1>1. CASE OpenTurn(S)
  <2>1. PICK t \in Turn, a \in Attempt :
          /\ FreshTurn(t) /\ CreateAttempt(a, t, S)
          /\ turnStatus' = [turnStatus EXCEPT ![t] = "pending"]
          /\ turnInputs' = [turnInputs EXCEPT ![t] = S]
    BY <1>1 DEF OpenTurn
  <2>2. QED
    BY <1>1, <2>1, OneTurnRespects, RowTypes DEF OpenTurn, FreshTurn, CreateAttempt
<1>2. ASSUME NEW t \in ActiveTurns, Widens(t), Succeed(t, "superseded", S),
             turnInputs' = [turnInputs EXCEPT ![t] = S], UNCHANGED rolling
      PROVE  Respects
  BY <1>2, SucceedRespects, RowTypes DEF Widens, ActiveTurns
<1>3. ASSUME NEW t \in ActiveTurns, CanRetry(t), FreshAttemptFromOld(t, S)
      PROVE  Respects
  BY <1>3, RetryRespects DEF ActiveTurns
<1>4. CASE UNCHANGED <<turnRows, attemptRows>>
  BY <1>4 DEF turnRows, ClearStage, Respects
<1>5. QED
  BY <1>1, <1>2, <1>3, <1>4 DEF CoordinateTurn

\* What leaves the current attempts, the inputs and the pending rolls alone.
LEMMA InPlaceRespects ==
  ASSUME ClearStage, UNCHANGED <<turnInputs, current, rolling>>,
         \A t \in Turn : turnStatus'[t] = "streaming" => turnStatus[t] = "streaming" \/ rolling[t] = None
  PROVE  Respects
  BY DEF ClearStage, Respects

LEMMA WriteRespects ==
  ASSUME Typed, ClearStage, NEW x \in Executor, NEW what,
         what = "refresh" => turnStatus[turnOf[job[x]]] = "pending", Write(x, what)
  PROVE  Respects
<1>1. ASSUME NEW how, Requeue(x, how) PROVE Respects
  BY <1>1, InPlaceRespects DEF Requeue, turnRows
<1>2. CASE FailVisibly(x)
  <2>1. \A t \in Turn : turnStatus'[t] = "streaming" => turnStatus[t] = "streaming"
    BY <1>2, RowTypes DEF FailVisibly
  <2>2. UNCHANGED <<turnInputs, current, rolling>>
    BY <1>2 DEF FailVisibly
  <2>3. QED
    BY <2>1, <2>2, InPlaceRespects
<1>3. CASE Refresh(x) /\ turnStatus[turnOf[job[x]]] = "pending"
  <2>1. PICK a \in Attempt : CreateAttempt(a, turnOf[job[x]], inputs[job[x]])
    BY <1>3 DEF Refresh
  <2>2. /\ turnStatus' = turnStatus /\ turnInputs' = turnInputs /\ rolling' = rolling
        /\ \A u \in Turn : u # turnOf[job[x]] => current'[u] = current[u]
    BY <1>3, <2>1, RowTypes DEF Refresh, CreateAttempt
  <2>3. QED
    BY <1>3, <2>2, OneTurnRespects
<1>4. QED
  BY <1>1, <1>2, <1>3 DEF Write

LEMMA DecideRespects ==
  ASSUME Typed, ClearStage, NEW x \in Executor, NEW what,
         what = "refresh" => turnStatus[turnOf[job[x]]] = "pending", Decide(x, what)
  PROVE  Respects
<1>1. CASE UNCHANGED turnRows
  BY <1>1, InPlaceRespects DEF turnRows
<1>2. QED
  BY <1>1, WriteRespects DEF Decide

LEMMA RecordFailureRespects ==
  ASSUME Typed, ClearStage, NEW x \in Executor, NEW retriable, RecordFailure(x, retriable)
  PROVE  Respects
  BY DecideRespects, InPlaceRespects DEF RecordFailure, GiveUp, turnRows

LEMMA DeferArchivedRespects ==
  ASSUME Typed, ClearStage, NEW x \in Executor, DeferArchived(x)
  PROVE  Respects
  BY DecideRespects, InPlaceRespects DEF DeferArchived, GiveUp, turnRows

LEMMA CommitTurnRespects ==
  ASSUME Typed, ClearStage, NEW x \in Executor, NEW silent \in BOOLEAN,
         CommitTurn(x, silent)
  PROVE  Respects
<1>1. ASSUME NEW retriable, RecordFailure(x, retriable) PROVE Respects
  BY <1>1, RecordFailureRespects
<1>2. CASE DiscardResult(x, job[x])
  BY <1>2, InPlaceRespects DEF DiscardResult, turnRows
<1>3. CASE ReplayCommit(job[x], silent) /\ GoIdle(x)
  BY <1>3, InPlaceRespects, RowTypes DEF ReplayCommit
<1>4. CASE FailCommit(x)
  <2>1. Write(x, "fail") \/ Decide(x, "fail")
    BY <1>4 DEF FailCommit, Write
  <2>2. QED
    BY <2>1, WriteRespects, DecideRespects
<1>5. CASE Promote(job[x]) /\ GoIdle(x)
  BY <1>5, InPlaceRespects, RowTypes DEF Promote
<1>6. CASE DeferArchived(x)
  BY <1>6, DeferArchivedRespects
<1>7. CASE UNCHANGED turnRows
  BY <1>7, InPlaceRespects DEF turnRows
<1>8. QED
  BY <1>1, <1>2, <1>3, <1>4, <1>5, <1>6, <1>7 DEF CommitTurn

\* A refresh that is written over rows that have moved on.
LateRefresh(x) == phase[x] = "refresh" /\ ~Stands(x) /\ FinishWrite(x)

LEMMA ExecuteRespects ==
  ASSUME Typed, ClearStage, NEW x \in Executor, Execute(x)
  PROVE  Respects \/ LateRefresh(x)
<1> USE DEF turnRows
<1>1. ASSUME NEW a \in Attempt, Begin(x, a) PROVE Respects
  BY <1>1, InPlaceRespects DEF Begin
<1>2. CASE DeferBackpressured(x) \/ Crash(x)
  BY <1>2, InPlaceRespects DEF DeferBackpressured, Crash
<1>3. CASE RefreshStale(x) \/ DeferForCatchUp(x)
  BY <1>3, DecideRespects DEF RefreshStale, NeedsRefresh, DeferForCatchUp
<1>4. CASE MarkRunning(x)
  BY <1>4, InPlaceRespects DEF MarkRunning
<1>5. CASE AssembleContext(x)
  <2>1. CASE RecordFailure(x, FALSE)
    BY <2>1, RecordFailureRespects
  <2>2. CASE GoTo(x, "adjudicated") /\ UNCHANGED turnRows
    BY <2>2, InPlaceRespects
  <2>3. QED
    BY <1>5, <2>1, <2>2 DEF AssembleContext
<1>6. CASE AdjudicationFails(x)
  BY <1>6, RecordFailureRespects DEF AdjudicationFails
<1>7. CASE ArchivedAtBoundary(x)
  BY <1>7, DeferArchivedRespects DEF ArchivedAtBoundary
<1>8. CASE RequestRolls(x)
  <2> DEFINE t == turnOf[job[x]]
  <2>1. CASE RecordFailure(x, FALSE)
    BY <2>1, RecordFailureRespects
  <2>2. CASE ~RecordFailure(x, FALSE)
    <3>1. /\ turnStatus[t] \in {"pending", "awaiting_roll"} /\ GoIdle(x)
          /\ turnStatus' = [turnStatus EXCEPT ![t] = "awaiting_roll"]
          /\ rolling' = [rolling EXCEPT ![t] = job[x]]
          /\ UNCHANGED <<turnInputs, current>>
      BY <1>8, <2>2 DEF RequestRolls
    <3>2. /\ t \in Turn => turnStatus[t] # "streaming" /\ turnStatus'[t] # "streaming"
          /\ \A u \in Turn : u # t => turnStatus'[u] = turnStatus[u] /\ rolling'[u] = rolling[u]
      BY <3>1, RowTypes
    <3>3. QED
      BY <3>1, <3>2, OneTurnRespects
  <2>3. QED
    BY <2>1, <2>2
<1>9. CASE StartStreaming(x)
  <2>1. CASE RecordFailure(x, FALSE)
    BY <2>1, RecordFailureRespects
  <2>2. CASE ~RecordFailure(x, FALSE)
    <3>1. /\ MayStream(job[x]) /\ GoTo(x, "narrating")
          /\ turnStatus' = [turnStatus EXCEPT ![turnOf[job[x]]] = "streaming"]
          /\ UNCHANGED <<turnInputs, current, rolling>>
      BY <1>9, <2>2 DEF StartStreaming
    <3>2. \A t \in Turn : turnStatus'[t] = "streaming" => turnStatus[t] = "streaming" \/ rolling[t] = None
      BY <3>1, RowTypes DEF MayStream
    <3>3. QED
      BY <3>1, <3>2, InPlaceRespects
  <2>3. QED
    BY <2>1, <2>2
<1>10. CASE CompleteStream(x) \/ StreamFails(x)
  BY <1>10, InPlaceRespects DEF CompleteStream, StreamFails
<1>11. CASE Remediate(x)
  BY <1>11, DecideRespects, InPlaceRespects DEF Remediate, GiveUp
<1>12. CASE CommitTurn(x, TRUE) \/ CommitTurn(x, FALSE)
  BY <1>12, CommitTurnRespects
<1>13. CASE FinishWrite(x)
  <2>1. /\ Write(x, phase[x])
        /\ phase[x] = "refresh" => turnStatus[turnOf[job[x]]] = "pending" \/ ~Stands(x)
    BY <1>13 DEF FinishWrite, Stands, NeedsRefresh
  <2>2. QED
    BY <1>13, <2>1, WriteRespects DEF LateRefresh
<1>14. CASE Abort(x)
  <2>1. Write(x, "fail") \/ \E retriable \in BOOLEAN : RecordFailure(x, retriable)
    BY <1>14 DEF Abort, Write
  <2>2. QED
    BY <2>1, WriteRespects, RecordFailureRespects
<1>15. QED
  BY <1>1, <1>2, <1>3, <1>4, <1>5, <1>6, <1>7, <1>8, <1>9, <1>10, <1>11, <1>12, <1>13, <1>14
  DEF Execute

LEMMA AroundRespects ==
  ASSUME Typed, ClearStage, Around
  PROVE  Respects
<1>1. CASE CoordinateStranded \/ \E s \in Submission : Submit(s)
  BY <1>1, CoordinateRespects DEF CoordinateStranded, Submit
<1>2. ASSUME NEW t \in Turn, FulfillRolls(t) PROVE Respects
  <2>1. turnStatus[t] # "streaming" /\ turnStatus'[t] = "pending"
    BY <1>2, RowTypes DEF FulfillRolls, ClearStage
  <2>2. \A u \in Turn : u # t =>
           /\ turnStatus'[u] = turnStatus[u] /\ turnInputs'[u] = turnInputs[u]
           /\ current'[u] = current[u] /\ rolling'[u] = rolling[u]
    BY <1>2, RowTypes DEF FulfillRolls, CreateAttempt
  <2>3. QED
    BY <2>1, <2>2, OneTurnRespects
<1>3. ASSUME NEW t \in Turn, RetryFailedAdjudication(t) \/ AutoRetry(t) PROVE Respects
  BY <1>3, RetryRespects DEF RetryFailedAdjudication, AutoRetry, Retry
<1>4. ASSUME NEW t \in Turn, RecoverPartialStream(t) PROVE Respects
  BY <1>4, InPlaceRespects, RowTypes DEF RecoverPartialStream, Promote
<1>5. ASSUME NEW a \in Attempt, RecoverStuck(a) \/ ReclaimStrandedStreaming(a) PROVE Respects
  BY <1>5, InPlaceRespects, RowTypes DEF RecoverStuck, ReclaimStrandedStreaming, turnRows
<1>6. CASE OtherMutation \/ Archive \/ Restore
  BY <1>6, InPlaceRespects DEF OtherMutation, Archive, Restore, turnRows
<1>7. QED
  BY <1>1, <1>2, <1>3, <1>4, <1>5, <1>6 DEF Around

\* It takes over one turn, and leaves every other one alone.
LEMMA LateRefreshClear ==
  ASSUME Typed, ClearStage, NEW x \in Executor, LateRefresh(x)
  PROVE  /\ ClearStage' /\ turnInputs' = turnInputs
         /\ \A t \in Turn : t # turnOf[job[x]] => current'[t] = current[t]
<1>1. Refresh(x)
  BY DEF LateRefresh, FinishWrite, Write
<1>2. QED
  BY <1>1, RowTypes DEF Refresh, CreateAttempt, ClearStage

\* What a player watches being narrated answers the input it began with,
\* whatever falls between the reads and the writes of an executor: only a
\* refresh of that very turn, written over rows that have moved on, breaks in.
THEOREM InputLocked == Spec => StreamingInputLocked
<1> DEFINE Locks == \A t \in Turn : turnStatus[t] = "streaming" =>
                      \/ turnInputs'[t] = turnInputs[t] /\ current'[t] = current[t]
                      \/ \E x \in Executor : /\ phase[x] = "refresh" /\ turnOf[job[x]] = t
                                            /\ ~Stands(x) /\ FinishWrite(x)
<1>1. Init => Typed /\ ClearStage
  <2>1. Init => ClearStage
    BY DEF Init, ClearStage
  <2>2. QED
    BY <2>1, InitTyped
<1>2. Respects => ClearStage' /\ Locks
  BY DEF Respects, ClearStage
<1>3. ASSUME Typed, ClearStage, NEW x \in Executor, LateRefresh(x) PROVE ClearStage' /\ Locks
  <2>1. Locks
    BY <1>3, LateRefreshClear DEF LateRefresh
  <2>2. QED
    BY <1>3, <2>1, LateRefreshClear
<1>4. ASSUME Typed, ClearStage, Next PROVE ClearStage' /\ Locks
  BY <1>2, <1>3, <1>4, ExecuteRespects, AroundRespects DEF Next, Around
<1>5. Typed /\ ClearStage /\ [Next]_vars => (Typed /\ ClearStage)'
  <2>1. UNCHANGED vars /\ ClearStage => ClearStage'
    BY DEF vars, turnRows, ClearStage
  <2>2. QED
    BY <1>4, <2>1, TypedStep
<1>6. Spec => [][Locks]_vars
  BY <1>1, <1>4, <1>5, PTL DEF Spec
<1>7. QED
  BY <1>6 DEF StreamingInputLocked

-----------------------------------------------------------------------------
(* What is done with stays done with.                                      *)

Buries == \A a \in Attempt : status[a] \in DeadStatus => status'[a] \in DeadStatus

\* One attempt changes, and was not dead or stays so.
LEMMA OneBuries ==
  ASSUME Typed, NEW a, NEW how, status[a] \notin DeadStatus \/ how \in DeadStatus,
         status' = [status EXCEPT ![a] = how]
  PROVE  Buries
  BY RowTypes DEF Buries

\* Two attempts change: the fresh one, and the one it takes over from.
LEMMA SucceedBuries ==
  ASSUME Typed, NEW old, NEW a \in Attempt, NEW how,
         FreshAttempt(a), status[old] \notin DeadStatus \/ how \in DeadStatus,
         status' = [status EXCEPT ![old] = how, ![a] = "prepared"]
  PROVE  Buries
<1>1. status[a] \notin DeadStatus
  BY DEF FreshAttempt, DeadStatus
<1>2. QED
  BY <1>1, RowTypes DEF Buries

\* A write may raise only the attempt it goes to.
LEMMA WriteBuries ==
  ASSUME Typed, NEW x \in Executor, NEW what, Write(x, what)
  PROVE  \A a \in Attempt : a # job[x] \/ status[a] \notin DeadStatus =>
           (status[a] \in DeadStatus => status'[a] \in DeadStatus)
<1>1. CASE \E how : Requeue(x, how)
  BY <1>1, RowTypes DEF Requeue
<1>2. CASE FailVisibly(x)
  BY <1>2, RowTypes DEF FailVisibly
<1>3. CASE Refresh(x)
  BY <1>3, SucceedBuries DEF Refresh, CreateAttempt, Buries, DeadStatus
<1>4. QED
  BY <1>1, <1>2, <1>3 DEF Write

LEMMA DecideBuries ==
  ASSUME Typed, NEW x \in Executor, NEW what, status[job[x]] \notin DeadStatus,
         Write(x, what) \/ Decide(x, what)
  PROVE  Buries
  BY WriteBuries DEF Decide, Buries, attemptRows

LEMMA RecordFailureBuries ==
  ASSUME Typed, NEW x \in Executor, NEW retriable, RecordFailure(x, retriable)
  PROVE  Buries
<1>1. CASE GiveUp(x)
  BY <1>1 DEF GiveUp, Buries, attemptRows
<1>2. CASE status[job[x]] \in {"prepared", "running", "streaming"} /\ \E what : Decide(x, what)
  BY <1>2, DecideBuries DEF DeadStatus
<1>3. QED
  BY <1>1, <1>2 DEF RecordFailure

LEMMA DeferArchivedBuries ==
  ASSUME Typed, NEW x \in Executor, DeferArchived(x)
  PROVE  Buries
<1>1. CASE GiveUp(x)
  BY <1>1 DEF GiveUp, Buries, attemptRows
<1>2. CASE status[job[x]] = "running" /\ Decide(x, "requeue")
  BY <1>2, DecideBuries DEF DeadStatus
<1>3. QED
  BY <1>1, <1>2 DEF DeferArchived

LEMMA CommitTurnBuries ==
  ASSUME Typed, NEW x \in Executor, NEW silent \in BOOLEAN, CommitTurn(x, silent)
  PROVE  Buries
<1> DEFINE a == job[x]
<1>1. ASSUME NEW retriable, RecordFailure(x, retriable) PROVE Buries
  BY <1>1, RecordFailureBuries
<1>2. CASE DiscardResult(x, a) \/ ReplayCommit(a, silent) \/ Promote(a)
  BY <1>2, OneBuries DEF DiscardResult, ReplayCommit, Promote, Buries, DeadStatus
<1>3. CASE CommitBoundary(a, silent) /\ FailCommit(x)
  <2>1. status[a] \notin DeadStatus
    BY <1>3 DEF CommitBoundary, DeadStatus
  <2>2. Write(x, "fail") \/ Decide(x, "fail")
    BY <1>3 DEF FailCommit, Write
  <2>3. QED
    BY <2>1, <2>2, DecideBuries
<1>4. CASE DeferArchived(x)
  BY <1>4, DeferArchivedBuries
<1>5. CASE UNCHANGED attemptRows
  BY <1>5 DEF Buries, attemptRows
<1>6. QED
  BY <1>1, <1>2, <1>3, <1>4, <1>5 DEF CommitTurn

LEMMA ExecuteBuries ==
  ASSUME Typed, NEW x \in Executor, Execute(x)
  PROVE  Buries \/ FinishWrite(x)
<1> USE DEF attemptRows
<1>1. ASSUME NEW a \in Attempt, Begin(x, a) PROVE Buries
  BY <1>1 DEF Begin, Buries
<1>2. CASE DeferBackpressured(x) \/ Crash(x) \/ CompleteStream(x) \/ StreamFails(x)
  BY <1>2 DEF DeferBackpressured, Crash, CompleteStream, StreamFails, Buries
<1>3. CASE RefreshStale(x) \/ DeferForCatchUp(x)
  <2>1. status[job[x]] \in {"prepared", "running"} /\ \E what : Decide(x, what)
    BY <1>3 DEF RefreshStale, NeedsRefresh, DeferForCatchUp
  <2>2. QED
    BY <2>1, DecideBuries DEF DeadStatus
<1>4. CASE MarkRunning(x)
  BY <1>4, OneBuries DEF MarkRunning, Buries, DeadStatus
<1>5. CASE AssembleContext(x) \/ AdjudicationFails(x)
  BY <1>5, RecordFailureBuries DEF AssembleContext, AdjudicationFails, Buries
<1>6. CASE ArchivedAtBoundary(x)
  BY <1>6, DeferArchivedBuries DEF ArchivedAtBoundary
<1>7. CASE RequestRolls(x) \/ StartStreaming(x)
  <2>1. CASE RecordFailure(x, FALSE)
    BY <2>1, RecordFailureBuries
  <2>2. ASSUME NEW how, status[job[x]] \notin DeadStatus, status' = [status EXCEPT ![job[x]] = how]
        PROVE  Buries
    BY <2>2, OneBuries
  <2>3. CASE RequestRolls(x) /\ ~RecordFailure(x, FALSE)
    <3>1. status[job[x]] \notin DeadStatus /\ status' = [status EXCEPT ![job[x]] = "awaiting_roll"]
      BY <2>3 DEF RequestRolls, DeadStatus
    <3>2. QED
      BY <2>2, <3>1
  <2>4. CASE StartStreaming(x) /\ ~RecordFailure(x, FALSE)
    <3>1. status[job[x]] \notin DeadStatus /\ status' = [status EXCEPT ![job[x]] = "streaming"]
      BY <2>4 DEF StartStreaming, MayStream, DeadStatus
    <3>2. QED
      BY <2>2, <3>1
  <2>5. QED
    BY <1>7, <2>1, <2>3, <2>4
<1>8. CASE Remediate(x)
  BY <1>8, DecideBuries DEF Remediate, GiveUp, Buries, DeadStatus
<1>9. CASE CommitTurn(x, TRUE) \/ CommitTurn(x, FALSE)
  BY <1>9, CommitTurnBuries
<1>10. CASE Abort(x)
  <2>1. CASE status[job[x]] = "streaming" /\ Write(x, "fail")
    BY <2>1, DecideBuries DEF DeadStatus
  <2>2. QED
    BY <1>10, <2>1, RecordFailureBuries DEF Abort, Write
<1>11. QED
  BY <1>1, <1>2, <1>3, <1>4, <1>5, <1>6, <1>7, <1>8, <1>9, <1>10 DEF Execute

LEMMA AroundBuries ==
  ASSUME Typed, Around
  PROVE  Buries
<1> USE DEF attemptRows
<1>1. ASSUME NEW t, NEW how \in {"superseded", "abandoned"}, NEW S, Succeed(t, how, S) PROVE Buries
  <2>1. how \in DeadStatus
    BY DEF DeadStatus
  <2>2. QED
    BY <1>1, <2>1, SucceedBuries DEF Succeed, CreateAttempt
<1>2. ASSUME NEW S, CoordinateTurn(S) PROVE Buries
  <2>1. CASE OpenTurn(S)
    <3>1. PICK a \in Attempt : status[a] = "none" /\ status' = [status EXCEPT ![a] = "prepared"]
      BY <2>1 DEF OpenTurn, CreateAttempt, FreshAttempt
    <3>2. status[a] \notin DeadStatus
      BY <3>1 DEF DeadStatus
    <3>3. QED
      BY <3>1, <3>2, OneBuries
  <2>2. CASE UNCHANGED attemptRows
    BY <2>2 DEF Buries
  <2>3. QED
    BY <1>1, <1>2, <2>1, <2>2 DEF CoordinateTurn, FreshAttemptFromOld
<1>3. CASE CoordinateStranded \/ \E s \in Submission : Submit(s)
  BY <1>2, <1>3 DEF CoordinateStranded, Submit
<1>4. ASSUME NEW t \in Turn, FulfillRolls(t) PROVE Buries
  BY <1>4, SucceedBuries DEF FulfillRolls, CreateAttempt, DeadStatus
<1>5. ASSUME NEW t \in Turn, RetryFailedAdjudication(t) \/ AutoRetry(t) PROVE Buries
  BY <1>1, <1>5 DEF RetryFailedAdjudication, AutoRetry, Retry, FreshAttemptFromOld
<1>6. ASSUME NEW t \in Turn, RecoverPartialStream(t) PROVE Buries
  BY <1>6, OneBuries DEF RecoverPartialStream, Promote, DeadStatus
<1>7. ASSUME NEW a \in Attempt, RecoverStuck(a) \/ ReclaimStrandedStreaming(a) PROVE Buries
  BY <1>7, OneBuries DEF RecoverStuck, ReclaimStrandedStreaming, Reclaimable, DeadStatus
<1>8. CASE OtherMutation \/ Archive \/ Restore
  BY <1>8 DEF OtherMutation, Archive, Restore, Buries
<1>9. QED
  BY <1>3, <1>4, <1>5, <1>6, <1>7, <1>8 DEF Around

\* "Superseded work is never resurrected", with the one exception the unlocked
\* reads leave open: a write that was decided on while its attempt was alive
\* and comes after its end.
THEOREM DeadStays == Spec => DeadStaysDead
<1> DEFINE Ends == \A a \in Attempt : status[a] \in DeadStatus =>
                     \/ status'[a] \in DeadStatus
                     \/ \E x \in Executor : job[x] = a /\ ~Stands(x) /\ FinishWrite(x)
<1>1. Buries => Ends
  BY DEF Buries
<1>2. ASSUME Typed, NEW x \in Executor, FinishWrite(x) PROVE Ends
  <2>1. ASSUME NEW a \in Attempt, status[a] \in DeadStatus, status'[a] \notin DeadStatus
        PROVE  job[x] = a /\ ~Stands(x)
    <3>1. job[x] = a
      BY <1>2, <2>1, WriteBuries DEF FinishWrite
    <3>2. QED
      BY <2>1, <3>1 DEF Stands, NeedsRefresh, DeadStatus
  <2>2. QED
    BY <1>2, <2>1
<1>3. ASSUME Typed, Next PROVE Ends
  BY <1>1, <1>2, <1>3, ExecuteBuries, AroundBuries DEF Next, Around
<1>4. Typed /\ [Next]_vars => Typed'
  BY TypedStep
<1>5. Spec => [][Ends]_vars
  BY <1>3, <1>4, InitTyped, PTL DEF Spec
<1>6. QED
  BY <1>5 DEF DeadStaysDead
=============================================================================
