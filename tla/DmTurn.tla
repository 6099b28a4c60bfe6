------------------------------ MODULE DmTurn ------------------------------
(***************************************************************************)
(* One thread of one campaign, from accepted player input to a committed   *)
(* DM turn: submissions, turns, attempts, narration streams and the        *)
(* campaign row (app/dm/turns.py, execution.py, recovery.py,               *)
(* ownership.py, app/rolls/service.py, app/submissions/service.py).        *)
(*                                                                         *)
(* A step is one database transaction.  Model calls and everything else    *)
(* between two transactions is a program counter of an executor.  What the *)
(* rest of the campaign does (other threads, world edits, clocks) is       *)
(* OtherMutation, which only moves the revision.                           *)
(***************************************************************************)
EXTENDS Naturals, FiniteSets

CONSTANTS Submission,    \* player submissions that may be sent
          Executor,      \* processes that execute attempts
          MaxTurns,      \* bound: turns of the thread
          MaxAttempts,   \* bound: attempts of all its turns
          MaxUpsets,     \* bound: what the environment does of its own accord
          Upsets,        \* the kinds of things it may do
          CrashPoints,   \* the phases of an executor at which it may die
          Windows        \* the writes before which other steps fall, after the
                         \* unlocked read that decided on them

ASSUME BoundsAssumption ==
  /\ MaxTurns \in Nat \ {0} /\ MaxAttempts \in Nat \ {0} /\ MaxUpsets \in Nat
Turn == 1..MaxTurns
Attempt == 1..MaxAttempts
None == 0

VARIABLES
  revision, archived,                     \* the campaign row
  submission,                             \* resolution_status of each submission
  turnStatus, turnInputs, current,        \* the dm_turns rows
  rolling,       \* the attempt whose roll requests of the turn are pending
  autoRetried,   \* turns that used up their automatic retry
  status, turnOf, inputs, basedOn,        \* the dm_turn_attempts rows
  mark,          \* what next_retry_at and last_error say of an attempt
  stream,        \* the narration stream of an attempt
  committed,     \* attempts whose commit is in the domain event feed
  phase, job, owned,   \* of each executor: program counter, attempt, advisory lock
  upsets,
  late           \* history: a write came to rows that had moved on from its read

campaign == <<revision, archived>>
turnRows == <<turnStatus, turnInputs, current, rolling, autoRetried>>
attemptRows == <<status, turnOf, inputs, basedOn, mark, stream>>
executors == <<phase, job, owned>>
history == <<upsets, late>>
vars == <<campaign, submission, turnRows, attemptRows, committed, executors, history>>

ActiveStatus == {"pending", "awaiting_roll", "streaming", "failed_visible"}
TurnStatus == ActiveStatus \cup {"none", "succeeded"}
LiveStatus == {"prepared", "running", "awaiting_roll", "streaming", "failed_visible"}
DeadStatus == {"succeeded", "superseded", "discarded", "abandoned"}
AttemptStatus == LiveStatus \cup DeadStatus \cup {"none"}
StreamStatus == {"none", "streaming", "completed", "failed", "abandoned"}

\* A write that follows an unlocked read: a requeue with or without an error,
\* a visible failure, a supersession by the backpressure refresh.
WriteBack == {"requeue", "postpone", "fail", "refresh"}
ASSUME WindowsAssumption == Windows \subseteq WriteBack

Phase == {"idle", "claiming", "claimed", "adjudicated", "narrating", "broken", "narrated",
          "aborted"} \cup WriteBack

TypeOK ==
  /\ revision \in Nat /\ archived \in BOOLEAN
  /\ submission \in [Submission -> {"unsent", "accepted", "resolved"}]
  /\ turnStatus \in [Turn -> TurnStatus]
  /\ turnInputs \in [Turn -> SUBSET Submission]
  /\ current \in [Turn -> Attempt \cup {None}]
  /\ rolling \in [Turn -> Attempt \cup {None}]
  /\ autoRetried \in SUBSET Turn
  /\ status \in [Attempt -> AttemptStatus]
  /\ turnOf \in [Attempt -> Turn \cup {None}]
  /\ inputs \in [Attempt -> SUBSET Submission]
  /\ basedOn \in [Attempt -> Nat]
  /\ mark \in [Attempt -> {"clean", "delayed", "erred"}]
  /\ stream \in [Attempt -> StreamStatus]
  /\ committed \in SUBSET Attempt
  /\ phase \in [Executor -> Phase]
  /\ job \in [Executor -> Attempt \cup {None}]
  /\ owned \in [Executor -> Attempt \cup {None}]
  /\ upsets \in Nat /\ late \in BOOLEAN

Init ==
  /\ revision = 0 /\ archived = FALSE
  /\ submission = [s \in Submission |-> "unsent"]
  /\ turnStatus = [t \in Turn |-> "none"]
  /\ turnInputs = [t \in Turn |-> {}]
  /\ current = [t \in Turn |-> None]
  /\ rolling = [t \in Turn |-> None]
  /\ autoRetried = {}
  /\ status = [a \in Attempt |-> "none"]
  /\ turnOf = [a \in Attempt |-> None]
  /\ inputs = [a \in Attempt |-> {}]
  /\ basedOn = [a \in Attempt |-> 0]
  /\ mark = [a \in Attempt |-> "clean"]
  /\ stream = [a \in Attempt |-> "none"]
  /\ committed = {}
  /\ phase = [x \in Executor |-> "idle"]
  /\ job = [x \in Executor |-> None]
  /\ owned = [x \in Executor |-> None]
  /\ upsets = 0 /\ late = FALSE

UpsetKind == {"lag", "catchup", "provider", "rolls", "break", "retry", "continue",
              "crash", "mutation", "archive"}
ASSUME UpsetsAssumption == Upsets \subseteq UpsetKind

Upset(kind) == kind \in Upsets /\ upsets < MaxUpsets /\ upsets' = upsets + 1 /\ UNCHANGED late

ActiveTurns == {t \in Turn : turnStatus[t] \in ActiveStatus}
FreshTurn(t) == turnStatus[t] = "none" /\ \A u \in Turn : u < t => turnStatus[u] # "none"
FreshAttempt(a) == status[a] = "none" /\ \A b \in Attempt : b < a => status[b] # "none"

-----------------------------------------------------------------------------
(* Coordination: unresolved input becomes a turn with a prepared attempt.  *)

\* create_attempt, for a first attempt and for every successor.
CreateAttempt(a, t, S) ==
  /\ FreshAttempt(a)
  /\ turnOf' = [turnOf EXCEPT ![a] = t]
  /\ inputs' = [inputs EXCEPT ![a] = S]
  /\ basedOn' = [basedOn EXCEPT ![a] = revision]
  /\ current' = [current EXCEPT ![t] = a]
  /\ UNCHANGED mark

OpenTurn(S) ==
  /\ ActiveTurns = {}
  /\ \E t \in Turn, a \in Attempt :
       /\ FreshTurn(t)
       /\ CreateAttempt(a, t, S)
       /\ status' = [status EXCEPT ![a] = "prepared"]
       /\ turnStatus' = [turnStatus EXCEPT ![t] = "pending"]
       /\ turnInputs' = [turnInputs EXCEPT ![t] = S]
  /\ UNCHANGED <<rolling, autoRetried, stream>>

\* The turn goes on with a fresh attempt over S; the old one ends as "how".
Succeed(t, how, S) ==
  /\ \E a \in Attempt :
       /\ CreateAttempt(a, t, S)
       /\ status' = [status EXCEPT ![current[t]] = how, ![a] = "prepared"]
  /\ turnStatus' = [turnStatus EXCEPT ![t] = "pending"]

\* _fresh_attempt_from_old: every retry of a visibly failed turn.  (RetryKeepsOld
\* and the definitions marked "fault:" below are faults the checks must notice.)
RetryKeepsOld(t, S) ==
  /\ Succeed(t, "failed_visible", S)
  /\ turnInputs' = [turnInputs EXCEPT ![t] = S]
  /\ UNCHANGED <<rolling, stream>>
FreshAttemptFromOld(t, S) ==
  /\ Succeed(t, "abandoned", S)
  /\ turnInputs' = IF S = inputs[current[t]] THEN turnInputs
                   ELSE [turnInputs EXCEPT ![t] = S]
  /\ stream' = IF stream[current[t]] = "none" THEN stream
               ELSE [stream EXCEPT ![current[t]] = "abandoned"]
  /\ UNCHANGED rolling

CanRetry(t) ==
  /\ turnStatus[t] = "failed_visible" /\ current[t] # None
  /\ status[current[t]] = "failed_visible"

\* New input widens a turn nothing of which is visible, and retries one that
\* failed; any other active turn makes it wait (StreamBoundaryError and
\* TurnConflictError, which the endpoint swallows).
\* fault: the stream boundary is forgotten
WidensStreaming(t) == turnStatus[t] \in {"pending", "streaming"}
Widens(t) == turnStatus[t] = "pending" /\ status[current[t]] \in {"prepared", "running", "discarded"}

CoordinateTurn(S) ==
  \/ OpenTurn(S)
  \/ \E t \in ActiveTurns :
       \/ /\ S # turnInputs[t] /\ Widens(t)
          /\ Succeed(t, "superseded", S)
          /\ turnInputs' = [turnInputs EXCEPT ![t] = S]
          /\ UNCHANGED <<rolling, autoRetried, stream>>
       \/ /\ S # turnInputs[t] /\ CanRetry(t)
          /\ FreshAttemptFromOld(t, S)
          /\ UNCHANGED autoRetried
       \/ /\ S = turnInputs[t] \/ ~(Widens(t) \/ CanRetry(t))
          /\ UNCHANGED <<turnRows, attemptRows>>

Unresolved == {s \in Submission : submission[s] = "accepted"}

\* POST /submissions: acceptance and coordination commit together.
Submit(s) ==
  /\ ~archived
  /\ submission[s] = "unsent"
  /\ submission' = [submission EXCEPT ![s] = "accepted"]
  /\ CoordinateTurn(Unresolved \cup {s})
  /\ UNCHANGED <<campaign, committed, executors, history>>

\* Accepted input that no active turn holds up.  fault: only on a thread that
\* never had a turn
StrandedFirst == Unresolved # {} /\ \A t \in Turn : turnStatus[t] = "none"
Stranded == Unresolved # {} /\ ActiveTurns = {}

\* The sweep coordinates input that was accepted while a turn blocked it.
CoordinateStranded ==
  /\ ~archived /\ Stranded
  /\ CoordinateTurn(Unresolved)
  /\ UNCHANGED <<campaign, submission, committed, executors, history>>

-----------------------------------------------------------------------------
(* Writes that follow an unlocked read, and how an executor gets to them.  *)

GoIdle(x) ==
  /\ phase' = [phase EXCEPT ![x] = "idle"]
  /\ job' = [job EXCEPT ![x] = None]
  /\ owned' = [owned EXCEPT ![x] = None]

GoTo(x, next) == phase' = [phase EXCEPT ![x] = next] /\ UNCHANGED <<job, owned>>

\* Requeued with last_error ("erred") or, for a post-turn catch-up, without.
Requeue(x, how) ==
  /\ status' = [status EXCEPT ![job[x]] = "prepared"]
  /\ mark' = [mark EXCEPT ![job[x]] = IF how = "delayed" /\ @ = "erred" THEN @ ELSE how]
  /\ GoIdle(x)
  /\ UNCHANGED <<turnRows, turnOf, inputs, basedOn, stream>>

\* fault: the attempt fails but its turn is left as it was
FailsAttemptAlone(x) ==
  /\ status' = [status EXCEPT ![job[x]] = "failed_visible"]
  /\ GoIdle(x)
  /\ UNCHANGED <<turnRows, turnOf, inputs, basedOn, mark, stream>>

\* mark_attempt_failed(visible=True).  The unique index on active turns
\* refuses to reopen a turn beside another one, and the failure is only logged.
FailVisibly(x) ==
  LET t == turnOf[job[x]] IN
  /\ IF ActiveTurns \subseteq {t}
     THEN /\ status' = [status EXCEPT ![job[x]] = "failed_visible"]
          /\ turnStatus' = [turnStatus EXCEPT ![t] = "failed_visible"]
     ELSE UNCHANGED <<status, turnStatus>>
  /\ GoIdle(x)
  /\ UNCHANGED <<turnInputs, current, rolling, autoRetried,
                 turnOf, inputs, basedOn, mark, stream>>

\* _refresh_backpressured_stale_attempt: the executor goes on with the fresh
\* attempt under the advisory lock of the old one.
Refresh(x) ==
  /\ \E a \in Attempt :
       /\ CreateAttempt(a, turnOf[job[x]], inputs[job[x]])
       /\ status' = [status EXCEPT ![job[x]] = "superseded", ![a] = "prepared"]
       /\ job' = [job EXCEPT ![x] = a]
  /\ phase' = [phase EXCEPT ![x] = "claiming"]
  /\ UNCHANGED <<turnStatus, turnInputs, rolling, autoRetried, stream, owned>>

Write(x, what) ==
  \/ what = "requeue" /\ Requeue(x, "erred")
  \/ what = "postpone" /\ Requeue(x, "delayed")
  \/ what = "fail" /\ FailVisibly(x)
  \/ what = "refresh" /\ Refresh(x)

Decide(x, what) ==
  IF what \in Windows THEN GoTo(x, what) /\ UNCHANGED <<turnRows, attemptRows>>
  ELSE Write(x, what)

GiveUp(x) == GoIdle(x) /\ UNCHANGED <<turnRows, attemptRows>>

\* _record_failure: what it reads decides what it will write.
RecordFailure(x, retriable) ==
  LET a == job[x]
      crossed == turnStatus[turnOf[a]] \in {"streaming", "failed_visible"}
  IN IF status[a] \notin {"prepared", "running", "streaming"} THEN GiveUp(x)
     ELSE Decide(x, IF retriable /\ ~crossed THEN "requeue" ELSE "fail")

DeferArchived(x) == IF status[job[x]] = "running" THEN Decide(x, "requeue") ELSE GiveUp(x)

\* What a refresh is decided on.
NeedsRefresh(a) ==
  LET t == turnOf[a] IN
  /\ mark[a] = "delayed" /\ basedOn[a] # revision
  /\ status[a] = "prepared" /\ turnStatus[t] = "pending"
  /\ current[t] = a /\ turnInputs[t] = inputs[a]

\* The rows still are as the read that decided on the write found them.
Stands(x) ==
  LET a == job[x]
      open == IF phase[x] = "fail" THEN {"prepared", "running", "streaming"}
              ELSE {"prepared", "running"}
  IN IF phase[x] = "refresh" THEN NeedsRefresh(a) ELSE status[a] \in open

\* The write goes by id, whatever has become of the rows.
FinishWrite(x) ==
  /\ phase[x] \in WriteBack
  /\ Write(x, phase[x])
  /\ late' = IF Stands(x) THEN late ELSE TRUE
  /\ UNCHANGED <<campaign, submission, committed, upsets>>

-----------------------------------------------------------------------------
(* The spine: claim, context, adjudication.                                *)

\* The advisory lock of the attempt, held to the end of the execution.  fault:
\* it goes with the first commit
LockBriefly(x, a) == (\A y \in Executor : owned[y] # a) /\ UNCHANGED owned
ExecutionOwnership(x, a) ==
  /\ \A y \in Executor : owned[y] # a
  /\ owned' = [owned EXCEPT ![x] = a]

\* execute_dm_attempt: the archive check and the lock.
Begin(x, a) ==
  /\ phase[x] = "idle"
  /\ ~archived
  /\ status[a] = "prepared"
  /\ ExecutionOwnership(x, a)
  /\ phase' = [phase EXCEPT ![x] = "claiming"]
  /\ job' = [job EXCEPT ![x] = a]
  /\ UNCHANGED <<campaign, submission, turnRows, attemptRows, committed, history>>

\* The gate of _claim found post-turn too far behind.
DeferBackpressured(x) ==
  /\ phase[x] = "claiming"
  /\ Upset("lag")
  /\ mark' = [mark EXCEPT ![job[x]] = IF status[job[x]] = "prepared" /\ @ = "clean"
                                      THEN "delayed" ELSE @]
  /\ GoIdle(x)
  /\ UNCHANGED <<campaign, submission, turnRows, committed,
                 status, turnOf, inputs, basedOn, stream>>

RefreshStale(x) ==
  /\ phase[x] = "claiming"
  /\ NeedsRefresh(job[x])
  /\ Decide(x, "refresh")
  /\ UNCHANGED <<campaign, submission, committed, history>>

\* mark_attempt_running: the conditional prepared -> running.
MarkRunning(x) ==
  /\ phase[x] = "claiming"
  /\ ~NeedsRefresh(job[x])
  /\ IF status[job[x]] = "prepared"
     THEN status' = [status EXCEPT ![job[x]] = "running"] /\ GoTo(x, "claimed")
     ELSE UNCHANGED status /\ GoIdle(x)
  /\ UNCHANGED <<campaign, submission, turnRows, committed, history,
                 turnOf, inputs, basedOn, mark, stream>>

\* assemble_attempt_context refuses an attempt that is not its turn's or whose
\* revision has passed; that failure is never requeued.
ContextCurrent(a) ==
  LET t == turnOf[a]
  IN current[t] = a /\ turnInputs[t] = inputs[a] /\ basedOn[a] = revision

AssembleContext(x) ==
  /\ phase[x] = "claimed"
  /\ IF ContextCurrent(job[x])
     THEN GoTo(x, "adjudicated") /\ UNCHANGED <<turnRows, attemptRows>>
     ELSE RecordFailure(x, FALSE)
  /\ UNCHANGED <<campaign, submission, committed, history>>

\* _defer_for_post_turn_catchup: the context overflowed while post-turn lags.
DeferForCatchUp(x) ==
  /\ phase[x] = "claimed"
  /\ Upset("catchup")
  /\ status[job[x]] \in {"prepared", "running"}
  /\ Decide(x, "postpone")
  /\ UNCHANGED <<campaign, submission, committed>>

\* The provider, the validators or the mechanics fail the adjudication.
AdjudicationFails(x) ==
  /\ phase[x] \in {"claimed", "adjudicated"}
  /\ Upset("provider")
  /\ \E retriable \in BOOLEAN : RecordFailure(x, retriable)
  /\ UNCHANGED <<campaign, submission, committed>>

-----------------------------------------------------------------------------
(* The outcomes of a validated contract.                                   *)

\* The dormancy check, and the same refusal by the boundaries below.
ArchivedAtBoundary(x) ==
  /\ phase[x] = "adjudicated" /\ archived
  /\ DeferArchived(x)
  /\ UNCHANGED <<campaign, submission, committed, history>>

\* await_roll: the turn stays open until its players have rolled.
RequestRolls(x) ==
  LET a == job[x] t == turnOf[a] IN
  /\ phase[x] = "adjudicated" /\ ~archived
  /\ Upset("rolls")
  /\ IF /\ current[t] = a
        /\ turnStatus[t] \in {"pending", "awaiting_roll"}
        /\ status[a] \in {"prepared", "running", "awaiting_roll"}
     THEN /\ turnStatus' = [turnStatus EXCEPT ![t] = "awaiting_roll"]
          /\ status' = [status EXCEPT ![a] = "awaiting_roll"]
          /\ rolling' = [rolling EXCEPT ![t] = a]
          /\ GoIdle(x)
          /\ UNCHANGED <<turnInputs, current, autoRetried,
                         turnOf, inputs, basedOn, mark, stream>>
     ELSE RecordFailure(x, FALSE)
  /\ UNCHANGED <<campaign, submission, committed>>

\* The last pending roll is fulfilled: a fresh attempt resumes the turn.
FulfillRolls(t) ==
  /\ rolling[t] # None
  /\ ~archived
  /\ \E a \in Attempt :
       /\ CreateAttempt(a, t, turnInputs[t])
       /\ status' = [status EXCEPT ![rolling[t]] = "superseded", ![a] = "prepared"]
  /\ turnStatus' = [turnStatus EXCEPT ![t] = "pending"]
  /\ rolling' = [rolling EXCEPT ![t] = None]
  /\ UNCHANGED <<campaign, submission, turnInputs, autoRetried, stream,
                 committed, executors, history>>

\* mark_streaming_started: chunk 0 and the stream-start boundary commit as one.
MayStream(a) ==
  LET t == turnOf[a] IN
  /\ rolling[t] = None
  /\ status[a] \in {"prepared", "running"}
  /\ turnStatus[t] = "pending"
  /\ current[t] = a

StartStreaming(x) ==
  LET a == job[x] IN
  /\ phase[x] = "adjudicated" /\ ~archived
  /\ IF MayStream(a)
     THEN /\ turnStatus' = [turnStatus EXCEPT ![turnOf[a]] = "streaming"]
          /\ status' = [status EXCEPT ![a] = "streaming"]
          /\ stream' = [stream EXCEPT ![a] = "streaming"]
          /\ GoTo(x, "narrating")
          /\ UNCHANGED <<turnInputs, current, rolling, autoRetried,
                         turnOf, inputs, basedOn, mark>>
     ELSE RecordFailure(x, FALSE)
  /\ UNCHANGED <<campaign, submission, committed, history>>

CompleteStream(x) ==
  /\ phase[x] = "narrating"
  /\ stream[job[x]] = "streaming"
  /\ stream' = [stream EXCEPT ![job[x]] = "completed"]
  /\ GoTo(x, "narrated")
  /\ UNCHANGED <<campaign, submission, turnRows, committed, history,
                 status, turnOf, inputs, basedOn, mark>>

\* The narration breaks off: the provider fails, or the stream was abandoned
\* by a retry.  The stream is failed first, the attempt after it.
StreamFails(x) ==
  /\ phase[x] = "narrating"
  /\ IF stream[job[x]] = "streaming"
     THEN Upset("break") /\ stream' = [stream EXCEPT ![job[x]] = "failed"]
     ELSE UNCHANGED <<history, stream>>
  /\ GoTo(x, "broken")
  /\ UNCHANGED <<campaign, submission, turnRows, committed,
                 status, turnOf, inputs, basedOn, mark>>

Remediate(x) ==
  /\ phase[x] = "broken"
  /\ IF status[job[x]] = "streaming" THEN Decide(x, "fail") ELSE GiveUp(x)
  /\ UNCHANGED <<campaign, submission, committed, history>>

-----------------------------------------------------------------------------
(* commit_turn.                                                            *)

\* _resolve_turn_submissions: the input of the attempt, not that of the turn.
\* faults: none of it, all accepted input, a status of another table
ResolveNothing(a) == submission
ResolveAnyAccepted(a) ==
  [s \in Submission |-> IF submission[s] = "accepted" THEN "resolved" ELSE submission[s]]
ResolveAsSucceeded(a) ==
  [s \in Submission |-> IF s \in inputs[a] THEN "succeeded" ELSE submission[s]]
ResolveSubmissions(a) ==
  [s \in Submission |-> IF s \in inputs[a] THEN "resolved" ELSE submission[s]]

\* Everything the one commit of a turn writes.
Promote(a) ==
  /\ revision' = revision + 1
  /\ committed' = committed \cup {a}
  /\ turnStatus' = [turnStatus EXCEPT ![turnOf[a]] = "succeeded"]
  /\ status' = [status EXCEPT ![a] = "succeeded"]
  /\ submission' = ResolveSubmissions(a)
  /\ stream' = IF stream[a] = "streaming" THEN [stream EXCEPT ![a] = "completed"] ELSE stream
  /\ UNCHANGED <<archived, turnInputs, current, rolling, autoRetried,
                 turnOf, inputs, basedOn, mark>>

\* The event of this attempt is on record already: only the rows catch up.
ReplayCommit(a, silent) ==
  LET t == turnOf[a] IN
  /\ status' = IF status[a] \in (IF silent THEN {"prepared", "running"} ELSE {"streaming"})
               THEN [status EXCEPT ![a] = "succeeded"] ELSE status
  /\ turnStatus' = IF turnStatus[t] = (IF silent THEN "pending" ELSE "streaming")
                   THEN [turnStatus EXCEPT ![t] = "succeeded"] ELSE turnStatus
  /\ UNCHANGED <<campaign, submission, committed, turnInputs, current, rolling, autoRetried,
                 turnOf, inputs, basedOn, mark, stream>>

CommitBoundary(a, silent) ==
  LET t == turnOf[a] IN
  /\ status[a] \in (IF silent THEN {"prepared", "running"} ELSE {"streaming"})
  /\ turnStatus[t] = (IF silent THEN "pending" ELSE "streaming")
  /\ rolling[t] = None
  /\ \A u \in Turn \ {t} : turnStatus[u] \notin {"awaiting_roll", "streaming", "failed_visible"}

DiscardResult(x, a) ==
  /\ status' = IF status[a] \in {"succeeded", "failed_visible", "superseded"} THEN status
               ELSE [status EXCEPT ![a] = "discarded"]
  /\ GoIdle(x)
  /\ UNCHANGED <<campaign, submission, committed, turnRows,
                 turnOf, inputs, basedOn, mark, stream>>

\* The optimistic guard.
RevisionStands(a) == basedOn[a] = revision

\* _fail_commit_visible over a stale revision: at once, or, when the campaign
\* turns out to have moved under its lock, after a rollback.
FailCommit(x) == FailVisibly(x) \/ Decide(x, "fail")

\* A silent completion passes the playability gate under the campaign lock.
\* fault: only narration is gated
NeverDormant(silent) == FALSE
Dormant(silent) == silent /\ archived

CommitTurn(x, silent) ==
  LET a == job[x] t == turnOf[a]
      Fails(retriable) == /\ RecordFailure(x, retriable)
                          /\ UNCHANGED <<campaign, submission, committed>>
      replays == a \in committed /\ (status[a] = "succeeded" => turnStatus[t] = "succeeded")
  IN
  /\ phase[x] = (IF silent THEN "adjudicated" ELSE "narrated")
  /\ \/ /\ rolling[t] # None \/ (current[t] = a /\ ~replays /\ ~CommitBoundary(a, silent))
        /\ Fails(FALSE) /\ UNCHANGED history
     \/ /\ rolling[t] = None /\ current[t] # a
        /\ DiscardResult(x, a) /\ UNCHANGED history
     \/ /\ rolling[t] = None /\ current[t] = a /\ status[a] # "superseded" /\ replays
        /\ ReplayCommit(a, silent) /\ GoIdle(x) /\ UNCHANGED history
     \/ /\ current[t] = a /\ ~replays /\ CommitBoundary(a, silent)
        /\ \/ /\ ~RevisionStands(a) /\ FailCommit(x)
              /\ UNCHANGED <<campaign, submission, committed, history>>
           \/ RevisionStands(a) /\ ~Dormant(silent) /\ Promote(a) /\ GoIdle(x) /\ UNCHANGED history
           \* the mutation raises and rolls back
           \/ /\ RevisionStands(a) /\ Dormant(silent) /\ DeferArchived(x)
              /\ UNCHANGED <<campaign, submission, committed, history>>
           \/ /\ RevisionStands(a) /\ Upset("provider") /\ GoTo(x, "aborted")
              /\ UNCHANGED <<campaign, submission, committed, turnRows, attemptRows>>

\* The mutation failed and rolled back.  The rows are locked again and looked at
\* before what was narrated is failed; anything else is up to _record_failure.
Abort(x) ==
  /\ phase[x] = "aborted"
  /\ IF status[job[x]] = "streaming" THEN FailVisibly(x)
     ELSE \E retriable \in BOOLEAN : RecordFailure(x, retriable)
  /\ UNCHANGED <<campaign, submission, committed, history>>

-----------------------------------------------------------------------------
(* Recovery: the owner's Retry, the sweep's one automatic retry, the       *)
(* continuation of a partial stream, and the reclaim of dead executors.    *)

Retry(t) ==
  /\ CanRetry(t)
  /\ FreshAttemptFromOld(t, inputs[current[t]])
  /\ UNCHANGED <<campaign, submission, committed, executors>>

\* POST .../retry and .../retry-narration.  Not refused on an archived table.
RetryFailedAdjudication(t) == Upset("retry") /\ Retry(t) /\ UNCHANGED autoRetried

AutoRetry(t) ==
  /\ t \notin autoRetried
  /\ Retry(t)
  /\ autoRetried' = autoRetried \cup {t}
  /\ UNCHANGED history

\* mark_recovered_streaming and commit_turn in one transaction.
RecoverPartialStream(t) ==
  LET a == current[t] IN
  /\ Upset("continue")
  /\ CanRetry(t)
  /\ stream[a] \in {"completed", "failed"}
  /\ rolling[t] = None /\ RevisionStands(a) /\ a \notin committed
  /\ Promote(a)
  /\ UNCHANGED executors

\* The lease of a running attempt ran out and nobody holds its lock.
RecoverStuck(a) ==
  /\ status[a] = "running"
  /\ \A x \in Executor : owned[x] # a
  /\ turnStatus[turnOf[a]] # "streaming"
  /\ status' = [status EXCEPT ![a] = "prepared"]
  /\ mark' = [mark EXCEPT ![a] = "erred"]
  /\ UNCHANGED <<campaign, submission, turnRows, committed, executors, history,
                 turnOf, inputs, basedOn, stream>>

\* Narration ended but nobody is left to commit it.  fault: it is never found
ReclaimsNothing(a) == FALSE
Reclaimable(a) ==
  /\ status[a] = "streaming" /\ stream[a] \in {"completed", "failed"}
  /\ \A x \in Executor : owned[x] # a
  /\ turnStatus[turnOf[a]] = "streaming" /\ current[turnOf[a]] = a

ReclaimStrandedStreaming(a) ==
  /\ Reclaimable(a)
  /\ status' = [status EXCEPT ![a] = "failed_visible"]
  /\ turnStatus' = [turnStatus EXCEPT ![turnOf[a]] = "failed_visible"]
  /\ UNCHANGED <<campaign, submission, turnInputs, current, rolling, autoRetried,
                 committed, executors, history, turnOf, inputs, basedOn, mark, stream>>

\* The process dies: its session rolls back and its advisory lock goes.
Crash(x) ==
  /\ phase[x] \in CrashPoints \ {"idle"}
  /\ Upset("crash")
  /\ GoIdle(x)
  /\ UNCHANGED <<campaign, submission, turnRows, attemptRows, committed>>

-----------------------------------------------------------------------------
(* The rest of the campaign.                                               *)

OtherMutation ==
  /\ Upset("mutation")
  /\ revision' = revision + 1
  /\ UNCHANGED <<archived, submission, turnRows, attemptRows, committed, executors>>

\* Archive is refused while anything is running or visible and unfinished.
Archivable ==
  /\ \A t \in Turn : turnStatus[t] # "streaming"
  /\ \A a \in Attempt : status[a] \notin {"running", "streaming"}

Archive ==
  /\ Upset("archive")
  /\ ~archived /\ Archivable
  /\ archived' = TRUE
  /\ revision' = revision + 1
  /\ UNCHANGED <<submission, turnRows, attemptRows, committed, executors>>

Restore ==
  /\ archived
  /\ archived' = FALSE
  /\ revision' = revision + 1
  /\ UNCHANGED <<submission, turnRows, attemptRows, committed, executors, history>>

-----------------------------------------------------------------------------
Execute(x) ==
  \/ \E a \in Attempt : Begin(x, a)
  \/ DeferBackpressured(x) \/ RefreshStale(x) \/ MarkRunning(x)
  \/ AssembleContext(x) \/ DeferForCatchUp(x) \/ AdjudicationFails(x)
  \/ ArchivedAtBoundary(x) \/ RequestRolls(x)
  \/ StartStreaming(x) \/ CompleteStream(x) \/ StreamFails(x) \/ Remediate(x)
  \/ CommitTurn(x, TRUE) \/ CommitTurn(x, FALSE) \/ Abort(x)
  \/ FinishWrite(x) \/ Crash(x)

Next ==
  \/ \E s \in Submission : Submit(s)
  \/ CoordinateStranded
  \/ \E x \in Executor : Execute(x)
  \/ \E t \in Turn : \/ FulfillRolls(t) \/ RetryFailedAdjudication(t)
                     \/ AutoRetry(t) \/ RecoverPartialStream(t)
  \/ \E a \in Attempt : RecoverStuck(a) \/ ReclaimStrandedStreaming(a)
  \/ OtherMutation \/ Archive \/ Restore

Spec == Init /\ [][Next]_vars

\* An executor that is alive gets on with its attempt; the sweep comes back for
\* ever and finds every prepared attempt, stranded input and failed turn.
Fairness ==
  /\ \A x \in Executor :
       /\ WF_vars(\E a \in Attempt : Begin(x, a))
       /\ WF_vars(RefreshStale(x)) /\ WF_vars(MarkRunning(x))
       /\ WF_vars(AssembleContext(x)) /\ WF_vars(ArchivedAtBoundary(x))
       /\ WF_vars(StartStreaming(x) \/ CommitTurn(x, TRUE))
       /\ WF_vars(CompleteStream(x) \/ StreamFails(x)) /\ WF_vars(Remediate(x))
       /\ WF_vars(CommitTurn(x, FALSE)) /\ WF_vars(Abort(x)) /\ WF_vars(FinishWrite(x))
  /\ WF_vars(CoordinateStranded)
  /\ \A t \in Turn : WF_vars(AutoRetry(t))
  /\ \A a \in Attempt : WF_vars(RecoverStuck(a)) /\ WF_vars(ReclaimStrandedStreaming(a))

FairSpec == Spec /\ Fairness

-----------------------------------------------------------------------------
\* An accepted submission is resolved by exactly one committed attempt, one
\* that contained it; commits never share input (exactly-once promotion across
\* supersession, retries, recovery and replays).
ResolvedOnce ==
  /\ \A s \in Submission : submission[s] = "resolved" <=> \E a \in committed : s \in inputs[a]
  /\ \A a, b \in committed : a # b => inputs[a] \cap inputs[b] = {}

\* A thread has one active turn, and only the current attempt of that turn is
\* alive: nothing that was superseded or retried away can still be claimed, until
\* a requeue, failure or refresh is written over rows that have moved on.
CurrentAlone ==
  \A a \in Attempt : status[a] \in LiveStatus =>
    /\ current[turnOf[a]] = a
    /\ ActiveTurns = {turnOf[a]}
\* The same of every history in which no write has come late.
LiveAttemptIsCurrent == late \/ CurrentAlone

\* A turn and its current attempt are in matching states, so that every active
\* turn has a way on (a claim, a roll, a commit or a retry), until such a write.
RowsMatch ==
  \A t \in ActiveTurns :
    /\ turnStatus[t] = "pending" => status[current[t]] \in {"prepared", "running"}
    /\ turnStatus[t] # "pending" => status[current[t]] = turnStatus[t]
    /\ rolling[t] = IF turnStatus[t] = "awaiting_roll" THEN current[t] ELSE None
\* The same of every history in which no write has come late.
TurnMatchesAttempt == late \/ RowsMatch

\* Once the first chunk is visible the input set of the turn is locked until
\* the turn is resolved or fails, and no other attempt takes over, but for a
\* refresh that was decided on before and is written only now.
StreamingInputLocked ==
  [][\A t \in Turn : turnStatus[t] = "streaming" =>
       \/ turnInputs'[t] = turnInputs[t] /\ current'[t] = current[t]
       \/ \E x \in Executor : /\ phase[x] = "refresh" /\ turnOf[job[x]] = t
                             /\ ~Stands(x) /\ FinishWrite(x)]_vars

\* Superseded, discarded, abandoned and committed work is resurrected by no step
\* (_record_failure: "superseded work is never resurrected") but a write that was
\* decided on while the attempt was alive.
DeadStaysDead ==
  [][\A a \in Attempt : status[a] \in DeadStatus =>
       \/ status'[a] \in DeadStatus
       \/ \E x \in Executor : job[x] = a /\ ~Stands(x) /\ FinishWrite(x)]_vars

\* While the table is archived nothing of it is committed or becomes visible,
\* although the campaign's revision may still move (a clock that strikes).
DormantTableStands ==
  [][archived /\ archived' =>
       /\ committed' = committed /\ submission' = submission
       /\ \A t \in Turn : turnStatus'[t] = "streaming" => turnStatus[t] = "streaming"]_vars

\* What may hold accepted input up for ever is up to people: an archived table,
\* a roll that is owed, a failed turn that used up its automatic retry.
AwaitsPeople ==
  \/ archived
  \/ \E t \in Turn : turnStatus[t] = "awaiting_roll"
  \/ \E t \in autoRetried : turnStatus[t] = "failed_visible"

\* Accepted input is resolved, or the table comes to wait for people: no
\* deferral, requeue, crash or blocked coordination loses it on the way
\* (coordinate_stranded_submissions, auto_retry_failed_turns).
InputAnswered ==
  \A s \in Submission :
    submission[s] = "accepted" ~> (submission[s] = "resolved" \/ AwaitsPeople)

\* What a player sees being narrated comes to an end: committed or failed.
NarrationEnds ==
  \A t \in Turn : turnStatus[t] = "streaming" ~> turnStatus[t] # "streaming"

\* Seen from the players, the thread is a ledger: accepted input waits and is
\* committed in batches, each exactly once and each one revision.
Ledger == INSTANCE TurnLedger
            WITH waiting <- Unresolved, batches <- {inputs[a] : a \in committed}
KeepsLedger == Ledger!LedgerSpec

\* "Dormancy is not failure" (_defer_archived): where nothing but archive and
\* restore ever upsets the table, no attempt fails.
DormancyIsNotFailure == \A a \in Attempt : status[a] # "failed_visible"

\* "Only the owner may claim, execute, or fail this attempt" (execute_dm_attempt):
\* of two executors with one attempt, one has not claimed it.
OneExecutor ==
  \A x, y \in Executor :
    x # y /\ job[x] # None /\ job[x] = job[y] => "claiming" \in {phase[x], phase[y]}
=============================================================================
