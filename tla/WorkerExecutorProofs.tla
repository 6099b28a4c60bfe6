----------------------- MODULE WorkerExecutorProofs -----------------------
(***************************************************************************)
(* Proofs about WorkerExecutor for every set of workers, lease, heartbeat  *)
(* interval, attempt budget and number of faults.                          *)
(***************************************************************************)
EXTENDS WorkerExecutor, TLAPS

-----------------------------------------------------------------------------
\* Tokens identify claims: the row carries the last one while it runs, none
\* otherwise, and two processes never hold the same one.
TokenInv ==
  /\ job.status = "running" => job.token = claims
  /\ job.status # "running" => job.token = NoToken
  /\ \A w \in Worker : worker[w].phase # "idle" => worker[w].token \in 1..claims
  /\ \A v, w \in Worker :
       worker[v].phase # "idle" /\ worker[w].phase # "idle" /\ worker[v].token = worker[w].token
         => v = w

\* A worker that was never held up owns the row, and the lease is no older
\* than the time since its last heartbeat.
BeatInv ==
  \A w \in Worker : worker[w].phase # "idle" /\ worker[w].healthy =>
    ~worker[w].paused /\ Owns(w) /\ job.age <= worker[w].beat /\ worker[w].beat <= Heartbeat

\* A running row without a healthy holder has cost a fault that no earlier
\* takeover was charged with.
FaultInv ==
  /\ lost <= faults
  /\ job.status = "running" /\ (\A w \in Worker : worker[w].phase # "idle" => ~worker[w].healthy)
       => lost + 1 <= faults

\* The attempt budget, status by status.
BudgetInv ==
  /\ job.status \in {"absent", "pending"} => job.attempts = 0
  /\ job.status = "failed" => job.attempts < MaxAttempts
  /\ job.attempts <= MaxAttempts + lost

ResultInv == LastClaimWins /\ OneResult

\* The strengthening that is inductive, relative to TypeOK.
Safe == TokenInv /\ BeatInv /\ FaultInv /\ BudgetInv /\ ResultInv

-----------------------------------------------------------------------------
\* Every variable keeps its type, whatever the interleaving of deliveries,
\* heartbeats, crashes and pauses.
THEOREM TypeCorrect == Spec => []TypeOK
<1> USE AttemptsAssumption, LeaseAssumption, FaultsAssumption
<1>1. Init => TypeOK
  BY DEF Init, TypeOK, Job, Activity, Idle, NoToken, JobStatus, Phase
<1>2. TypeOK /\ [Next]_vars => TypeOK'
  <2> SUFFICES ASSUME TypeOK, [Next]_vars PROVE TypeOK'
    OBVIOUS
  <2> USE DEF NoToken
  <2>a. /\ job.status \in JobStatus /\ job.attempts \in Nat /\ job.token \in Nat
        /\ job.age \in Nat /\ job.due \in BOOLEAN /\ job.result \in Nat
    BY DEF TypeOK, Job
  <2>b. job = [status |-> job.status, attempts |-> job.attempts, token |-> job.token,
               age |-> job.age, due |-> job.due, result |-> job.result]
    BY DEF TypeOK, Job
  <2>c. ASSUME NEW w \in Worker
        PROVE  /\ worker[w].phase \in Phase /\ worker[w].token \in Nat /\ worker[w].beat \in Nat
               /\ worker[w].paused \in BOOLEAN /\ worker[w].healthy \in BOOLEAN
               /\ worker[w] \in Activity
    BY DEF TypeOK, Activity
  <2>d. Idle \in Activity
    BY DEF Activity, Idle, Phase
  <2>e. ASSUME NEW n \in Nat PROVE Handling(n) \in Activity
    BY DEF Activity, Handling, Phase
  <2>f. ASSUME NEW n \in Nat, NEW b \in BOOLEAN
        PROVE  returned \cup {[result |-> n, duplicate |-> b]} \in SUBSET Answer
    <3>1. [result |-> n, duplicate |-> b] \in Answer
      BY DEF Answer
    <3>2. QED
      BY <3>1 DEF TypeOK
  <2>g. LostOwnership => job' \in Job /\ returned' \in SUBSET Answer
    <3>1. returned \cup {[result |-> job.result, duplicate |-> TRUE]} \in SUBSET Answer
      BY <2>a, <2>f
    <3>2. QED
      BY <3>1 DEF LostOwnership, TypeOK
  <2>1. CASE EnsureExecutionExists
    BY <2>1 DEF EnsureExecutionExists, TypeOK, Job, JobStatus
  <2>2. CASE BackoffElapses
    BY <2>2 DEF BackoffElapses, TypeOK, Job
  <2>3. CASE Tick
    <3>1. job' \in Job
      BY <2>3 DEF Tick, TypeOK, Job
    <3>2. worker' \in [Worker -> Activity]
      BY <2>3, <2>c DEF Tick, TypeOK, Activity
    <3>3. QED
      BY <2>3, <3>1, <3>2 DEF Tick, TypeOK
  <2>4. ASSUME NEW w \in Worker, AtomicClaim(w) PROVE TypeOK'
    <3>1. job' = [status |-> "running", attempts |-> job.attempts + 1, token |-> claims + 1,
                  age |-> 0, due |-> job.due, result |-> job.result]
      BY <2>4, <2>b DEF AtomicClaim
    <3>2. job' \in Job
      BY <3>1, <2>a DEF Job, JobStatus, TypeOK
    <3>3. worker' \in [Worker -> Activity]
      BY <2>4, <2>e DEF AtomicClaim, TypeOK
    <3>4. QED
      BY <2>4, <3>2, <3>3 DEF AtomicClaim, TypeOK
  <2>5. ASSUME NEW w \in Worker, DuplicateHit(w) PROVE TypeOK'
    <3>1. returned' \in SUBSET Answer
      BY <2>5, <2>a, <2>f DEF DuplicateHit
    <3>2. QED
      BY <2>5, <3>1 DEF DuplicateHit, TypeOK
  <2>6. ASSUME NEW w \in Worker, RenewWorkerLease(w) PROVE TypeOK'
    <3>1. job' \in Job
      BY <2>6 DEF RenewWorkerLease, TypeOK, Job
    <3>2. worker' \in [Worker -> Activity]
      BY <2>6 DEF RenewWorkerLease, TypeOK, Activity
    <3>3. QED
      BY <2>6, <3>1, <3>2 DEF RenewWorkerLease, TypeOK
  <2>7. ASSUME NEW w \in Worker, HandlerEnds(w) PROVE TypeOK'
    BY <2>7 DEF HandlerEnds, TypeOK, Activity, Phase
  <2>8. ASSUME NEW w \in Worker, CompleteJob(w) PROVE TypeOK'
    <3>1. worker' \in [Worker -> Activity] /\ UNCHANGED <<claims, lost, faults>>
      BY <2>8, <2>d DEF CompleteJob, TypeOK
    <3>2. CASE Owns(w)
      <4>1. job' = [status |-> "succeeded", attempts |-> job.attempts, token |-> 0,
                    age |-> 0, due |-> job.due, result |-> worker[w].token]
        BY <2>8, <3>2, <2>b DEF CompleteJob
      <4>2. job' \in Job
        BY <4>1, <2>a, <2>c DEF Job, JobStatus
      <4>3. returned' \in SUBSET Answer
        BY <2>8, <3>2, <2>c, <2>f DEF CompleteJob
      <4>4. QED
        BY <3>1, <4>2, <4>3 DEF TypeOK
    <3>3. CASE ~Owns(w)
      BY <2>8, <3>3, <3>1, <2>g DEF CompleteJob, TypeOK
    <3>4. QED
      BY <3>2, <3>3
  <2>9. ASSUME NEW w \in Worker, RecordFailure(w) PROVE TypeOK'
    <3>1. worker' \in [Worker -> Activity] /\ UNCHANGED <<claims, lost, faults>>
      BY <2>9, <2>d DEF RecordFailure, TypeOK
    <3>2. CASE Owns(w)
      <4>1. job' = [status |-> FailureStatus(w), attempts |-> job.attempts, token |-> 0,
                    age |-> 0, due |-> FailureStatus(w) # "failed", result |-> job.result]
        BY <2>9, <3>2, <2>b DEF RecordFailure
      <4>2. job' \in Job
        BY <4>1, <2>a DEF Job, JobStatus, FailureStatus
      <4>3. QED
        BY <2>9, <3>1, <3>2, <4>2 DEF RecordFailure, TypeOK
    <3>3. CASE ~Owns(w)
      BY <2>9, <3>3, <3>1, <2>g DEF RecordFailure, TypeOK
    <3>4. QED
      BY <3>2, <3>3
  <2>10. ASSUME NEW w \in Worker, Crash(w) \/ Pause(w) \/ Resume(w) PROVE TypeOK'
    <3>1. ASSUME NEW b \in BOOLEAN, NEW c \in BOOLEAN
          PROVE  [worker[w] EXCEPT !.paused = b, !.healthy = c] \in Activity
      BY <2>c DEF Activity
    <3>2. CASE Crash(w)
      BY <3>2, <2>d DEF Crash, TypeOK
    <3>3. CASE Pause(w)
      <4>1. [worker[w] EXCEPT !.paused = TRUE, !.healthy = FALSE] \in Activity
        BY <3>1
      <4>2. worker' = [worker EXCEPT ![w] = [worker[w] EXCEPT !.paused = TRUE, !.healthy = FALSE]]
        BY <3>3 DEF Pause
      <4>3. worker' \in [Worker -> Activity]
        BY <4>1, <4>2 DEF TypeOK
      <4>4. QED
        BY <3>3, <4>3 DEF Pause, TypeOK
    <3>4. CASE Resume(w)
      BY <3>4, <2>c DEF Resume, TypeOK, Activity
    <3>5. QED
      BY <2>10, <3>2, <3>3, <3>4
  <2>11. CASE UNCHANGED vars
    BY <2>11 DEF vars, TypeOK
  <2>12. QED
    BY <2>1, <2>2, <2>3, <2>4, <2>5, <2>6, <2>7, <2>8, <2>9, <2>10, <2>11 DEF Next, RecordVerdict
<1>3. QED
  BY <1>1, <1>2, PTL DEF Spec
LEMMA InitSafe == Init => Safe
BY AttemptsAssumption, LeaseAssumption, FaultsAssumption
   DEF Init, Safe, TokenInv, BeatInv, FaultInv, BudgetInv, ResultInv, LastClaimWins, OneResult,
       Idle, NoToken

\* What TypeOK says of a row, a process and the counters.
LEMMA Types ==
  ASSUME TypeOK
  PROVE  /\ job.attempts \in Nat /\ job.token \in Nat /\ job.age \in Nat
         /\ claims \in Nat /\ lost \in Nat /\ faults \in Nat
         /\ \A w \in Worker : worker[w].token \in Nat /\ worker[w].beat \in Nat
BY DEF TypeOK, Job, Activity

\* A claim: no healthy process can hold the row it takes over.
LEMMA ClaimSafe ==
  ASSUME TypeOK, Safe, NEW w \in Worker, AtomicClaim(w)
  PROVE  Safe'
<1> USE Types, AttemptsAssumption, LeaseAssumption, FaultsAssumption
<1>1. /\ job'.status = "running" /\ job'.attempts = job.attempts + 1
      /\ job'.token = claims + 1 /\ job'.age = 0 /\ job'.result = job.result
      /\ claims' = claims + 1 /\ faults' = faults /\ returned' = returned
      /\ lost' = IF job.status = "running" THEN lost + 1 ELSE lost
  BY DEF AtomicClaim, TypeOK, Job
<1>2. worker'[w] = Handling(claims + 1) /\ \A v \in Worker \ {w} : worker'[v] = worker[v]
  BY DEF AtomicClaim, TypeOK
<1>3. \A v \in Worker : worker[v].phase # "idle" => ~worker[v].healthy
  <2>1. SUFFICES ASSUME NEW v \in Worker, worker[v].phase # "idle", worker[v].healthy PROVE FALSE
    BY DEF TypeOK, Activity
  <2>2. job.status = "running" /\ job.age <= Heartbeat
    BY <2>1 DEF Safe, BeatInv, Owns
  <2>3. QED
    BY <2>2 DEF AtomicClaim, Claimable
<1>4. TokenInv'
  BY <1>1, <1>2 DEF Safe, TokenInv, Handling
<1>5. BeatInv'
  BY <1>1, <1>2, <1>3 DEF BeatInv, Owns, Handling
<1>6. FaultInv'
  BY <1>1, <1>2, <1>3 DEF Safe, FaultInv, Handling
<1>7. BudgetInv'
  BY <1>1 DEF Safe, BudgetInv, AtomicClaim, Claimable
<1>8. ResultInv'
  BY <1>1 DEF Safe, ResultInv, LastClaimWins, OneResult, AtomicClaim, Claimable
<1>9. QED
  BY <1>4, <1>5, <1>6, <1>7, <1>8 DEF Safe

\* A verdict: the fence admits only the row's owner, whose token is the last
\* claim's; any other worker just becomes idle.
LEMMA VerdictSafe ==
  ASSUME TypeOK, Safe, NEW w \in Worker, RecordVerdict(w)
  PROVE  Safe'
<1> USE Types, AttemptsAssumption, LeaseAssumption, FaultsAssumption
<1>1. /\ worker[w].phase # "idle" /\ claims' = claims /\ lost' = lost /\ faults' = faults
      /\ worker'[w] = Idle /\ \A v \in Worker \ {w} : worker'[v] = worker[v]
  BY DEF RecordVerdict, CompleteJob, RecordFailure, TypeOK
<1>2. CASE ~Owns(w)
  <2>1. job' = job /\ OneResult'
    BY <1>2 DEF RecordVerdict, CompleteJob, RecordFailure, LostOwnership, Safe, ResultInv, OneResult
  <2>2. ~worker[w].healthy
    BY <1>1, <1>2 DEF Safe, BeatInv, TypeOK, Activity
  <2>3. TokenInv'
    BY <1>1, <2>1 DEF Safe, TokenInv, Idle
  <2>4. BeatInv'
    BY <1>1, <2>1 DEF Safe, BeatInv, Owns, Idle
  <2>5. FaultInv'
    BY <1>1, <2>1, <2>2 DEF Safe, FaultInv, Idle
  <2>6. BudgetInv' /\ LastClaimWins'
    BY <1>1, <2>1 DEF Safe, BudgetInv, ResultInv, LastClaimWins
  <2>7. QED
    BY <2>1, <2>3, <2>4, <2>5, <2>6 DEF Safe, ResultInv
<1>3. CASE Owns(w)
  <2>1. /\ job.status = "running" /\ worker[w].token = claims
    BY <1>3 DEF Owns, Safe, TokenInv
  <2>2. \A v \in Worker : worker'[v].phase # "idle" => v # w /\ worker[v].token # claims
    BY <1>1, <2>1 DEF Safe, TokenInv, Idle
  <2>3. \A v \in Worker : worker'[v].phase # "idle" => ~worker'[v].healthy
    BY <1>1, <2>1, <2>2 DEF Safe, BeatInv, TokenInv, Owns, TypeOK, Activity
  <2>4. /\ job'.status \in {"succeeded", "failed", "dead_letter"} /\ job'.token = NoToken
        /\ job'.attempts = job.attempts
        /\ job'.status = "failed" => job.attempts < MaxAttempts
        /\ job'.status = "succeeded" => job'.result = claims
    <3>1. CASE CompleteJob(w)
      BY <1>3, <2>1, <3>1 DEF CompleteJob, TypeOK, Job
    <3>2. CASE RecordFailure(w)
      <4>1. job' = [job EXCEPT !.status = FailureStatus(w), !.token = NoToken, !.age = 0,
                               !.due = FailureStatus(w) # "failed"]
        BY <1>3, <3>2 DEF RecordFailure
      <4>2. /\ FailureStatus(w) \in {"failed", "dead_letter"}
            /\ FailureStatus(w) = "failed" => job.attempts < MaxAttempts
        BY DEF FailureStatus
      <4>3. /\ job'.status = FailureStatus(w) /\ job'.token = NoToken
            /\ job'.attempts = job.attempts
        BY <4>1 DEF TypeOK, Job
      <4>4. QED
        BY <4>2, <4>3
    <3>3. QED
      BY <3>1, <3>2 DEF RecordVerdict
  <2>5. TokenInv'
    BY <1>1, <2>4 DEF Safe, TokenInv, Idle
  <2>6. BeatInv'
    BY <2>3 DEF BeatInv
  <2>7. FaultInv'
    BY <1>1, <2>4 DEF Safe, FaultInv
  <2>8. BudgetInv'
    BY <1>1, <2>4 DEF Safe, BudgetInv
  <2>9. returned = {}
    BY <2>1 DEF Safe, ResultInv, OneResult
  <2>10. OneResult'
    <3>1. CASE CompleteJob(w)
      <4>1. /\ job' = [job EXCEPT !.status = "succeeded", !.result = worker[w].token,
                                  !.token = NoToken, !.age = 0]
            /\ returned' = {[result |-> worker[w].token, duplicate |-> FALSE]}
        BY <1>3, <2>9, <3>1 DEF CompleteJob
      <4>2. job'.status = "succeeded" /\ job'.result = worker[w].token
        BY <4>1 DEF TypeOK, Job
      <4>3. QED
        BY <4>1, <4>2 DEF OneResult
    <3>2. CASE RecordFailure(w)
      BY <1>3, <2>9, <3>2 DEF RecordFailure, OneResult
    <3>3. QED
      BY <3>1, <3>2 DEF RecordVerdict
  <2>11. QED
    BY <1>1, <2>4, <2>5, <2>6, <2>7, <2>8, <2>10 DEF Safe, ResultInv, LastClaimWins
<1>4. QED
  BY <1>2, <1>3

\* The clock: a healthy worker that is due to act holds it back, so the lease
\* never outruns a healthy heartbeat.
LEMMA TickSafe ==
  ASSUME TypeOK, Safe, Tick
  PROVE  Safe'
<1> USE Types, AttemptsAssumption, LeaseAssumption, FaultsAssumption
<1>1. /\ job.status = "running" /\ job'.status = "running" /\ job'.age = job.age + 1
      /\ job'.token = job.token /\ job'.attempts = job.attempts /\ job'.result = job.result
      /\ claims' = claims /\ lost' = lost /\ faults' = faults /\ returned' = returned
  BY DEF Tick, TypeOK, Job
<1>2. \A w \in Worker : /\ worker'[w].phase = worker[w].phase /\ worker'[w].token = worker[w].token
                        /\ worker'[w].paused = worker[w].paused
                        /\ worker'[w].healthy = worker[w].healthy
                        /\ worker[w].phase = "handling" /\ worker[w].beat < Heartbeat
                             => worker'[w].beat = worker[w].beat + 1
  BY DEF Tick, TypeOK, Activity
<1>3. TokenInv'
  BY <1>1, <1>2 DEF Safe, TokenInv
<1>4. BeatInv'
  BY <1>1, <1>2 DEF Safe, BeatInv, Owns, Tick
<1>5. FaultInv' /\ BudgetInv' /\ ResultInv'
  BY <1>1, <1>2 DEF Safe, FaultInv, BudgetInv, ResultInv, LastClaimWins, OneResult
<1>6. QED
  BY <1>3, <1>4, <1>5 DEF Safe

\* The steps that touch only one process, or only the row's age or backoff.
LEMMA OtherSafe ==
  ASSUME TypeOK, Safe, NEW w \in Worker,
         DuplicateHit(w) \/ RenewWorkerLease(w) \/ HandlerEnds(w) \/ Crash(w) \/ Pause(w) \/ Resume(w)
  PROVE  Safe'
<1> USE Types, AttemptsAssumption, LeaseAssumption, FaultsAssumption
<1>1. CASE DuplicateHit(w)
  BY <1>1 DEF DuplicateHit, Safe, TokenInv, BeatInv, FaultInv, BudgetInv, ResultInv, LastClaimWins,
              OneResult, Owns
<1>2. CASE RenewWorkerLease(w)
  <2>1. /\ job'.status = job.status /\ job'.token = job.token /\ job'.attempts = job.attempts
        /\ job'.result = job.result /\ job'.age = IF Owns(w) THEN 0 ELSE job.age
        /\ claims' = claims /\ lost' = lost /\ faults' = faults /\ returned' = returned
    BY <1>2 DEF RenewWorkerLease, TypeOK, Job
  <2>2. /\ \A v \in Worker : /\ worker'[v].phase = worker[v].phase
                             /\ worker'[v].token = worker[v].token
                             /\ worker'[v].paused = worker[v].paused
                             /\ worker'[v].healthy = worker[v].healthy
        /\ \A v \in Worker \ {w} : worker'[v].beat = worker[v].beat
        /\ worker'[w].beat = 0
    BY <1>2 DEF RenewWorkerLease, TypeOK, Activity
  <2>3. TokenInv' /\ FaultInv' /\ BudgetInv' /\ ResultInv'
    BY <2>1, <2>2 DEF Safe, TokenInv, FaultInv, BudgetInv, ResultInv, LastClaimWins, OneResult
  <2>4. BeatInv'
    BY <2>1, <2>2 DEF Safe, BeatInv, Owns
  <2>5. QED
    BY <2>3, <2>4 DEF Safe
<1>3. CASE HandlerEnds(w)
  <2>1. \A v \in Worker : /\ worker'[v].phase # "idle" <=> worker[v].phase # "idle"
                          /\ worker'[v].token = worker[v].token
                          /\ worker'[v].paused = worker[v].paused
                          /\ worker'[v].healthy = worker[v].healthy
                          /\ worker'[v].beat = worker[v].beat
    BY <1>3 DEF HandlerEnds, TypeOK, Activity
  <2>2. UNCHANGED <<job, claims, lost, faults, returned>>
    BY <1>3 DEF HandlerEnds
  <2>3. TokenInv' /\ FaultInv' /\ BudgetInv' /\ ResultInv'
    BY <2>1, <2>2 DEF Safe, TokenInv, FaultInv, BudgetInv, ResultInv, LastClaimWins, OneResult
  <2>4. BeatInv'
    BY <2>1, <2>2 DEF Safe, BeatInv, Owns
  <2>5. QED
    BY <2>3, <2>4 DEF Safe
<1>4. CASE Crash(w) \/ Pause(w)
  <2>1. /\ faults' = faults + 1 /\ UNCHANGED <<job, claims, lost, returned>>
        /\ worker'[w].phase # "idle" => ~worker'[w].healthy
        /\ worker'[w].phase # "idle" => worker'[w].token = worker[w].token /\ worker[w].phase # "idle"
        /\ \A v \in Worker \ {w} : worker'[v] = worker[v]
    <3>1. CASE Crash(w)
      BY <3>1 DEF Crash, TypeOK, Idle
    <3>2. CASE Pause(w)
      <4>1. worker' = [worker EXCEPT ![w] = [worker[w] EXCEPT !.paused = TRUE, !.healthy = FALSE]]
        BY <3>2 DEF Pause
      <4>2. LET r == [worker[w] EXCEPT !.paused = TRUE, !.healthy = FALSE]
            IN  r.phase = worker[w].phase /\ r.token = worker[w].token /\ r.healthy = FALSE
        BY DEF TypeOK, Activity
      <4>3. worker'[w] = [worker[w] EXCEPT !.paused = TRUE, !.healthy = FALSE]
        BY <4>1 DEF TypeOK
      <4>4. \A v \in Worker \ {w} : worker'[v] = worker[v]
        BY <4>1 DEF TypeOK
      <4>5. /\ worker[w].phase # "idle" /\ faults' = faults + 1
            /\ UNCHANGED <<job, claims, lost, returned>>
        BY <3>2 DEF Pause
      <4>6. worker'[w].token = worker[w].token /\ worker'[w].healthy = FALSE
        BY <4>2, <4>3
      <4>7. QED
        BY <4>4, <4>5, <4>6
    <3>3. QED
      BY <1>4, <3>1, <3>2
  <2>2. TokenInv' /\ FaultInv' /\ BudgetInv' /\ ResultInv'
    BY <2>1 DEF Safe, TokenInv, FaultInv, BudgetInv, ResultInv, LastClaimWins, OneResult
  <2>3. BeatInv'
    BY <2>1 DEF Safe, BeatInv, Owns
  <2>4. QED
    BY <2>2, <2>3 DEF Safe
<1>5. CASE Resume(w)
  <2>1. /\ UNCHANGED <<job, claims, lost, faults, returned>>
        /\ \A v \in Worker : /\ worker'[v].phase = worker[v].phase
                             /\ worker'[v].token = worker[v].token
                             /\ worker'[v].healthy = worker[v].healthy
                             /\ worker'[v].beat = worker[v].beat
                             /\ worker'[v].paused => worker[v].paused
    BY <1>5 DEF Resume, TypeOK, Activity
  <2>2. TokenInv' /\ FaultInv' /\ BudgetInv' /\ ResultInv'
    BY <2>1 DEF Safe, TokenInv, FaultInv, BudgetInv, ResultInv, LastClaimWins, OneResult
  <2>3. BeatInv'
    BY <2>1 DEF Safe, BeatInv, Owns
  <2>4. QED
    BY <2>2, <2>3 DEF Safe
<1>6. QED
  BY <1>1, <1>2, <1>3, <1>4, <1>5

LEMMA SafeInductive == TypeOK /\ Safe /\ [Next]_vars => Safe'
<1> SUFFICES ASSUME TypeOK, Safe, [Next]_vars PROVE Safe'
  OBVIOUS
<1>1. CASE EnsureExecutionExists
  <2>1. /\ job'.status = "pending" /\ job.status = "absent" /\ job'.token = job.token
        /\ job'.attempts = job.attempts /\ UNCHANGED <<worker, claims, lost, faults, returned>>
    BY <1>1 DEF EnsureExecutionExists, TypeOK, Job
  <2>2. QED
    BY <2>1 DEF Safe, TokenInv, BeatInv, FaultInv, BudgetInv, ResultInv, LastClaimWins, OneResult, Owns
<1>2. CASE BackoffElapses
  <2>1. /\ job'.status = job.status /\ job'.token = job.token /\ job'.age = job.age
        /\ job'.attempts = job.attempts /\ job'.result = job.result
        /\ UNCHANGED <<worker, claims, lost, faults, returned>>
    BY <1>2 DEF BackoffElapses, TypeOK, Job
  <2>2. QED
    BY <2>1 DEF Safe, TokenInv, BeatInv, FaultInv, BudgetInv, ResultInv, LastClaimWins, OneResult, Owns
<1>3. CASE UNCHANGED vars
  BY <1>3 DEF vars, Safe, TokenInv, BeatInv, FaultInv, BudgetInv, ResultInv, LastClaimWins, OneResult, Owns
<1>4. QED
  BY <1>1, <1>2, <1>3, ClaimSafe, VerdictSafe, TickSafe, OtherSafe DEF Next

THEOREM SafeAlways == Spec => []Safe
BY InitSafe, SafeInductive, TypeCorrect, PTL DEF Spec

-----------------------------------------------------------------------------
\* A worker that was never held up never loses its claim: the heartbeat keeps
\* the lease alive whatever the other deliveries do.
THEOREM HeartbeatProtectsLiveWork == Spec => []LiveWorkKept
<1>1. Safe => LiveWorkKept
  BY DEF Safe, BeatInv, LiveWorkKept
<1>2. QED
  BY <1>1, SafeAlways, PTL

\* A worker whose claim was taken over cannot record its result, and every
\* caller is told the one result on record.
THEOREM FencedResult == Spec => [](LastClaimWins /\ OneResult)
<1>1. Safe => LastClaimWins /\ OneResult
  BY DEF Safe, ResultInv
<1>2. QED
  BY <1>1, SafeAlways, PTL

\* The attempts never exceed the budget by more than the claims that were
\* taken over, and each takeover costs a crash or a pause.
THEOREM BoundedRetries == Spec => []AttemptsAccounted
<1>1. Safe => AttemptsAccounted
  BY DEF Safe, BudgetInv, FaultInv, AttemptsAccounted
<1>2. QED
  BY <1>1, SafeAlways, PTL

\* Once settled, a row is never claimed, overwritten or revived: a claim needs
\* an unsettled row and every verdict needs a running one.
THEOREM SettledStays == Spec => SettledForever
<1>1. ASSUME TypeOK, Safe, [Next]_vars, job.status \in Settled PROVE job' = job
  <2>1. job.status # "absent" /\ job.status # "failed" /\ job.status # "running" /\ ~Claimable
    BY <1>1 DEF Settled, Claimable
  <2>2. \A w \in Worker : ~Owns(w)
    BY <2>1 DEF Owns
  <2>3. QED
    BY <1>1, <2>1, <2>2
       DEF Next, vars, EnsureExecutionExists, BackoffElapses, Tick, AtomicClaim, DuplicateHit,
           RenewWorkerLease, HandlerEnds, RecordVerdict, CompleteJob, RecordFailure, LostOwnership,
           Crash, Pause, Resume
<1>2. TypeOK /\ Safe /\ [Next]_vars => [job.status \in Settled => job' = job]_vars
  BY <1>1
<1>3. QED
  BY <1>2, TypeCorrect, SafeAlways, PTL DEF Spec, SettledForever
=============================================================================
