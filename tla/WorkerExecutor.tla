-------------------------- MODULE WorkerExecutor --------------------------
(***************************************************************************)
(* The worker execution ledger of app/worker/executor.py: one row of       *)
(* worker_executions, delivered to several worker processes.  A delivery   *)
(* claims the row with a committed conditional UPDATE, runs the handler    *)
(* outside the claim transaction under a heartbeat that renews the lease,  *)
(* and records the verdict with an UPDATE fenced by its claim token.       *)
(*                                                                         *)
(* Time is counted in ticks.  A worker whose process or database           *)
(* connection is held up is "paused": only then may time pass while a      *)
(* heartbeat or a verdict is due.                                          *)
(***************************************************************************)
EXTENDS Naturals, FiniteSets

CONSTANTS Worker,       \* processes a job may be delivered to
          MaxAttempts,  \* max_attempts of execute_worker_job
          Lease,        \* lease_seconds, in ticks
          Heartbeat,    \* hb_interval = 0.4 * lease_seconds, in ticks
          MaxFaults     \* bound: crashes and pauses in one behaviour

ASSUME AttemptsAssumption == MaxAttempts \in Nat \ {0}
ASSUME LeaseAssumption == /\ Lease \in Nat
                          /\ Heartbeat \in Nat \ {0}
                          /\ Heartbeat < Lease
ASSUME FaultsAssumption == MaxFaults \in Nat

VARIABLES job,       \* the worker_executions row
          worker,    \* what each process is doing
          claims,    \* claims granted so far; the n-th claim's token is n
          lost,      \* claims taken over before their holder gave a verdict
          faults,    \* crashes and pauses so far
          returned   \* results handed back to callers

vars == <<job, worker, claims, lost, faults, returned>>

JobStatus == {"absent", "pending", "running", "succeeded", "failed", "dead_letter"}
Settled == {"succeeded", "dead_letter"}
NoToken == 0

\* What a process is doing: nothing, running the handler, or holding the
\* handler's outcome that is still to be written to the row.
Phase == {"idle", "handling", "ok", "retriable", "terminal"}

Idle == [phase |-> "idle", token |-> NoToken, beat |-> 0, paused |-> FALSE, healthy |-> TRUE]
Handling(token) ==
  [phase |-> "handling", token |-> token, beat |-> 0, paused |-> FALSE, healthy |-> TRUE]

Job == [status : JobStatus, attempts : Nat, token : Nat, age : Nat, due : BOOLEAN, result : Nat]
Activity == [phase : Phase, token : Nat, beat : Nat, paused : BOOLEAN, healthy : BOOLEAN]
Answer == [result : Nat, duplicate : BOOLEAN]

TypeOK ==
  /\ job \in Job
  /\ worker \in [Worker -> Activity]
  /\ claims \in Nat
  /\ lost \in Nat
  /\ faults \in Nat
  /\ returned \in SUBSET Answer

Init ==
  /\ job = [status |-> "absent", attempts |-> 0, token |-> NoToken, age |-> 0,
            due |-> TRUE, result |-> 0]
  /\ worker = [w \in Worker |-> Idle]
  /\ claims = 0
  /\ lost = 0
  /\ faults = 0
  /\ returned = {}

\* The fence on a heartbeat or a verdict.  (Next two: faults the checks must
\* notice, a fence without the token and no fence at all.)
OwnsAnyToken(w) == job.status = "running"
OwnsById(w) == TRUE
Owns(w) == job.status = "running" /\ job.token = worker[w].token

\* The first delivery inserts the row; a concurrent inserter loses on the
\* primary key and reads the winner's.
EnsureExecutionExists ==
  /\ job.status = "absent"
  /\ job' = [job EXCEPT !.status = "pending"]
  /\ UNCHANGED <<worker, claims, lost, faults, returned>>

\* Faults the checks must notice: a lease that does not protect its holder, and
\* one that never runs out.
ClaimableAnyAge == job.status \in {"pending", "running"} \/ (job.status = "failed" /\ job.due)
ClaimableNoTakeover == job.status = "pending" \/ (job.status = "failed" /\ job.due)

Claimable ==
  \/ job.status = "pending"
  \/ job.status = "failed" /\ job.due
  \/ job.status = "running" /\ job.age > Lease

\* A delivery that passes the early exits wins the conditional UPDATE.  One
\* that does not changes nothing and raises for a later redelivery.
AtomicClaim(w) ==
  /\ worker[w].phase = "idle"
  /\ Claimable
  /\ job' = [job EXCEPT !.status = "running", !.attempts = @ + 1,
                        !.token = claims + 1, !.age = 0]
  /\ worker' = [worker EXCEPT ![w] = Handling(claims + 1)]
  /\ claims' = claims + 1
  /\ lost' = IF job.status = "running" THEN lost + 1 ELSE lost
  /\ UNCHANGED <<faults, returned>>

\* A delivery of a job that already succeeded gets the stored result.
DuplicateHit(w) ==
  /\ worker[w].phase = "idle"
  /\ job.status = "succeeded"
  /\ returned' = returned \cup {[result |-> job.result, duplicate |-> TRUE]}
  /\ UNCHANGED <<job, worker, claims, lost, faults>>

\* One wake-up of the heartbeat thread: renew the lease while still owner.
RenewWorkerLease(w) ==
  /\ worker[w].phase = "handling"
  /\ ~worker[w].paused
  /\ worker[w].beat = Heartbeat
  /\ worker' = [worker EXCEPT ![w].beat = 0]
  /\ job' = IF Owns(w) THEN [job EXCEPT !.age = 0] ELSE job
  /\ UNCHANGED <<claims, lost, faults, returned>>

\* The handler returns or raises; the heartbeat is stopped before the verdict.
HandlerEnds(w) ==
  /\ worker[w].phase = "handling"
  /\ \E outcome \in {"ok", "retriable", "terminal"} :
       worker' = [worker EXCEPT ![w].phase = outcome]
  /\ UNCHANGED <<job, claims, lost, faults, returned>>

\* A worker that finds its claim gone returns the stored result if there is
\* one and raises otherwise; the row is left to its owner.
LostOwnership ==
  /\ job' = job
  /\ returned' = IF job.status = "succeeded"
                 THEN returned \cup {[result |-> job.result, duplicate |-> TRUE]}
                 ELSE returned

CompleteJob(w) ==
  /\ worker[w].phase = "ok"
  /\ ~worker[w].paused
  /\ \/ /\ Owns(w)
        /\ job' = [job EXCEPT !.status = "succeeded", !.result = worker[w].token,
                              !.token = NoToken, !.age = 0]
        /\ returned' = returned \cup {[result |-> worker[w].token, duplicate |-> FALSE]}
     \/ ~Owns(w) /\ LostOwnership
  /\ worker' = [worker EXCEPT ![w] = Idle]
  /\ UNCHANGED <<claims, lost, faults>>

\* A terminal error, or a retriable one that used up the attempts, is
\* dead-lettered; any other waits for its backoff.  (Next two: an off-by-one
\* exhaustion test and an unknown status, which the checks must notice.)
FailureStatusOffByOne(w) ==
  IF worker[w].phase = "terminal" \/ job.attempts > MaxAttempts THEN "dead_letter" ELSE "failed"
FailureStatusUnknown(w) ==
  IF worker[w].phase = "terminal" THEN "rejected" ELSE "failed"
FailureStatus(w) ==
  IF worker[w].phase = "terminal" \/ job.attempts >= MaxAttempts THEN "dead_letter" ELSE "failed"

RecordFailure(w) ==
  /\ worker[w].phase \in {"retriable", "terminal"}
  /\ ~worker[w].paused
  /\ \/ /\ Owns(w)
        /\ job' = [job EXCEPT !.status = FailureStatus(w), !.token = NoToken, !.age = 0,
                              !.due = FailureStatus(w) # "failed"]
        /\ UNCHANGED returned
     \/ ~Owns(w) /\ LostOwnership
  /\ worker' = [worker EXCEPT ![w] = Idle]
  /\ UNCHANGED <<claims, lost, faults>>

BackoffElapses ==
  /\ job.status = "failed" /\ ~job.due
  /\ job' = [job EXCEPT !.due = TRUE]
  /\ UNCHANGED <<worker, claims, lost, faults, returned>>

\* The database's clock moves.  A worker that is not paused beats on time and
\* writes its verdict at once.
Tick ==
  /\ job.status = "running" /\ job.age <= Lease
  /\ \A w \in Worker : worker[w].paused \/ worker[w].phase = "idle"
                       \/ (worker[w].phase = "handling" /\ worker[w].beat < Heartbeat)
  /\ job' = [job EXCEPT !.age = @ + 1]
  /\ worker' = [w \in Worker |->
       IF worker[w].phase = "handling" /\ worker[w].beat < Heartbeat
       THEN [worker[w] EXCEPT !.beat = @ + 1] ELSE worker[w]]
  /\ UNCHANGED <<claims, lost, faults, returned>>

\* The process dies; a restarted one knows nothing of the claim.
Crash(w) ==
  /\ worker[w].phase # "idle"
  /\ faults < MaxFaults
  /\ faults' = faults + 1
  /\ worker' = [worker EXCEPT ![w] = Idle]
  /\ UNCHANGED <<job, claims, lost, returned>>

\* The process is starved or cannot reach the database (a heartbeat swallows
\* the exception and tries again later).
Pause(w) ==
  /\ worker[w].phase # "idle" /\ ~worker[w].paused
  /\ faults < MaxFaults
  /\ faults' = faults + 1
  /\ worker' = [worker EXCEPT ![w] = [@ EXCEPT !.paused = TRUE, !.healthy = FALSE]]
  /\ UNCHANGED <<job, claims, lost, returned>>

Resume(w) ==
  /\ worker[w].paused
  /\ worker' = [worker EXCEPT ![w].paused = FALSE]
  /\ UNCHANGED <<job, claims, lost, faults, returned>>

RecordVerdict(w) == CompleteJob(w) \/ RecordFailure(w)

Next ==
  \/ EnsureExecutionExists
  \/ BackoffElapses
  \/ Tick
  \/ \E w \in Worker : \/ AtomicClaim(w) \/ DuplicateHit(w)
                        \/ RenewWorkerLease(w) \/ HandlerEnds(w) \/ RecordVerdict(w)
                        \/ Crash(w) \/ Pause(w) \/ Resume(w)

Spec == Init /\ [][Next]_vars

\* The sweepers redeliver an unsettled job for ever, handlers end, paused
\* processes come back and time passes.
Fairness ==
  /\ WF_vars(EnsureExecutionExists)
  /\ WF_vars(BackoffElapses)
  /\ WF_vars(Tick)
  /\ WF_vars(\E w \in Worker : AtomicClaim(w))
  /\ \A w \in Worker : /\ WF_vars(RenewWorkerLease(w))
                       /\ WF_vars(HandlerEnds(w))
                       /\ WF_vars(RecordVerdict(w))
                       /\ WF_vars(Resume(w))

FairSpec == Spec /\ Fairness

-----------------------------------------------------------------------------
\* A worker that was never held up still owns the row when it writes its
\* verdict: the lease it renews cannot expire under it, so a live handler is
\* not run a second time beside itself (test_lease_expiry_overlap_heartbeat).
LiveWorkKept ==
  \A w \in Worker : worker[w].phase # "idle" /\ worker[w].healthy => Owns(w)

\* The result on record is the last claimant's: a worker whose lease was taken
\* over cannot land its own verdict over the new owner's.
LastClaimWins == job.status = "succeeded" => job.result = claims

\* Every caller, first delivery or duplicate, is told the same result, and
\* only the claimant that recorded it is told it is not a duplicate.
OneResult ==
  \A r \in returned : r.result = job.result /\ job.status = "succeeded"

\* A row is claimed at most max_attempts times, plus once for every claim that
\* was taken over without a verdict; the exhaustion test is made only when a
\* handler's failure is recorded.
AttemptsAccounted ==
  /\ job.attempts <= MaxAttempts + lost
  /\ job.status = "failed" => job.attempts < MaxAttempts
  /\ lost <= faults

\* A settled job is never claimed, overwritten or revived.
SettledForever == [][job.status \in Settled => job' = job]_vars

\* A delivered job ends up succeeded or dead-lettered once crashes and pauses
\* stop.
JobSettles == <>(job.status \in Settled)
=============================================================================
