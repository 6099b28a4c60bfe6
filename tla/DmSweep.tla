------------------------------ MODULE DmSweep ------------------------------
(***************************************************************************)
(* The dm-execute sweep over all tables (campaigns), one thread each.      *)
(* Module DmTurn follows one table through every transaction; here a turn  *)
(* is only its status and the question is who is served: pg_cron calls the *)
(* sweep once a minute, and it executes Limit attempts, the oldest first.  *)
(* Time passes in ticks of 30 seconds, the first retry delay.              *)
(***************************************************************************)
EXTENDS Naturals, FiniteSets, SequencesExt

CONSTANTS
  Campaign,     \* tables
  Limit,        \* attempts per sweep (the router asks for 1)
  ScanFactor,   \* threads looked at for one stranded thread (the code: 4)
  Period,       \* ticks between two sweeps (2)
  BackoffCap,   \* ticks of the longest retry delay (20)
  Lease,        \* ticks before a dead executor's attempt is recovered (10)
  Troubled,     \* tables whose attempts never succeed
  Archivable,   \* tables their owner may archive and restore
  Laggable,     \* tables whose post-turn work may fall behind
  Forever,      \* tables that stay dormant, or behind, once they are
  MaxInputs,    \* bound: accepted submissions at a time
  MaxRetries    \* bound: retry_count is no longer told apart from here on

ASSUME SweepAssumption ==
  /\ Troubled \cup Archivable \cup Laggable \cup Forever \subseteq Campaign
  /\ {Limit, ScanFactor, Period, BackoffCap, MaxInputs} \subseteq Nat \ {0}
  /\ Lease \in Nat /\ Lease > Period /\ IsFiniteSet(Campaign)
  /\ MaxRetries \in Nat \ {0} /\ 2 ^ (MaxRetries - 1) >= BackoffCap

VARIABLES
  turn,         \* [Campaign -> TurnState]: the active turn and its attempt
  created,      \* tables with a prepared or running attempt, by created_at
  accepted,     \* accepted submissions by accepted_at; taken: in the turn
  delay,        \* ticks to next_retry_at, or to the end of a dead lease
  retries,      \* retry_count of the current attempt
  autoRetried,  \* tables whose turn had its automatic retry
  archived,     \* dormant tables
  lagging,      \* tables behind the safe post-turn lag
  due,          \* ticks to the next call of the sweep
  step          \* where the sweep is

tables == <<turn, created, accepted, delay, retries, autoRetried>>
world == <<archived, lagging>>
vars == <<tables, world, due, step>>

TurnState == {"none", "prepared", "running", "dead", "awaiting_roll", "failed_visible"}
SweepStep == {"rest", "recover", "coordinate", "retry", "execute"}

Init ==
  /\ turn = [c \in Campaign |-> "none"]
  /\ created = <<>> /\ accepted = <<>>
  /\ delay = [c \in Campaign |-> 0]
  /\ retries = [c \in Campaign |-> 0]
  /\ autoRetried = {} /\ archived = {} /\ lagging = {}
  /\ due = Period /\ step = "rest"

-----------------------------------------------------------------------------
(* ORDER BY, LIMIT and WHERE.  An age is a function, lower is older.       *)

\* The n oldest of S.
Oldest(n, S, age) == {x \in S : Cardinality({y \in S : age[y] < age[x]}) < n}

\* The elements of S, the oldest first.
InOrder(S, age) ==
  [k \in 1 .. Cardinality(S) |->
     CHOOSE x \in S : Cardinality({y \in S : age[y] <= age[x]}) = k]

\* The entries of s at the places in I, in their order.
Sift(s, I) ==
  LET order == InOrder(I, [i \in I |-> i]) IN [k \in DOMAIN order |-> s[order[k]]]

-----------------------------------------------------------------------------
(* Attempts and their execution.                                           *)

\* retry_backoff_seconds, in ticks: 1, 2, 4, ... up to the cap.
Backoff(n) == IF 2 ^ (n - 1) < BackoffCap THEN 2 ^ (n - 1) ELSE BackoffCap

Counted(n) == IF n < MaxRetries THEN n ELSE MaxRetries

\* What _claim makes of the prepared attempts of the tables in C: nothing on a
\* dormant table, a delay without a retry count on a lagging one.
Claim(C) ==
  LET run == C \ (archived \cup lagging)
      put == (C \cap lagging) \ archived
  IN /\ turn' = [c \in Campaign |-> IF c \in run THEN "running" ELSE turn[c]]
     /\ delay' = [c \in Campaign |-> IF c \in put THEN Backoff(retries[c] + 1) ELSE delay[c]]

\* fault: a finished attempt keeps its place in the queue
Keep(s, c) == s
Unqueue(s, c) == Sift(s, {i \in DOMAIN s : s[i] # c})

\* A fresh attempt of c, the youngest of all.  The request that made it may
\* dispatch it at once; that is best effort and the sweep reconciles.
Prepare(c, dispatched) ==
  LET runs == dispatched /\ c \notin archived \cup lagging
      waits == dispatched /\ c \in lagging \ archived
  IN /\ turn' = [turn EXCEPT ![c] = IF runs THEN "running" ELSE "prepared"]
     /\ delay' = [delay EXCEPT ![c] = IF waits THEN Backoff(1) ELSE 0]
     /\ retries' = [retries EXCEPT ![c] = 0]
     /\ created' = Append(Unqueue(created, c), c)

\* The turn of c covers all accepted submissions of s that are of c.
Cover(s, c) == [i \in DOMAIN s |-> IF s[i].table = c THEN [s[i] EXCEPT !.taken = TRUE] ELSE s[i]]

\* A player writes.  The input starts a turn, widens one nobody sees yet (a
\* fresh attempt supersedes the old one), retries a failed one, or waits.
Accept(c) ==
  LET log == Append(accepted, [table |-> c, taken |-> FALSE]) IN
  /\ c \notin archived
  /\ Len(accepted) < MaxInputs
  /\ \/ /\ turn[c] # "awaiting_roll"
        /\ accepted' = Cover(log, c)
        /\ \E dispatched \in BOOLEAN : Prepare(c, dispatched)
        /\ autoRetried' = IF turn[c] = "none" THEN autoRetried \ {c} ELSE autoRetried
     \/ /\ turn[c] \in {"running", "dead", "awaiting_roll"}   \* visible already
        /\ accepted' = log
        /\ UNCHANGED <<turn, created, delay, retries, autoRetried>>
  /\ UNCHANGED <<world, due, step>>

\* The players roll, or the owner presses Retry (both also when dormant).
Resume(c) ==
  /\ turn[c] \in {"awaiting_roll", "failed_visible"}
  /\ \E dispatched \in BOOLEAN : Prepare(c, dispatched)
  /\ UNCHANGED <<accepted, autoRetried, world, due, step>>

Commit(c) ==
  /\ turn' = [turn EXCEPT ![c] = "none"]
  /\ accepted' = Sift(accepted, {i \in DOMAIN accepted : ~(accepted[i].table = c /\ accepted[i].taken)})
  /\ created' = Unqueue(created, c)
  /\ UNCHANGED <<delay, retries>>

Stop(c, s) ==
  /\ turn' = [turn EXCEPT ![c] = s]
  /\ created' = Unqueue(created, c)
  /\ UNCHANGED <<accepted, delay, retries>>

\* _record_failure of a retriable failure: back to prepared, its place kept.
Requeue(c) ==
  LET n == Counted(retries[c] + 1) IN
  /\ turn' = [turn EXCEPT ![c] = "prepared"]
  /\ retries' = [retries EXCEPT ![c] = n]
  /\ delay' = [delay EXCEPT ![c] = Backoff(n)]
  /\ UNCHANGED <<accepted, created>>

Die(c) ==
  /\ turn' = [turn EXCEPT ![c] = "dead"]
  /\ delay' = [delay EXCEPT ![c] = Lease]
  /\ UNCHANGED <<accepted, created, retries>>

\* An execution ends.
Finish(c) ==
  /\ turn[c] = "running"
  /\ \/ c \notin Troubled /\ (Commit(c) \/ Stop(c, "awaiting_roll"))
     \/ c \in Troubled /\ (Requeue(c) \/ Stop(c, "failed_visible") \/ Die(c))
  /\ UNCHANGED <<autoRetried, world, due, step>>
-----------------------------------------------------------------------------
(* The sweep, in its order: recover, coordinate, retry, execute.           *)

SweepBegins ==
  /\ step = "rest" /\ due = 0
  /\ step' = "recover"
  /\ UNCHANGED <<tables, world, due>>

\* recover_stuck_attempts: prepared again, without a delay and in its place.
RecoverStuck ==
  LET stuck == {c \in Campaign : turn[c] = "dead" /\ delay[c] = 0} IN
  /\ step = "recover" /\ step' = "coordinate"
  /\ turn' = [c \in Campaign |-> IF c \in stuck THEN "prepared" ELSE turn[c]]
  /\ UNCHANGED <<created, accepted, delay, retries, autoRetried, world, due>>

\* Tables with accepted input that are not dormant, and their oldest input.
Threads == {accepted[i].table : i \in DOMAIN accepted} \ archived
OldestInput ==
  [c \in Threads |-> CHOOSE i \in DOMAIN accepted :
     accepted[i].table = c /\ \A j \in 1 .. i - 1 : accepted[j].table # c]

Idle(S) == {c \in S : turn[c] = "none"}

\* fault: dormant tables are dropped only when the window has been cut
StrandedAwake ==
  LET tabled == {accepted[i].table : i \in DOMAIN accepted}
      age == [c \in tabled |-> CHOOSE i \in DOMAIN accepted :
                accepted[i].table = c /\ \A j \in 1 .. i - 1 : accepted[j].table # c]
  IN Oldest(Limit, Idle(Oldest(ScanFactor * Limit, tabled, age) \ archived), age)

\* find_stranded_submission_threads: the window is cut before the threads
\* with an active turn, whose own input is accepted too, are dropped.
Stranded == Oldest(Limit, Idle(Oldest(ScanFactor * Limit, Threads, OldestInput)), OldestInput)

\* coordinate_stranded_submissions; what it prepares is not dispatched.
CoordinateStranded ==
  LET found == Stranded IN
  /\ step = "coordinate" /\ step' = "retry"
  /\ turn' = [c \in Campaign |-> IF c \in found THEN "prepared" ELSE turn[c]]
  /\ delay' = [c \in Campaign |-> IF c \in found THEN 0 ELSE delay[c]]
  /\ retries' = [c \in Campaign |-> IF c \in found THEN 0 ELSE retries[c]]
  /\ created' = created \o InOrder(found, OldestInput)
  /\ accepted' = [i \in DOMAIN accepted |->
                    IF accepted[i].table \in found THEN [accepted[i] EXCEPT !.taken = TRUE]
                    ELSE accepted[i]]
  /\ autoRetried' = autoRetried \ found
  /\ UNCHANGED <<world, due>>

\* auto_retry_failed_turns; one turn per sweep for each unit of Limit, in any
\* order (the code goes by updated_at).  Dormant tables are retried as well.
AutoRetry ==
  LET failed == {c \in Campaign : turn[c] = "failed_visible" /\ c \notin autoRetried}
      many == IF Limit < Cardinality(failed) THEN Limit ELSE Cardinality(failed)
  IN
  /\ step = "retry" /\ step' = "execute"
  /\ \E chosen \in {S \in SUBSET failed : Cardinality(S) = many} :
       /\ turn' = [c \in Campaign |-> IF c \in chosen THEN "prepared" ELSE turn[c]]
       /\ delay' = [c \in Campaign |-> IF c \in chosen THEN 0 ELSE delay[c]]
       /\ retries' = [c \in Campaign |-> IF c \in chosen THEN 0 ELSE retries[c]]
       /\ created' = created \o SetToSeq(chosen)
       /\ autoRetried' = autoRetried \cup chosen
  /\ UNCHANGED <<accepted, world, due>>

\* fault: a delayed attempt is as good as any
EligibleAnyTime(c) == turn[c] = "prepared"
\* next_retry_at has passed; nobody asks whether the table is dormant.
Eligible(c) == turn[c] = "prepared" /\ delay[c] = 0

FindPreparedAttempts ==
  LET eligible == {i \in DOMAIN created : Eligible(created[i])}
  IN {created[i] : i \in Oldest(Limit, eligible, [i \in eligible |-> i])}

ExecutePrepared ==
  /\ step = "execute" /\ step' = "rest"
  /\ due' = Period
  /\ Claim(FindPreparedAttempts)
  /\ UNCHANGED <<created, accepted, retries, autoRetried, world>>

-----------------------------------------------------------------------------
(* The world around.                                                       *)

Tick ==
  /\ step = "rest" /\ due > 0
  /\ due' = due - 1
  /\ delay' = [c \in Campaign |-> IF delay[c] > 0 THEN delay[c] - 1 ELSE 0]
  /\ UNCHANGED <<turn, created, accepted, retries, autoRetried, world, step>>

\* The owner archives (never under a running attempt) or restores a table.
Archive(c) ==
  /\ c \in Archivable \ archived
  /\ turn[c] \notin {"running", "dead"}
  /\ archived' = archived \cup {c}
  /\ UNCHANGED <<tables, lagging, due, step>>

Restore(c) ==
  /\ c \in archived \ Forever
  /\ archived' = archived \ {c}
  /\ UNCHANGED <<tables, lagging, due, step>>

FallBehind(c) ==
  /\ c \in Laggable \ lagging
  /\ lagging' = lagging \cup {c}
  /\ UNCHANGED <<tables, archived, due, step>>

CatchUp(c) ==
  /\ c \in lagging \ Forever
  /\ lagging' = lagging \ {c}
  /\ UNCHANGED <<tables, archived, due, step>>

Sweep == SweepBegins \/ RecoverStuck \/ CoordinateStranded \/ AutoRetry \/ ExecutePrepared

Next ==
  \/ Sweep \/ Tick
  \/ \E c \in Campaign : Accept(c) \/ Resume(c) \/ Finish(c)
  \/ \E c \in Archivable : Archive(c) \/ Restore(c)
  \/ \E c \in Laggable : FallBehind(c) \/ CatchUp(c)

\* Cron keeps calling, and executions end (every model call has a timeout).
Fairness ==
  /\ WF_vars(Sweep \/ Tick)
  /\ \A c \in Campaign : WF_vars(Finish(c))

Spec == Init /\ [][Next]_vars /\ Fairness
-----------------------------------------------------------------------------
(* Properties.                                                             *)

\* The queue of find_prepared_attempts holds exactly the tables with an attempt
\* to execute or being executed, each once, and an idle table has no input of a
\* turn left: nothing is executed for a turn that is over, and nothing is lost.
TypeOK ==
  /\ turn \in [Campaign -> TurnState]
  /\ created \in Seq(Campaign)
  /\ Range(created) = {c \in Campaign : turn[c] \in {"prepared", "running", "dead"}}
  /\ Len(created) = Cardinality(Range(created))
  /\ accepted \in Seq([table : Campaign, taken : BOOLEAN])
  /\ \A c \in Campaign :
       (turn[c] = "none") = (\A i \in DOMAIN accepted : accepted[i].table = c => ~accepted[i].taken)
  /\ delay \in [Campaign -> Nat] /\ retries \in [Campaign -> 0 .. MaxRetries]
  /\ autoRetried \in SUBSET Campaign /\ archived \in SUBSET Archivable /\ lagging \in SUBSET Laggable
  /\ due \in 0 .. Period /\ step \in SweepStep

\* A prepared attempt is executed, however often others fail and whoever else
\* keeps playing, unless its own table is dormant or behind (execution.py:1225
\* "so one failing attempt cannot starve newer prepared work").
PreparedServed ==
  \A c \in Campaign :
    turn[c] = "prepared" ~> (turn[c] = "running" \/ c \in archived \cup lagging)

\* Threads with an active turn and older input than c's: they fill the window that
\* is cut before they are dropped.
Crowded(c) ==
  Cardinality({d \in Threads : turn[d] # "none" /\ OldestInput[d] < OldestInput[c]})
    >= ScanFactor * Limit

HasInput(c) == \E i \in DOMAIN accepted : accepted[i].table = c

\* Input that waited for another turn gets a turn of its own when that one has
\* ended, whatever the other tables are doing (execution.py:1257 "one failure
\* never blocks the others"), unless the scan window is crowded again and again.
StrandedServed ==
  \A c \in Campaign :
    <>[](c \in Threads => ~Crowded(c)) =>
      ((turn[c] = "none" /\ HasInput(c)) ~> (turn[c] # "none" \/ c \in archived))

\* What the code does achieve when tables go dormant or fall behind: once all of
\* them are back, every prepared attempt is executed.
ServedOnceAwake ==
  <>[](archived = {} /\ lagging = {}) =>
    \A c \in Campaign : turn[c] = "prepared" ~> turn[c] = "running"
=============================================================================
