------------------------- MODULE AdventureClosing -------------------------
(***************************************************************************)
(* The adventures (arcs) of one campaign and the closing job that pays     *)
(* their XP: adventures/service.py and adventures/rewards.py.              *)
(*                                                                         *)
(* A DM turn completes an arc and stages its job in the outbox in the same *)
(* transaction.  Sweepers deliver the job through the worker ledger (see   *)
(* WorkerExecutor; here a lease runs out when its holder dies or is held   *)
(* up), and the handler credits every fight of the arc to the characters   *)
(* that fought it.  What the handler reads it writes back later, with no   *)
(* row locked in between.                                                  *)
(*                                                                         *)
(* The XP on a sheet is kept as how often each arc's award is in it.  A     *)
(* failed outbox row is due again at once: its next_attempt_at, and the    *)
(* ledger's backoff, only say when.                                        *)
(***************************************************************************)
EXTENDS Naturals, FiniteSets

CONSTANTS Fight,        \* encounters, under way from the outset
          Pc,           \* player characters
          Party,        \* Party[f]: the characters that take part in f
          MaxArcs,      \* bound: arcs in one behaviour
          ChosenStarts, \* values an owner may give for start_sequence
          Sweeper,      \* processes that run the closing sweep
          MaxAttempts,  \* max_attempts of the sweep
          MaxFaults     \* bound: crashes and expired leases

ASSUME PartyAssumption == Party \in [Fight -> SUBSET Pc]
ASSUME BoundsAssumption == MaxArcs \in Nat /\ MaxAttempts \in Nat /\ MaxFaults \in Nat
ASSUME StartsAssumption == ChosenStarts \subseteq Nat

Arc == 1..MaxArcs
NoArc == 0
ASSUME SweeperAssumption == NoArc \notin Sweeper

VARIABLES revision, \* sequence of the campaign's last event
          arc,      \* adventures
          fight,    \* encounters, their encounter.ended event and xp hook
          award,    \* adventure_xp_awards: award[a][p], the fights credited; {} is no row
          sheet,    \* sheet[p][a]: times the award of a is in p's experience points
          job,      \* the outbox row and the worker_executions row of each arc
          sweeper,  \* what each sweeper is doing
          faults    \* crashes and expired leases so far

vars == <<revision, arc, fight, award, sheet, job, sweeper, faults>>
table == <<revision, fight, award, sheet>>

\* chosen: the owner gave start_sequence (history).
Adventure == [status : {"none", "active", "completed"}, first : Nat, last : Nat,
              chosen : BOOLEAN, closing : {"pending", "failed", "succeeded"}]

\* seq: sequence of encounter.ended, 0 while the fight goes on; source: that of
\* the turn that ended it; during: the arc that was active then (history).
Encounter == [seq : Nat, source : Nat, during : Arc \cup {NoArc}, credited : BOOLEAN]

\* outbox: due is pending or failed, which the sweep selects alike; holder: the
\* process that has the claim's token, NoArc if that died.
Job == [outbox : {"none", "due", "published"},
        ledger : {"absent", "running", "failed", "succeeded", "dead_letter"},
        attempts : Nat, holder : Sweeper \cup {NoArc}]

\* listed: the sweep selected the row; claimed: the handler starts; counted: it
\* has read fights and hooks; planned: also awards and sheets; ok, retriable:
\* its outcome; retry, exhausted: what it will write of a failure; retire,
\* mark_failed: what is left to do to the outbox row.
Working == {"claimed", "counted", "planned", "ok", "retriable", "retry", "exhausted"}
Phase == Working \cup {"idle", "listed", "retire", "mark_failed"}

Activity == [phase : Phase, arc : Arc \cup {NoArc}, held : BOOLEAN,
             fights : SUBSET Fight, rows : SUBSET Pc,
             sheets : [Pc -> [Arc -> Nat]]]

NoXp == [p \in Pc |-> [a \in Arc |-> 0]]
Idle == [phase |-> "idle", arc |-> NoArc, held |-> FALSE, fights |-> {}, rows |-> {},
         sheets |-> NoXp]

TypeOK ==
  /\ revision \in Nat
  /\ arc \in [Arc -> Adventure]
  /\ fight \in [Fight -> Encounter]
  /\ award \in [Arc -> [Pc -> SUBSET Fight]]
  /\ sheet \in [Pc -> [Arc -> Nat]]
  /\ job \in [Arc -> Job]
  /\ sweeper \in [Sweeper -> Activity]
  /\ faults \in Nat

\* The start of the campaign opens the first arc.
Init ==
  /\ revision = 0
  /\ arc = [a \in Arc |-> [status |-> IF a = 1 THEN "active" ELSE "none",
                           first |-> IF a = 1 THEN 1 ELSE 0, last |-> 0,
                           chosen |-> FALSE, closing |-> "pending"]]
  /\ fight = [f \in Fight |-> [seq |-> 0, source |-> 0, during |-> NoArc, credited |-> FALSE]]
  /\ award = [a \in Arc |-> [p \in Pc |-> {}]]
  /\ sheet = NoXp
  /\ job = [a \in Arc |-> [outbox |-> "none", ledger |-> "absent",
                           attempts |-> 0, holder |-> NoArc]]
  /\ sweeper = [x \in Sweeper |-> Idle]
  /\ faults = 0

-----------------------------------------------------------------------------
(* The table.                                                              *)

\* The next event's sequence, read under the campaign's row lock.  (Next: the
\* cursor itself, an off-by-one the checks must notice.)
FirstEventAtCursor == revision
FirstEvent == revision + 1

\* One active arc at a time: the check under the lock and the partial unique index.
\* It starts at the next event, or where the owner says.
StartAdventure(a) ==
  /\ arc[a].status = "none"
  /\ \A b \in Arc : arc[b].status # "active" /\ (b < a => arc[b].status = "completed")
  /\ \/ arc' = [arc EXCEPT ![a].status = "active", ![a].first = FirstEvent]
     \/ \E first \in ChosenStarts :
          arc' = [arc EXCEPT ![a].status = "active", ![a].first = first, ![a].chosen = TRUE]
  /\ UNCHANGED <<table, job, sweeper, faults>>

Active(a) == arc[a].status = "active"
CurrentArc == IF \E a \in Arc : Active(a) THEN CHOOSE a \in Arc : Active(a) ELSE NoArc

\* The events of a turn that ends fights: its own, and then one for each.
Ended(f, turn) ==
  [fight EXCEPT ![f] = [seq |-> turn + 1, source |-> turn, during |-> CurrentArc,
                        credited |-> FALSE]]

\* A DM turn ends a fight.  Bound: none after the last arc, which could only be
\* in no arc's range.
FightEnds(f) ==
  /\ fight[f].seq = 0
  /\ \E a \in Arc : arc[a].status # "completed"
  /\ fight' = Ended(f, revision + 1)
  /\ revision' = revision + 2
  /\ UNCHANGED <<arc, award, sheet, job, sweeper, faults>>

\* A DM turn completes the arc, and may end a fight as well.  Its event is the
\* arc's last; the job is staged in the same transaction.
CompleteAdventure(a) ==
  /\ Active(a)
  /\ \/ revision' = revision + 1 /\ fight' = fight
     \/ \E f \in Fight : /\ fight[f].seq = 0
                         /\ fight' = Ended(f, revision + 1)
                         /\ revision' = revision + 2
  /\ arc' = [arc EXCEPT ![a].status = "completed", ![a].last = revision + 1]
  /\ job' = [job EXCEPT ![a].outbox = "due"]
  /\ UNCHANGED <<award, sheet, sweeper, faults>>

-----------------------------------------------------------------------------
(* The sweep and the worker ledger.                                        *)

Goto(x, phase) == sweeper' = [sweeper EXCEPT ![x].phase = phase]
\* ... and forgets what it has read.
Leaves(x, phase) ==
  sweeper' = [sweeper EXCEPT ![x] =
    [Idle EXCEPT !.phase = phase, !.arc = sweeper[x].arc,
                 !.held = phase \in Working /\ sweeper[x].held]]
Rests(x) == sweeper' = [sweeper EXCEPT ![x] = Idle]
At(x, phase) == sweeper[x].phase = phase
JobOf(x) == job[sweeper[x].arc]

\* The sweep's query; the row may change before its turn comes.
SelectRow(x, a) ==
  /\ At(x, "idle")
  /\ job[a].outbox = "due"
  /\ sweeper' = [sweeper EXCEPT ![x] = [Idle EXCEPT !.phase = "listed", !.arc = a]]
  /\ UNCHANGED <<table, arc, job, faults>>

\* The lease of a running job has expired: nobody renews it.
Expired(a) ==
  /\ job[a].ledger = "running"
  /\ job[a].holder # NoArc => sweeper[job[a].holder].held

Claim(x) ==
  LET a == sweeper[x].arc IN
  /\ At(x, "listed")
  /\ job[a].ledger \in {"absent", "failed"} \/ Expired(a)
  /\ job' = [job EXCEPT ![a].ledger = "running", ![a].attempts = @ + 1, ![a].holder = x]
  /\ Goto(x, "claimed")
  /\ UNCHANGED <<table, arc, faults>>

\* The ledger is settled: a stored result, or the TerminalError of a dead letter.
\* (Next: dead letters go on being tried, which the checks must notice.)
FindSettledPoisoned(x) ==
  /\ At(x, "listed")
  /\ JobOf(x).ledger \in {"succeeded", "dead_letter"}
  /\ Goto(x, IF JobOf(x).ledger = "succeeded" THEN "retire" ELSE "mark_failed")
  /\ UNCHANGED <<table, arc, job, faults>>
FindSettled(x) ==
  /\ At(x, "listed")
  /\ JobOf(x).ledger \in {"succeeded", "dead_letter"}
  /\ Goto(x, "retire")
  /\ UNCHANGED <<table, arc, job, faults>>

\* "Still running; redelivery should retry later".
FindBusy(x) ==
  /\ At(x, "listed")
  /\ JobOf(x).ledger = "running" /\ ~Expired(sweeper[x].arc)
  /\ Goto(x, "mark_failed")
  /\ UNCHANGED <<table, arc, job, faults>>

Owns(x) == JobOf(x).ledger = "running" /\ JobOf(x).holder = x

\* A handler that failed looks at its claim: has it spent the attempts?  If the
\* claim is another's, it only reports.
Look(x) ==
  /\ At(x, "retriable")
  /\ \/ Owns(x) /\ Goto(x, IF JobOf(x).attempts >= MaxAttempts THEN "exhausted" ELSE "retry")
     \/ ~Owns(x) /\ Leaves(x, IF JobOf(x).ledger = "succeeded" THEN "retire" ELSE "mark_failed")
  /\ UNCHANGED <<table, arc, job, faults>>

\* What the verdict leaves of the ledger row.  (Next: a status the ledger does
\* not have, which the checks must notice.)
NewLedgerUnknown(x) == IF At(x, "ok") THEN "succeeded" ELSE "given_up"
NewLedger(x) ==
  CASE At(x, "ok") -> "succeeded"
    [] At(x, "exhausted") -> "dead_letter"
    [] At(x, "retry") -> "failed"

\* The claim is given up; how often a settled job was tried decides nothing more.
Written(x) ==
  [JobOf(x) EXCEPT !.ledger = NewLedger(x), !.holder = NoArc,
                   !.attempts = IF NewLedger(x) = "failed" THEN @ ELSE 0]

\* The outbox row of a settled job is retired; else it is tried again.  A failure
\* found exhausted is reported so even if its verdict came too late.
AfterVerdict(x) ==
  IF At(x, "exhausted") \/ (At(x, "ok") /\ (Owns(x) \/ JobOf(x).ledger = "succeeded"))
  THEN "retire" ELSE "mark_failed"

\* The verdict is fenced; one that comes too late changes nothing.
Verdict(x) ==
  /\ sweeper[x].phase \in {"ok", "retry", "exhausted"}
  /\ job' = IF Owns(x) THEN [job EXCEPT ![sweeper[x].arc] = Written(x)] ELSE job
  /\ Leaves(x, AfterVerdict(x))
  /\ UNCHANGED <<table, arc, faults>>

\* The outbox row is written in a transaction of its own.
Retire(x) ==
  /\ At(x, "retire")
  /\ job' = [job EXCEPT ![sweeper[x].arc].outbox = "published"]
  /\ Rests(x)
  /\ UNCHANGED <<table, arc, faults>>

\* Whatever the row has become in the meantime.
MarkFailed(x) ==
  /\ At(x, "mark_failed")
  /\ job' = [job EXCEPT ![sweeper[x].arc].outbox = "due"]
  /\ Rests(x)
  /\ UNCHANGED <<table, arc, faults>>

-----------------------------------------------------------------------------
(* The handler.                                                            *)

\* Ended in the arc's range of events, or by the turn that completed the arc.
Belongs(f, a) ==
  /\ fight[f].seq # 0 /\ fight[f].seq >= arc[a].first
  /\ fight[f].seq <= arc[a].last \/ fight[f].source = arc[a].last

CountFights(x) ==
  LET a == sweeper[x].arc IN
  /\ At(x, "claimed")
  /\ \/ arc[a].closing = "succeeded" /\ Goto(x, "ok")
     \/ /\ arc[a].closing # "succeeded"
        /\ sweeper' = [sweeper EXCEPT
             ![x].phase = "counted",
             ![x].fights = {f \in Fight : Belongs(f, a) /\ ~fight[f].credited}]
  /\ UNCHANGED <<table, arc, job, faults>>

\* Existing awards and sheets, read after the fights.
ReadSheets(x) ==
  /\ At(x, "counted")
  /\ sweeper' = [sweeper EXCEPT ![x].phase = "planned",
                                ![x].rows = {p \in Pc : award[sweeper[x].arc][p] # {}},
                                ![x].sheets = sheet]
  /\ UNCHANGED <<table, arc, job, faults>>

Share(x, p) == {f \in sweeper[x].fights : p \in Party[f]}
Awarded(x) == {p \in Pc : Share(x, p) # {}} \ sweeper[x].rows

\* The follow-ups commit together: sheets from what was read, award rows under
\* their unique key, hooks, and closing_status (service.py:466).
CommitFollowups(x) ==
  LET a == sweeper[x].arc IN
  /\ At(x, "planned")
  /\ \A p \in Awarded(x) : award[a][p] = {}
  /\ award' = [award EXCEPT ![a] =
       [p \in Pc |-> IF p \in Awarded(x) THEN Share(x, p) ELSE award[a][p]]]
  /\ sheet' = [p \in Pc |-> IF p \in Awarded(x)
                            THEN [sweeper[x].sheets[p] EXCEPT ![a] = @ + 1]
                            ELSE sheet[p]]
  /\ fight' = [f \in Fight |-> IF f \in sweeper[x].fights
                               THEN [fight[f] EXCEPT !.credited = TRUE] ELSE fight[f]]
  /\ arc' = [arc EXCEPT ![a].closing = "succeeded"]
  /\ Leaves(x, "ok")
  /\ UNCHANGED <<revision, job, faults>>

\* Everything is rolled back, and the failure is recorded over whatever
\* closing_status says by now.
FollowupsFail(x) ==
  /\ arc' = [arc EXCEPT ![sweeper[x].arc].closing = "failed"]
  /\ Leaves(x, "retriable")
  /\ UNCHANGED <<table, job>>

\* Another delivery has written an award row meanwhile: the unique key.
Conflict(x) ==
  /\ At(x, "planned")
  /\ \E p \in Awarded(x) : award[sweeper[x].arc][p] # {}
  /\ FollowupsFail(x)
  /\ UNCHANGED faults

-----------------------------------------------------------------------------
\* The process dies.
Crash(x) ==
  /\ ~At(x, "idle")
  /\ faults < MaxFaults /\ faults' = faults + 1
  /\ job' = [a \in Arc |-> IF job[a].holder = x THEN [job[a] EXCEPT !.holder = NoArc]
                                              ELSE job[a]]
  /\ Rests(x)
  /\ UNCHANGED <<table, arc>>

\* The follow-ups raise, for whatever reason; the attempts bound how often.
FollowupsRaise(x) ==
  /\ sweeper[x].phase \in {"counted", "planned"}
  /\ FollowupsFail(x)
  /\ UNCHANGED faults

\* The process is held up until its lease has run out, and then goes on.
LeaseLost(x) ==
  /\ sweeper[x].phase \in Working /\ ~sweeper[x].held
  /\ faults < MaxFaults /\ faults' = faults + 1
  /\ sweeper' = [sweeper EXCEPT ![x].held = TRUE]
  /\ UNCHANGED <<table, arc, job>>

Sweeps(x) ==
  \/ Claim(x) \/ FindSettled(x) \/ FindBusy(x)
  \/ CountFights(x) \/ ReadSheets(x) \/ CommitFollowups(x) \/ Conflict(x)
  \/ Look(x) \/ Verdict(x) \/ Retire(x) \/ MarkFailed(x)

Next ==
  \/ \E a \in Arc : StartAdventure(a) \/ CompleteAdventure(a)
  \/ \E f \in Fight : FightEnds(f)
  \/ \E x \in Sweeper : \/ \E a \in Arc : SelectRow(x, a)
                        \/ Sweeps(x) \/ Crash(x) \/ LeaseLost(x) \/ FollowupsRaise(x)

Spec == Init /\ [][Next]_vars

\* The cron comes round, a sweep goes on with what it selected, time passes.
Fairness ==
  /\ \A a \in Arc : WF_vars(\E x \in Sweeper : SelectRow(x, a))
  /\ \A x \in Sweeper : WF_vars(Sweeps(x))

FairSpec == Spec /\ Fairness

-----------------------------------------------------------------------------
Fought(a, p) == {f \in Fight : fight[f].during = a /\ p \in Party[f]}
Paid(a) == \A p \in Pc : Fought(a, p) # {} => award[a][p] # {}
PartyPaid(f) == \A p \in Party[f] : \E a \in Arc : f \in award[a][p]

\* An award credits fights of its arc's range that its character fought.
Rightful ==
  \A a \in Arc, p \in Pc : \A f \in award[a][p] : Belongs(f, a) /\ p \in Party[f]

\* A hook is taken, and an arc is closed, only when everybody has been paid.
NobodyUnpaid ==
  /\ \A f \in Fight : fight[f].credited => PartyPaid(f)
  /\ \A a \in Arc, f \in Fight : arc[a].closing = "succeeded" /\ Belongs(f, a) => PartyPaid(f)

\* No sheet has an award that is not on record, or has one twice.
SheetsBacked ==
  \A a \in Arc, p \in Pc : sheet[p][a] <= IF award[a][p] # {} THEN 1 ELSE 0

\* Exactly the fights of the arc, for all who fought in it.
RightShares == \A a \in Arc, p \in Pc : award[a][p] \in {{}, Fought(a, p)}
ClosedIsPaid == \A a \in Arc : arc[a].closing = "succeeded" => Paid(a)
DefaultStarts == \A a \in Arc : ~arc[a].chosen

\* Whatever crashes, doubled deliveries and closings at the same time do: an award
\* credits only fights of its arc's range that its character fought, nobody who
\* fought is unpaid once a hook is taken or the arc closed, and no award is in a
\* sheet twice (models/campaigns.py:472 "a re-run closing sweep (or a concurrent
\* one) can never award the same character twice for the same adventure").  Unless
\* an owner has chosen where an arc starts, so that ranges overlap, each fight is
\* credited to the arc it ended in, and so once.
XpAccounted ==
  /\ Rightful /\ NobodyUnpaid /\ SheetsBacked
  /\ DefaultStarts => RightShares /\ ClosedIsPaid

\* A job taken over from an attempt that was to be the last, by a holder that died.
Orphaned(a) == job[a].ledger = "running" /\ job[a].attempts > MaxAttempts

\* In the end the outbox row of every completed arc is retired for good, and who
\* fought in its range has been paid or the ledger holds a dead letter (service.py
\* :581-582 "can never be reselected or starve newer closing work").  Left out: a
\* late verdict of the last attempt retires the row, as exhausted, of a job whose
\* new holder then dies (worker/executor.py:464).
ClosingEnds ==
  <>[](\A a \in Arc : arc[a].status = "completed" =>
         /\ job[a].outbox = "published"
         /\ \/ \A f \in Fight : Belongs(f, a) => PartyPaid(f)
            \/ job[a].ledger = "dead_letter" \/ Orphaned(a))

\* Neither of these holds of the code (README, section 5).  The status of a paid
\* arc may stay "failed": the loser of a race writes it last.
StatusTells ==
  <>[](\A a \in Arc : arc[a].status = "completed" =>
         arc[a].closing = "succeeded" \/ job[a].ledger = "dead_letter")

\* Two arcs that close at once write the same sheet from what each has read.
SheetsShowAwards == \A a \in Arc, p \in Pc : award[a][p] # {} => sheet[p][a] = 1
=============================================================================
