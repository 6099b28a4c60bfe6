# Verification of the AI dungeon-master backend

TLA+ specifications of the parts of this repository in which several
processes, crashes and retries meet: the pipeline that turns player input into
a committed dungeon-master (DM) turn, the sweep that keeps it going, the
consolidation that follows it, the worker execution ledger, the funding of a
campaign over Stripe, the turns of an encounter under repeated commands, the
adventures and the job that pays their experience points (XP), and the row locks
that all of them take.  TLC checks small instances; TLAPS proves the
main safety properties for every size.  File names below are relative to
`backend/app/` unless they say otherwise.

| module | models | checked by | proved in |
|---|---|---|---|
| `DmTurn` | one thread of one campaign, transaction by transaction | `MCDmTurn`, four runs | `DmTurnProofs` |
| `TurnLedger` | what that thread promises its players (abstract) | as the property `KeepsLedger` | `DmTurnProofs` |
| `DmSweep` | the cron sweep over all campaigns: who is served | `MCDmSweep`, one run | `DmSweepProofs` |
| `PostTurn` | consolidation of what has been played, and the play it waits for | `MCPostTurn`, two runs | `PostTurnProofs` |
| `CheckpointLedger` | what consolidation promises of the sequence of events (abstract) | as the property `KeepsCheckpoint` | `PostTurnProofs` |
| `WorkerExecutor` | the lease-based worker ledger | `MCWorkerExecutor`, one run | `WorkerExecutorProofs` |
| `Funding` | checkout, webhooks, polls and refunds of one campaign | `MCFunding`, one run | `FundingProofs` |
| `Encounter` | the turns of one encounter, driven by idempotent commands | `MCEncounter`, one run | `EncounterProofs` |
| `AdventureClosing` | the arcs of one campaign and the job that closes them | `MCAdventureClosing`, one run | `AdventureClosingProofs` |
| `LockOrder` | the row locks of concurrent transactions | `MCLockOrder`, one run | `LockOrderProofs` |

To repeat: `tlc -config MCDmTurn.cfg MCDmTurn`, `tlapm DmTurnProofs.tla`, and
so on.  `PROJECT.json` lists components, runs, the mutants that each property
catches, the source lines of every definition, findings, hazards and theorems.

## 1. The system

The backend is a FastAPI service over one Postgres database.  There is no
queue and no resident worker: work is done in request handlers, in
best-effort background tasks after a response, and in sweeps that `pg_cron`
calls once a minute over HTTP (`backend/scripts/supabase/README.md:5-7`).  All
coordination is therefore by rows: statuses, unique indexes, row locks,
advisory locks, leases, compare-and-set.  Any process may die between two
transactions, and every piece of work can be picked up by two processes.

**The path of a turn.**  A player's submission is accepted and coordinated in
one transaction (`submissions/service.py`, `dm/turns.py:coordinate_turn`): it
opens a turn with a prepared *attempt*, widens a turn nobody sees yet (a fresh
attempt supersedes the old one), retries a failed one, or waits.  An executor
takes the attempt's advisory lock (`dm/ownership.py`), marks it running,
assembles its context, asks the model for a contract, and ends in one of four
ways: rolls are requested of players (`rolls/service.py`), the turn is committed
silently, it is narrated chunk by chunk (`dm/narration.py`, `dm/streams.py`)
and then committed, or it fails.  A commit is one transaction that resolves the
input, applies effects, appends the domain event and increments the campaign's
revision (`campaigns/events.py`); it goes through only if the revision is the
one the attempt was created on.

**What keeps it going.**  The sweep (`dm/execution.py:execute_prepared_attempts`)
recovers running attempts of dead processes, reclaims streaming ones, coordinates
input that was accepted while a turn blocked it, retries failed turns once, and
executes prepared attempts, the oldest first.  Committed turns make post-turn
work (`post_turn/`): a second cron consolidates ranges of events into facts,
canon and clocks behind a checkpoint.  It waits for a turn in flight, and a turn
waits for it when it lags too far.  Archiving a table
(`campaigns/lifecycle.py`) stops both; a restore resumes them.

**Around it.**  An encounter (`combat/`) puts players and NPCs in a turn order;
players move it by commands that run under an idempotency record
(`idempotency.py`), and an NPC's turn is a DM turn that answers a cue.  Every
commit of either goes through the campaign's revision.  Model calls are paid
from a capacity ledger (`billing/ledger.py`) that tables fund over Stripe
(`billing/stripe_funding.py`); without capacity no new DM work is accepted.

### Inventory

For each component: the state it keeps, its operations, what is hard about it,
and what makes it correct.

**Worker execution ledger** (`worker/executor.py`; *modelled*).
State: a row per job: status, attempts, claim token, lease, next retry, result.
Operations: lazy creation, claim (a conditional UPDATE that also takes over
expired leases), heartbeat on its own connection, fenced success, fenced failure
with backoff or dead letter.  Hard: a worker that lost its lease while it was
paused still runs and writes; redelivery; the last permitted attempt.  Correct:
a live handler is never doubled, one result per job, retries are bounded, a
settled job stays settled, every job settles.

**DM turns and attempts** (`dm/turns.py`; *partly*).
State: `dm_turns` (status, input set, current attempt), `dm_turn_attempts`
(status, input set, base revision, retry marks), the unique index of one active
turn per thread.  Operations: coordinate, supersede, claim, start streaming,
commit with its replay and discard paths, visible failure, recovery of stuck and
stranded attempts.  Hard: input that arrives at any moment of a turn; a commit
that is repeated; several things that replace the same failed attempt.  Correct:
exactly-once promotion, one live attempt, locked input while streaming.

**DM execution and recovery** (`dm/execution.py`, `dm/ownership.py`,
`dm/recovery.py`; *partly*).
State: none of its own besides advisory locks; what it knows it has read
earlier.  Operations: the spine of an attempt, its deferrals (dormancy,
backpressure, catch-up), failure recording, the sweep, retries, continuation of
a partial stream.  Hard: the failure and deferral paths read a status, commit,
and write later by id; the sweep has a window of a few rows.  Correct: superseded
work stays dead, only an owner executes, nobody is starved.

**Submissions, rolls, narration, streams, context** (*partly*).  Their status
changes are part of `DmTurn`; texts, segments, visibility, chunk sequences and
the content of contexts are not.  Correct: accepted input is resolved once; a
roll resumes the turn it belongs to; narration ends.

**Campaign revision, events and lifecycle** (`campaigns/events.py`,
`campaigns/lifecycle.py`, `campaigns/service.py`; *partly*).
State: revision, domain events, lobby/active/archived.  Operations: a mutation
under the campaign row lock that increments the revision; archive, restore.
Correct: a turn commits on the revision it was adjudicated on; a dormant table
stands still and is intact when it is restored.

**Post-turn consolidation and clocks** (`post_turn/service.py`,
`post_turn/backpressure.py`, `world/clocks.py`; *partly*).
State: a checkpoint per campaign, runs over event ranges, a worker row per run.
Operations: trigger by threshold, repair, sweep, run a range, defer it, retire
it, advance the checkpoint by a conditional UPDATE (`service.py:680`), an
operator's skip, the pause of the forward DM.  Hard: overlapping cumulative
ranges, two counters of attempts (the run's and the worker ledger's), clocks
that commit in the middle of a range, two parties that wait for each other.
Correct: no event is consolidated twice, out of order or while the campaign is
dormant, none is passed over but by an operator; lost triggers are made up for.

**Idempotent commands** (`idempotency.py`; *modelled*).  State: a record per
campaign, user, operation and key.  Operation: look up, insert, mutate, store
the result, commit once; a key that comes back with another payload is refused.
Hard: two requests with one key.  Correct: one mutation per key, every answer is
the stored one.  The record is inserted and completed in one transaction, so that
another request never finds it unfinished: the answer "in progress"
(`idempotency.py:141`) is not reached, and the model has none.

**Stripe funding** (`billing/stripe_funding.py`, `billing/router.py`; *partly*).
State: a row per operation, webhook receipts, ledger entries by idempotency key.
Operations: create a checkout and retry it, confirm, fail, cancel, mirror a
refund, ask Stripe.  Hard: payment, failure, expiry and refund arrive in any
order and repeatedly, and are judged by a row that is not locked.  Correct:
what was paid is credited once, nothing else is, and no refund is mirrored
against nothing.

**Encounters** (`combat/turns.py`, `combat/npc_turns.py`, `combat/ending.py`;
*partly*).  State: turn sequence, action budgets, skip votes, NPC cues.
Operations: end a turn, vote to skip it, spend an action, the DM's end of an NPC
turn or of the encounter, the cue, its reminder and the sweep.  Hard: a command
that arrives a turn late, judged by rows its request loaded before it locked
them, a DM turn that fails.  Correct: a turn ends once and rightly, a budget is
spent once, combat does not stall on an NPC unless its DM turn fails for good.

**Adventures** (`adventures/service.py`, `adventures/rewards.py`; *partly*).
State: one active arc with its range of event sequences, a closing job (an outbox
row and a worker row), awards by unique key, XP hooks of fights, XP on sheets.
Operations: start, completion by a DM turn, the sweep, the handler's follow-ups.
Hard: deliveries that overlap or are repeated, follow-ups that fail half-way, a
process that dies between the handler's commit and the outbox, arcs whose fights
end with the turn that closes them.  Correct: a fight's XP goes to its arc, to
all who fought it, and once; every job ends and leaves the outbox.

**Capacity ledger and resolution guarantee** (`billing/ledger.py`,
`billing/resolution_guarantee.py`; *partly*: credits and corrections in
`Funding`, the refusal of new work in `Encounter`).  State: append-only entries
by idempotency key.  Hard: the charge of a run is a transaction of its own after
it.  Correct: one charge per run; owed work is never refused.

**Row locks across these files** (*partly*: their order, not what is done under
them).  Correct: no ring of waiting transactions, or one that resolves.

*Not modelled yet* (section 6):

- **Streams** (`dm/streams.py`).  State: stream status, chunks by sequence.
  Hard: repeated, reordered and late chunks.  Correct: the text is a prefix of
  what was sent, and frozen once the stream is completed.
- **Epilogues** (`adventures/epilogues.py`).  State: a phase that opens and
  closes, and one row per player.  Hard: a skipped row that two submissions
  convert at once, a roll that races the close; the phase is read without a
  lock.  Correct: one canonical event for each player.
- **Decisions and providers** (`decisions/runtime.py`, `providers/runner.py`).
  Hard: fallback chains with partial answers.  Correct: one billable run per
  logical operation.
- **Charges of runs** (`billing/ledger.py`): fail-soft (`ledger.py:378`), so
  there is no promise to check beyond the unique key of an entry.

*Not modelled, and why*: membership, invites and lobby (each operation one
transaction under the campaign lock; to a turn it is `OtherMutation`); threads,
visibility, snapshots and realtime (projections and best-effort publishing);
world facts, loot, rules and their corpus (data and sequential code with unit
tests); adjudication, validators and mechanics (their verdict is a
nondeterministic outcome here); characters, auth, health, observability
(request plumbing); schema declarations; the frontend and the legacy system,
which keep no state the backend relies on; tools, evaluations and CI.

## 2. The models

### DmTurn and TurnLedger

One step is one committed database transaction.  Whatever happens between two
transactions of an executor (a model call, a read that is used later) is its
program counter `phase[x]`; `job[x]` is the attempt it works on and `owned[x]`
the attempt whose advisory lock it holds, which differ after a backpressure
refresh.  A crash resets all three and leaves the rows.

| variables | in the code |
|---|---|
| `revision`, `archived` | the campaign row |
| `submission` | `resolution_status` of each submission |
| `turnStatus`, `turnInputs`, `current` | `dm_turns` |
| `rolling` | the attempt with pending roll requests of a turn; several rolls of one turn are one flag, as only the last one moves the turn |
| `autoRetried` | the turn's automatic-retry mark |
| `status`, `turnOf`, `inputs`, `basedOn` | `dm_turn_attempts` |
| `mark` | `last_error` and `next_retry_at`, as far as a later step tells them apart |
| `stream` | `dm_streams.status` of an attempt's narration |
| `committed` | attempts with a commit event in the domain feed |

Actions bear the names of the functions they model: `Submit` (with
`CoordinateTurn`), `CoordinateStranded`, `Begin`, `DeferBackpressured`,
`RefreshStale`, `MarkRunning`, `AssembleContext`, `DeferForCatchUp`,
`AdjudicationFails`, `ArchivedAtBoundary`, `RequestRolls`, `FulfillRolls`,
`StartStreaming`, `CompleteStream`, `StreamFails`, `Remediate`, `CommitTurn`
(silent or after narration), `Abort` (a commit whose mutation failed),
`FinishWrite`, `Crash`,
`RetryFailedAdjudication`, `AutoRetry`, `RecoverPartialStream`,
`RecoverStuck`, `ReclaimStrandedStreaming`, and the rest of the campaign:
`OtherMutation`, `Archive`, `Restore`.

**Windows.**  The failure and deferral paths read an attempt's status without a
lock and write by id afterwards.  `Windows` names the writes before which other
steps may fall: a requeue, a postponement, a visible failure (also the one that
follows the rollback of a commit on a stale revision), a supersession by the
backpressure refresh.  The code has all of them, and so have the two safety runs;
in the live run, where `Windows = {}`, each write happens at its read.  The
history variable `late` becomes true when such a write is made although the
rows no longer are as its read found them (`Stands`).  It separates what
the transactions guarantee by themselves from what the unlocked reads cost:
`LiveAttemptIsCurrent` and `TurnMatchesAttempt` are promises of every history in
which nothing has been written late, however many windows are open, and the other
properties hold after a late write too, or say which write they except.

**TurnLedger** is the promise: accepted input waits, is committed in disjoint
batches, and each batch is one revision.  `DmTurn` implements it with
`waiting <- Unresolved` and `batches <- {inputs[a] : a \in committed}`.

Left out: turns without a submission (the opening turn and NPC turns use the
same rows and steps), the capacity gate of new work, other threads of the
campaign except through the revision, texts and effects.  A Retry is not
refused on an archived table, nor is another mutation of the campaign
(`OtherMutation`: a clock's event, for one); neither does the code refuse them.

### DmSweep

Many tables, one thread each, a turn being only its status; time in ticks of 30
seconds, the first retry delay.  `created` is the order in which
`find_prepared_attempts` goes, `accepted` the order of
`find_stranded_submission_threads`, `delay` the rest of `next_retry_at` or
of a dead lease.  A sweep is four steps, as in `execute_prepared_attempts`:
recover, coordinate, retry, execute; players, owners and running executions
come in between.  What one sweep claims is claimed at once: the cron asks for
one attempt (`dm/router.py:298`), and the run uses `Limit = 1`.

The queries are written with sets, so that they can be proved about: `Oldest` is
`ORDER BY ... LIMIT n`, `InOrder` the order in which the rows come, `Sift` a
`WHERE` that keeps the order.  `Stranded` is `find_stranded_submission_threads`:
the window of `ScanFactor * Limit` threads, then those of them without an active
turn, then the limit.  A thread is `Crowded` when as many threads as the window has
places are busy and have older input.

### PostTurn and CheckpointLedger

One step is one committed transaction of post-turn work, or one of the play
around it.  A run is named by its range, which is unique per campaign; so is
the worker row under which it executes.  Between two transactions of an executor
`at[w]` is its place in `run_post_turn_range`, `job[w]` the run and `eff[w]`
where the range begins once the checkpoint has been read.

| variables | in the code |
|---|---|
| `seq`, `archived` | the campaign row; its revision is the last event's sequence |
| `turn` | whether a DM turn is in flight to `dm_turn_commit_gate`, and if so whether it has been claimed |
| `cp` | `processed_through_sequence` |
| `run`, `attempts` | the `post_turn_runs` rows |
| `ledger`, `tries`, `holder` | the `worker_executions` row of each run |
| `kept` | whether the executor's session read its run as settled: its copy, not the row, decides whether a retirement writes (`service.py:549`) |
| `durable`, `consolidated`, `skipped` | ranges whose content is committed, which advanced the checkpoint, which an operator passed over |
| `decision` | an operator's skip between its reads and its writes |

Actions: `StartTurn`, `PauseTurn`, `ClaimTurn`, `CommitTurn`, `StopTurn`,
`OtherMutation`, `Archive`, `Restore` (each event through `Mutate` with the
trigger in its savepoint, which may be lost; `OtherMutation` does not ask whether
the campaign is archived, only its trigger does); `Repair`, `Claim`, `Replay` of the
sweep; `Load`, `Mark`, `CheckDormant`, `Materialize`, `TickClock`, `Fail`,
`RetireAtCommit`, `Advance`, `LoseRace` of a run, with `Defer` before every
point of no return; `Finish`, `FinishDeferred`, `DropDeferred`, `Crash`; and
`DecideSkip`, `WriteSkip`.  The worker ledger is the one of `WorkerExecutor`
with time left out: a lease is over when its holder is gone or, as an upset,
when its heartbeat stopped.

**CheckpointLedger** is the promise: events are appended, consolidated in
gap-free ranges from the checkpoint on while the campaign plays, or skipped by a
decision.  `PostTurn` implements it with its variables as they are.

Left out: what materialization, canon promotion, memory and clock criteria find
(their failure is `Fail`), the window of five candidates over several campaigns,
and the incident rows, which have a connection of their own.

### Funding

A request or a webhook delivery is one transaction of a server: it reads the
operation's row without a lock (`seen`), may ask Stripe (`found`), and writes at
its end; others come in between.  `session`, `refunded` and `events` are Stripe
and the payer, modelled from what the code asks of them: an event is delivered
until it is answered with success, and perhaps afterwards.  `row` and `keyOf`
are `campaign_funding_operations`, `receipts` is `stripe_webhook_events`, whose
unique id lets one delivery of an event at a time proceed, and `credits` and
`mirrored` are the entries of the capacity ledger, unique by idempotency key.
`handed` are the checkouts a client has been shown.

Actions: `Begin`, `Attach`, `Offer`, `OfferAgain` (checkout and its retries under
one key), `Receive`, `PollStatus`, `Ask`, `Finish` (webhook and poll, through
`ByEvent` and `ByStripe`), `RollBack`, and the payer's `Decline`, `Complete`,
`Pay`, `GiveUp`, `AskRefund`, `PayBack`.

Left out: signature, amount and currency checks (each event is genuine),
re-credits of failed runs, balances, and several campaigns, which share nothing.

### Encounter

A command is what a client sends, with what it saw of the table; it may be
delivered any number of times (`Arrive`).  `snap[s]` is what the request loaded
on arrival; then it enters its command record (`Enter`, which waits for a request
with the same identity, replays the answer of a completed command, or refuses
another one under its key), and ends in one of `EndTurn`, `CastVote`, `SkipTurn`,
`Spend`, with effect, record and result in one commit (`Commit`), in `Refuse`, when a
check fails, or in `BreakOff`, when anything else raises: that is answered 422 as
well, but nothing remains of it.  The locked query returns the session's copy,
so `Current` judges by `snap`; what saves an end of turn is the conditional
update of the campaign's revision (`Unmoved`).  Votes and budgets are read for
the first time under the lock and are fresh.

The DM side is `StartDm`, `Recoordinate` (a new cue widens a turn that is not
visible yet, or restarts one that failed, as people may), `DmFails` (whatever the
reason, a context that is out of date among them), `AutoRetryDm` (once), `DmEndsTurn`,
`DmLeavesTurn` (reminder, or forced end after the second cue) and `DmEndsEncounter`.
The sweep looks and queues in two steps (`SweepLook`, `SweepQueue`); it passes over
archived campaigns and turns with a cue that is still queued.  `Archive` and
`Restore` move the revision; `paused` is the refusal of new DM work for want of
capacity.  `turn` is the turn
sequence, `fresh` the seats with an unspent action, `spends` a count of what each
spent since its last reset, `again` the commands applied twice.

Left out: initiative (the encounter begins at its first turn), reactions and
movement (budgets like the action's), attacks and damage, maps, and joining late.

### AdventureClosing

The arcs of a campaign follow one another; `arc` is the `adventures` row with its
range of event sequences, `fight` an encounter with the sequence of its
`encounter.ended` event and that of the turn that ended it.  Two fields are
history: `during`, the arc that was active when a fight ended, and `chosen`, that
an owner gave the arc its `start_sequence`.  `StartAdventure`, `FightEnds` and
`CompleteAdventure` are the table: the start under the campaign's lock, at the next event or where the owner says
(`ChosenStarts`), and the commits of DM turns, each one transaction; a completion
stages the outbox row.  Fights end while some arc is not completed yet.

A sweep is `SelectRow`, then `Claim`, `FindSettled` or `FindBusy` at the worker
ledger, the handler, `Verdict`, and `Retire` or `MarkFailed` in a transaction of
their own; `sweeper[x]` holds its place and what its handler has read.  A handler
that failed first looks at its claim (`Look`): whether the attempts are spent is
decided there, before the fenced write, and is reported even if that write comes
too late.  The
handler reads the fights and their hooks (`CountFights`), then awards and sheets
(`ReadSheets`), and writes them all in one transaction (`CommitFollowups`) unless the
unique key of an award stops it (`Conflict`); they may also raise
(`FollowupsRaise`), as often as the attempts allow.  Faults: `Crash`, and `LeaseLost`,
a holder that is held up past its lease and then goes on.

XP is an amount in the code and a set here: `award[a][p]` is the fights credited,
`sheet[p][a]` how often that award is in the sheet, since what matters is which
fights are paid, to whom and how often.  The retry delays (60 seconds of the
outbox, the ledger's backoff) are left out: the sweep may always come round, so
that pending and failed outbox rows are alike (`due`).  The attempts of a settled
job, which decide nothing more, are forgotten.

Left out: epilogues, recaps and summaries (derived, in a savepoint of their own;
if it fails, the range ends by time instead of sequence, with the same fights),
the refusal to start an arc on an archived table, characters without a sheet.

### WorkerExecutor

One `worker_executions` row and the processes it is delivered to.  The claim,
the renewal and the verdict are single conditional UPDATEs and so single steps.
Time is counted in ticks: `job.age` is the age of the lease, `beat` that of the
last heartbeat.  A process that is not paused beats on time and writes its
verdict at once (`Tick` waits for it); a *paused* one (starved, or cut off from
the database: the heartbeat swallows the exception) does neither, and *healthy*
remembers whether it ever was.  The n-th claim's token is n.

### LockOrder

`DmTurn` treats a transaction as one step.  That is justified as far as row
locks serialize it, and `LockOrder` shows at what price: a transaction is the
sequence of rows it locks, by `SELECT ... FOR UPDATE` or by the flush of what it
wrote.  Left out: foreign-key share locks, the implicit locks of the unlocked
failure writes, the stream row, and encounter initiative rolls.

## 3. What the runs check

Every property of a passing run is refuted by a mutant of a definition that models
code (`PROJECT.json`, "mutants"; the mutants are the definitions marked
"fault:" in the modules).

| run | instance | shows |
|---|---|---|
| `dm_turn` | 2 submissions, 2 executors, 2 turns, 5 attempts, 3 upsets of any kind, crashes at every phase, all windows | `TypeOK`, `LiveAttemptIsCurrent`, `TurnMatchesAttempt`, `StreamingInputLocked`, `DormantTableStands` |
| `dm_turn_windows` | the same with 4 attempts and without post-turn lag | `ResolvedOnce`, `OneExecutor`, `KeepsLedger` do not depend on the reads being current |
| `dm_turn_live` | 2 submissions, 2 executors, 7 attempts, 2 upsets, fair | `InputAnswered`, `NarrationEnds` |
| `dm_sweep` | 2 tables, one of which fails, goes dormant and falls behind; 3 submissions; a scan window of one thread | `TypeOK`, `StrandedServed`, `ServedOnceAwake` |
| `worker_executor` | 2 workers, 1 job, 2 attempts, lease 5, heartbeat 2, 2 faults | `TypeOK`, `LiveWorkKept`, `LastClaimWins`, `AttemptsAccounted`, `SettledForever`, `JobSettles` |
| `lock_order` | 3 transactions of all 8 kinds | `TypeOK`, `RingsStartFromCampaign`, `TransactionsEnd` |
| `post_turn` | 4 events, threshold 2, lag 2, 2 attempts, 2 sweeps, archive and restore at any time, 1 upset of any kind, fair | `TypeOK`, `CheckpointAccounted`, `SucceededIsCovered`, `KeepsCheckpoint`, `RunsSettle`, `CatchesUp` |
| `funding` | 2 operations, 1 key, 2 servers, refunds in 2 parts, 1 upset, fair | `TypeOK`, `LedgerBacked`, `AnsweredIsApplied`, `OneCheckout`, `PaidIsCredited` |
| `encounter` | a player and an NPC in order, 2 more voters, 2 commands under 2 keys, 2 requests at a time, 1 sweeper, 3 turns, a DM turn that may fail, 1 upset, fair | `TypeOK`, `AnswersHold`, `TurnsEndRightly`, `NpcTurnEnds` |
| `adventure_closing` | 2 arcs, the second from any start or from the campaign's, 1 fight, 2 characters who fought it, 2 sweeps, 2 attempts, follow-ups that fail, 2 faults, fair | `TypeOK`, `XpAccounted`, `ClosingEnds` |

Two more runs each refute one statement of the repository about itself; see
section 5.

**Bounds.**  Two submissions are enough for one that is played while the other
arrives at any moment; two turns for input that has to wait for the next; four
attempts for a supersession, a retry and a continuation of one turn, five for a
supersession that is written late as well (seven in the live run, so that the
bound never is what stops a turn); two executors for every
race of the sweep with an immediate dispatch; three upsets for a crash, its
recovery and a change of the campaign in between.  Behaviours stop at these
bounds, so the runs of `DmTurn` do not check for deadlock; nor does
`worker_executor`, where a settled job is the end.  Submissions and executors
are symmetric in the safety runs.  `MaxInputs` bounds waiting submissions over
both tables of the sweep: two of one table and one of the other are the
smallest case in which scanning too few threads hides a stranded one.  The code
scans four threads for each it may coordinate; the run scans one, so that a
single busy table fills the window and the cut before the filter matters.  Delays
beyond `MaxRetries` are all at the cap (an ASSUME relates the two), so no
delay is lost.  In the worker runs the lease is more than two heartbeats, as in
the code (0.4 of a lease).  Three transactions are the smallest
number in which a ring may go through a third; the theorems of `LockOrder`
cover more.

Four events are the fewest with two overlapping cumulative ranges of a full batch
and an event to spare for what archive and restore append; `Room` keeps a place
for the event of a turn in flight, so that the bound never stops it.  One key and two operations let a retry mint a second checkout if it
could; two servers are any race of an event with a poll, an event or a retry.
Two commands are an end of turn and its repetition, two votes that make a
majority of the two others, a command of an earlier turn, or one under a key that
has been used; three turns take the order once around an NPC.  With two sweepers
the run passes as well (784,000 states), but takes four minutes.  One upset of any kind suffices for the liveness
properties, which are the costly part: each of the safety properties of
`PostTurn` and `Funding` was also checked with two (2.90 and 2.35 million
states), and the theorems hold for any number.

Two arcs and a fight are a fight of the first, of the second, between the two, or
of the turn that completes one; two sweeps any race over one job or over
two; two attempts and two faults a dead letter, a holder overtaken at any
point, and a crash between the handler's commit and the outbox.  The second arc
starts at the next event or, if its owner says so, at the beginning of the campaign,
where its range overlaps the first's; the proof is for any start.

**Fairness.**  `DmTurn`: an executor that is alive gets on (each of its steps
is weakly fair; model calls have timeouts and end in an answer or a failure),
and the sweep, called by cron for ever, coordinates stranded input, retries
failed turns once, recovers stuck attempts and reclaims ended streams.  Not
fair: players, owners, rolls, a restore, and the upsets.  `InputAnswered`
therefore ends in "resolved or up to people".  In the live run executors crash
anywhere except while they narrate, because of the stranded stream of section 5.
`DmSweep`: cron goes on (the sweep or the clock), executions end; restores and
catch-ups are not fair, so `ServedOnceAwake` assumes them.  `WorkerExecutor`:
the sweepers redeliver, handlers end, pauses end, time passes; crashes and
pauses are finitely many.  `LockOrder`: Postgres serves waiters in turn (strong
fairness of a lock), work under locks ends, the deadlock detector fires.
`PostTurn`: cron repairs and tries each candidate it can claim, an executor that
does not crash gets on, a turn that may be executed is, an operator who decided
writes; nobody has to play, restore or decide, and a clock need not move.
`Funding`: a server goes on with its request, and Stripe's retries are strong
fairness of receiving a payment's events, as every server may be busy from time to
time; nobody has to pay or poll.  `Encounter`: DM turns are executed and retried
once, the sweep comes round, a request that has been entered ends; clients and votes
are not fair, and nobody has to restart a failed turn, restore a campaign or buy
capacity, which is why `NpcTurnEnds` excepts those three (`AwaitsPeople`, archived,
paused).
`AdventureClosing`: cron selects each row that is due, a sweep that does not
crash goes on, leases run out; nobody has to end a fight or complete an arc, and
faults are finitely many.

## 4. What is proved

By TLAPS, for every value of the constants that satisfies the named ASSUMEs
(positive bounds; kinds of upsets, windows and transactions among those defined;
`DmSweep`'s set of campaigns finite;
`Heartbeat < Lease`; the last turn within the bound is a player's).
11,171 obligations; none is taken on trust.

**DmTurnProofs.**  Every theorem holds for any upsets, crash points and windows;
four assume besides that nothing is deferred for post-turn work.  `TypeCorrect`
comes from `Typed`, which adds that a busy executor has an attempt.  The first
safety theorems rest on `SoundAlways`: either a write has come late, or `Sound`
holds, which is `RowsSound` and `Working`:

- `Placed`: an attempt that exists has a turn;
- `Alive`: an active turn has a current attempt, which is its own and alive;
- `Owed`: the input of an active turn is that of its current attempt, and all of
  it is accepted and unresolved;
- `NoIdleRolls`: a turn that is over waits for no roll;
- `CommittedSucceeded`: the commit feed holds just the succeeded attempts;
- `CurrentAlone`, `RowsMatch` and `ResolvedOnce`, which are the properties
  `LiveAttemptIsCurrent` and `TurnMatchesAttempt` without their "or late", and
  exactly-once promotion;
- `Working`: an executor works on an attempt that exists.

A write that is not late finds the rows as its read did, and what it does to them
is what it would have done there; one that is late sets `late`.  That is why
`Sound` is kept through every window without a word about what an executor
between a read and its write has decided.

The properties alone are not inductive: that a commit resolves only accepted
input needs `Owed`, that no turn over is left with a pending roll `NoIdleRolls`.  The
steps are many and what they do to the rows is little, so the proof goes
through *forms*: each step Opens a turn, lets an attempt Succeed another, Moves
an attempt with its turn, Promotes, Discards or Rests (`Form`), and each
form preserves `RowsSound` (`FormSound`).  From the invariant follow
`OneLiveAttempt`, `TurnsMatch` and `ExactlyOnce`, and from the forms
`ImplementsLedger`, the refinement of `TurnLedger`: each says what holds until a
write comes late.

*After a late write* attempts and turns may be in states that do not match.  These
results hold there too:

- `PlayedIsResolved`: input is resolved exactly when a committed attempt carried
  it.  Committed attempts exist, and the input of an attempt that exists never
  changes (`KeepsInputs`).
- `DormantStands`: on an archived table nothing streams, and no attempt with a
  narration is based on the current revision, so that none can be committed
  (`Slumber`); other mutations may go on and only move the revision further away.
- `InputLocked`: a turn that streams waits for no roll (`ClearStage`), and only the
  refresh replaces an attempt without looking at its turn; the property excepts the
  one step in which a refresh of that turn is written over rows that have moved on.
- `DeadStays`: no step but a late write to that very attempt takes it out of a dead
  status (`Buries`).
- `ExecutorsApart`, `OnceInWindows` and `LedgerInWindows`, as long as nothing is
  deferred for post-turn work (`NoDeferral`).  Then the advisory lock is
  always that of the attempt (`Held`), and what an executor has in its hands
  nobody else commits or fails; the rest of the invariant `Firm` is about rows
  that need not match (`Rooted`, `OneActive`, `RollsPlaced`), commits that nothing
  follows (`Closed`) and input that is owed (`OpenOwed`).  Each step opens a turn,
  rests, Continues, Touches or Concludes (`Shape`).  `NoDeferral` is needed:
  after a refresh the executor holds the lock of another attempt, and then a
  window lets input be played twice (section 5, `played_twice`).

**DmSweepProofs.**  `QueueFitsTurns` is `TypeOK`, which here is the consistency of
the queue with the turns and of the log of accepted input with both: `created`
holds each table with an attempt once and no other, and a table has taken input
exactly if it has a turn.  `FirstComeFirstServed` (`NobodyPushesIn`, an action
property): no step puts anybody before an attempt that waits, unless the players
of its own table write.  What the ordering operators return would be shown by
induction over a sequence, which is out of reach; instead, `InOrderFacts` counts:
the rank of an element is the number of those at most as old, an injection of a
finite set into an interval of its size, hence a bijection.  So `Campaign` is
assumed to be finite, as the tables of a database are.  `SiftFacts` then says that
a sifted sequence has the chosen places in their order.

**WorkerExecutorProofs.**  `TypeCorrect`, then the invariant `Safe`: tokens
are unique and the row's is the last (`TokenInv`); a healthy handler's lease is
no older than its last heartbeat, and the row is its own (`BeatInv`); each takeover, and a running row
without a healthy holder, is paid for by a fault of its own (`FaultInv`); the
attempt budget holds status by status (`BudgetInv`); results are fenced
(`ResultInv`).  It yields `HeartbeatProtectsLiveWork`, `FencedResult` (with `OneResult`),
`BoundedRetries` and `SettledStays`, for any number of workers and any lease
that is longer than a heartbeat.

**LockOrderProofs.**  Rows have a rank: roll, turn, attempt, encounter, campaign.
Every plan but those of `CampaignFirst` climbs it.  In a set of waiting
transactions that all climb, one whose wanted row has the highest rank waits for
a row that its holder can only have locked before wanting a higher one, which
is a contradiction (`NoRing`).  Hence `RingsHaveACause`, and
`NoCauseNoRing`: without the transactions that lock the campaign first there
is never a ring, among any number of processes.

**PostTurnProofs.**  The safety properties are not inductive: that an advance
leaves no gap needs that every effective range in work begins no later than after
the checkpoint.  The invariant `Inv` adds `Staged`, `Working` and `Decided` (a
run, a sweep's job and an operator's decision name a range that begins at or
before the next event and ends at one that exists), `Effectual` (what a sweep read
of the checkpoint is old but not wrong), `Behind` (nothing beyond the
checkpoint is consolidated) and `Reserve` (the bound has room for the event of a
turn in flight).  Each action is shown to be a `GoodStep`, a conjunction over the parts
of the state in which the checkpoint stays, advances over the range behind
it, or is moved by an operator; `GoodStep` preserves `Inv` and maps to a step of
`CheckpointLedger`.  Theorems: `TypeCorrect`, `Accounted`, `Covered`, and the
refinement `ImplementsCheckpoint`, for any events, batch size, sweeps and upsets.

**FundingProofs.**  `Truthful`: an event says something that stays true.
`Reading`: what a request has read may be out of date but not wrong about what
is final.  `Minting`: a checkout is opened once, by one request, under a key
nobody else holds.  `Recorded` and `Fallow`: a row stands for an opened
checkout and says why it is closed.  With `LedgerBacked` and
`AnsweredIsApplied` they are inductive; every action is a `Step`, in which what is
final grows and what is new is as the invariant says.  Theorems: `TypeCorrect`,
`Backed`, `Applied`, `Single`.

**EncounterProofs.**  The argument is the revision: it grows with every turn, so a
command that names the current one was sent in the current turn (`Timely`), and
what a request arrived to is no older than its command and no newer than the
campaign (`Requests`).  `Entered` says that one request at a time works under an
identity, and under none that is completed; `Declined` that an end of turn is only
refused by a check once the campaign has moved on, is archived (which takes another
revision to undo) or its key was used for something else, so that it can never
succeed later.  Nothing of the kind holds of one whose transaction broke off, of
which `Answers` therefore says nothing.
Theorems: `TypeCorrect`, `Answers`, and `RightlyEnded`, the action property, for
any members, order, requests and upsets.

**AdventureClosingProofs.**  `Accounted` holds for any fights, parties, arcs,
sweepers and faults, and wherever owners let arcs start.  Its invariant has two
parts.  `Loose` holds whatever the starts are: an award credits only
fights of the arc's range that its character fought (`Rightful`); a fight's hook is
taken, and an arc closed, only when all who fought have been paid by some arc
(`NobodyUnpaid`); no award is in a sheet twice (`SheetsBacked`).  It needs nothing of
the timeline but that a range which is over gains no fights (`RangeStands`), and
that whoever has an arc's award lacks nothing of its range (`AwardsCover`), on which
a second handler of the same arc relies.

`Inv` holds as long as no owner has chosen a start (`DefaultStarts`, which never
becomes true again: `ChoiceStands`).  `Timeline`: one arc is active at a time, and
the range of an arc holds the fights that ended during it and no others; hence the
handler's query is exact (`BelongsExactly`).  `Staged`: jobs, awards and closing
states belong to completed arcs, whose fights can no longer change (`FoughtStands`).
`Credits`: a credited fight has paid all who fought it.  `Reading`: what a sweeper
has read is out of date at most in what has been paid since.  A commit under the
unique key therefore writes whole shares (`CommitPays`); every other step pays
nothing (`NothingPaid`).

**Only model-checked**: all liveness (`InputAnswered`, `NarrationEnds`,
`StrandedServed`, `ServedOnceAwake`, `JobSettles`, `TransactionsEnd`,
`RunsSettle`, `CatchesUp`, `PaidIsCredited`, `NpcTurnEnds`, `ClosingEnds`), since TLAPS
does not reason about ENABLED and fairness.  Every invariant and every action
property of a passing run is the subject of a theorem.

## 5. Findings

Each is a run in which TLC refutes what a comment or docstring of the code says;
`PROJECT.json` quotes the lines.

1. `played_twice`: a visible failure that was decided on before a commit of the
   same attempt by somebody else is written after it
   (`dm/execution.py:946`); the automatic retry plays the input again.  Somebody
   else gets at the attempt only after a deferral, as `OnceInWindows` shows.
2. `backpressure_wait`: a turn that is deferred for its backlog stays prepared
   and is therefore in flight to the gate that defers the consolidation of that
   backlog (`post_turn/service.py:588`); neither goes on.

Properties that the modules define and TLC refutes when asked, without a run of
their own:

- `DormancyIsNotFailure` (`DmTurn`): an attempt that archive catches is put back as
  it was, and fails on its stale revision after the restore
  (`dm/execution.py:1003`, against `:180` and `:1014`).
- `NarrationEnds` with crashes during narration: a process that dies while it
  narrates leaves attempt, turn and stream streaming, and no sweep takes them up
  (`dm/turns.py:1592`, against `:1457`).
- `OneExecutor` with post-turn lag: the backpressure refresh goes on with a
  successor that its advisory lock does not name (`dm/execution.py:1137`).
- `PreparedServed` (`DmSweep`): a dormant table's prepared attempt is selected and
  skipped by every sweep, and younger attempts wait for ever
  (`dm/execution.py:1222`).  The same for a table that stays behind its
  post-turn work, when its retry delay is shorter than the sweep's period.
- `NoDeadlock` (`LockOrder`): coordination, retries and roll fulfilment lock the
  campaign first, pipeline boundaries last (`dm/turns.py:421`); Postgres aborts
  one of a ring.
- `DormantWorldFrozen` (`PostTurn`): a run that is retired at its commit because the
  campaign was archived meanwhile commits what it has flushed
  (`post_turn/service.py:549`, against the comment at `:240`), and a clock's
  event may come after the archive.
- `ConfirmedStays` (`Funding`): a failure signal that has read the operation while
  it was pending commits after its payment was credited and turns `confirmed`
  into `failed` (`billing/stripe_funding.py:518`, against the docstring at `:513`);
  the credit stays.
- `StatusTells` (`AdventureClosing`): a holder that lost its lease is stopped by
  the unique key of the awards and records "failed" over the "succeeded" of the
  one that overtook it (`adventures/service.py:457`); the ledger has settled and the
  outbox row is retired, so nothing corrects it.
- `SheetsShowAwards` (`AdventureClosing`): two closings at once add to the sheet
  each has read (`adventures/rewards.py:207`, no lock), and one of the two awards is
  on record and not in the sheet.
- `RightShares` and `ClosedIsPaid` once an owner has chosen a start
  (`AdventureClosing`; `XpAccounted` states them under `DefaultStarts`): an arc that
  was given an earlier start (`adventures/service.py:174`) has the fights of its
  predecessor in its range; whichever closes first is credited, and both if they close
  at once (`adventures/rewards.py:162` reads the hook that `:25` says prevents it).
  A start in the future leaves the fights before it unpaid.
- `SpentInItsTurn` (`Encounter`): a spend of an earlier turn that is judged by the
  rows of its arrival is taken from the budget of a later turn of the same
  seat (`combat/turns.py:342`).  `lock_encounter` (`combat/service.py:74`)
  lacks the `populate_existing` that `dm/turns.py:1049` explains.

Further behaviours that the modules reproduce:

- `CurrentAlone`, `RowsMatch` and, after a deferral for post-turn work,
  `ResolvedOnce` fail once a write comes late: a requeue that was decided on before a
  supersession makes the old attempt prepared again, a late failure reopens a turn;
- a table whose stranded input is `Crowded` out of the scan window is not served
  while it is: with the code's factor of 4, by four busy threads with older input
  for each unit of Limit (`dm/turns.py:203-226`).  `StrandedServed` is conditional
  on that not going on for ever;
- about `BackoffCap / Period` (10) tables that fail retriably for ever fill a
  window of one, even at the longest delay;
- a clock that moves commits the session, and with it the materialization of a
  range whose checkpoint has not moved (`post_turn/service.py:638-643` speaks of one
  atomic commit); a run that fails afterwards is repeated over a longer range;
- a stale progress marker of an executor that lost its lease may leave a run
  "running" although it succeeded, or overwrite an operator's skip;
- a run whose worker row is dead-lettered while its own attempts are below the
  limit stays a candidate of the sweep and counts as coverage of its range
  (`post_turn/service.py:1044`), so repair stages nothing; this is what
  `Exhausted` excepts from `RunsSettle` and `CatchesUp`;
- a table may be archived with a prepared turn (`campaigns/lifecycle.py:69`), which
  counts as in flight all the same (`dm/turns.py:328`), so that the pending run
  behind it is deferred by every sweep until a restore (`Shelved`);
- a deferral that two sweeps take back lets both of them run the job.  If archive
  makes the first retire the run, with its worker row succeeded, the marker of the other
  (`post_turn/service.py:431`) writes "running" over "skipped"; if that one then
  dies, the run stays a candidate whose old result is replayed by every sweep
  (`Overmarked`);
- a success that Stripe announces after a declined attempt has closed the operation
  is ignored (`FailureTold` in `PaidIsCredited`), and so is a refund judged while
  the operation reads failed;
- two sweeps that look before either queues give an NPC's turn two first cues,
  so that it ends without a reminder (`combat/npc_turns.py:97` says once per turn);
- any exception of a command, a deadlock's victim among them, is answered 422
  (`combat/router.py:341` and `:279`) like a check that fails; no record remains, so
  that an end of turn a client was told had failed may take effect when it is
  delivered again.  `AnswersHold` speaks of what a check refused;
- a DM turn that answers an NPC's cue and fails a second time waits for people, and
  because its cue is still queued the sweep passes over that encounter
  (`combat/npc_turns.py:191`; `AwaitsPeople` in `NpcTurnEnds`);
- a failed attempt that exhausts the budget looks at its claim
  (`worker/executor.py:412`) and then writes fenced (`:450`); if its lease is taken
  over in between, it reports the job as exhausted all the same (`:464`) and the
  sweep retires the outbox row.  Should the new holder die, nobody selects the row
  again and the party is not paid.  `Orphaned` excepts this from `ClosingEnds`, which
  TLC refutes without the exception.

## 6. Plan

Modules 1-8 are written, in this order.

1. `WorkerExecutor` with proofs, the protocol that several parts run on.
2. `DmTurn` and `TurnLedger` with proofs, the system's core.
3. `DmSweep` with proofs: fairness among tables.
4. `LockOrder` with proofs: what makes a transaction a step.
5. `PostTurn` and `CheckpointLedger` with proofs, composed with the claim and
   dead-letter rules of `WorkerExecutor` and with the turn of `DmTurn` as far as
   the two wait for each other.
6. `Funding` with proofs: credits, corrections and checkouts in any order of
   events.
7. `Encounter` with proofs, under the idempotent command record.
8. `AdventureClosing` with proofs, over the claim, fence and dead letter of
   `WorkerExecutor`.

Left, in the order of their worth:

9. `DmStream`: chunks against an abstract append-only text.
10. `ProviderFailover` and the charge of a run: one billable run per operation.
11. Proofs: what `OneExecutor` and `KeepsLedger` need where post-turn work defers
    attempts but no supersession is written late; the safety half of the liveness
    properties (what a prepared attempt or an owed event waits for).

The project keeps a dozen runs.  A new module brings one passing run; the
smaller findings then become remarks of section 5.
