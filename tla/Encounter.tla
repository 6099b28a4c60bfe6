----------------------------- MODULE Encounter -----------------------------
(***************************************************************************)
(* The turns of one encounter (app/combat/turns.py, npc_turns.py), driven   *)
(* by commands that clients send once, twice or late and that run under the *)
(* idempotent command record (app/idempotency.py, app/combat/router.py).    *)
(*                                                                         *)
(* A request loads the encounter and the campaign when it arrives, then     *)
(* inserts its command record, then locks the rows.  The locked query hands *)
(* back the copies the session already holds, so it judges by what it saw   *)
(* on arrival; rows it has not read before (votes, budgets) are fresh.      *)
(***************************************************************************)
EXTENDS Naturals, FiniteSets

CONSTANTS User,        \* members of the campaign
          Order,       \* the turn order: a player, or Dm for an NPC
          Dm,
          Keys,        \* idempotency keys of a user, in the order of their use
          Server,      \* requests served at the same time
          Sweeper,     \* cron processes that sweep
          MaxTurn,     \* bound: turns of the encounter
          MaxSends,    \* bound: commands
          MaxUpsets    \* bound: crashes, errors, lost answers, pauses, archives,
                       \* mutations, messages, retries by people

Seats == DOMAIN Order
Active(t) == ((t - 1) % Cardinality(Seats)) + 1
Player(t) == Order[Active(t)]

ASSUME EncounterAssumption ==
  /\ MaxTurn \in Nat \ {0} /\ MaxSends \in Nat /\ MaxUpsets \in Nat
  /\ Keys \subseteq Nat
  /\ Dm \notin User /\ IsFiniteSet(User) /\ Cardinality(Seats) \in Nat \ {0}
  /\ Seats = 1..Cardinality(Seats) /\ Order \in [Seats -> User \cup {Dm}]
  /\ Player(MaxTurn) # Dm

VARIABLES
  turn, ended,      \* the encounters row: turn_sequence, status
  rev, archived,    \* the campaign row
  votes, fresh,     \* skip votes <<turn, voter>>; seats whose action is unspent
  sent, done,       \* commands sent; completed command records
  confirmed, refused,  \* commands a client was told succeeded, or a check refused
  again, spends,    \* history: commands applied twice; actions since the reset
  job, phase, snap, \* of each request: command, place, and the rows it arrived to
  cues, open,       \* NPC cues queued; those no DM turn has answered
  dm,               \* the DM turn in progress: the cues it answers, its revision,
                    \* whether it failed visibly and used its automatic retry
  plan,             \* of each sweeper: the cue it is about to queue
  paused, upsets    \* new AI work is refused for want of capacity

encounter == <<turn, ended, rev, archived, votes, fresh, spends>>
commands == <<sent, done, confirmed, refused, again>>
requests == <<job, phase, snap>>
npc == <<cues, open, dm, plan>>
vars == <<encounter, commands, requests, npc, paused, upsets>>

Turn == 1..MaxTurn
Kind == {"end", "vote", "spend"}
Command == [kind : Kind, user : User, turn : Turn, rev : Nat, key : Keys]
Snapshot == [turn : Turn, ended : BOOLEAN, rev : Nat, archived : BOOLEAN]
Cue == [turn : Turn, reminder : BOOLEAN, nth : Nat]
None == [kind |-> "none"]
NoDm == [on |-> FALSE, failed |-> FALSE, retried |-> FALSE, cues |-> {}, rev |-> 0]
NoSnap == [turn |-> 1, ended |-> FALSE, rev |-> 0, archived |-> FALSE]

TypeOK ==
  /\ turn \in Turn /\ ended \in BOOLEAN /\ rev \in Nat /\ archived \in BOOLEAN
  /\ votes \subseteq Turn \X User /\ fresh \subseteq Seats /\ spends \in [Seats -> Nat]
  /\ \A c \in sent : c \in Command
  /\ UNION {done, confirmed, refused, again} \subseteq sent
  /\ job \in [Server -> sent \cup {None}] /\ phase \in [Server -> {"idle", "loaded", "entered"}]
  /\ snap \in [Server -> Snapshot]
  /\ \A q \in cues : q \in Cue
  /\ open \subseteq cues /\ dm.cues \subseteq cues /\ dm.rev \in Nat
  /\ dm.on \in BOOLEAN /\ dm.failed \in BOOLEAN /\ dm.retried \in BOOLEAN
  /\ plan \in [Sweeper -> Cue \cup {None}]
  /\ paused \in BOOLEAN /\ upsets \in 0..MaxUpsets

\* Initiative is complete and turn 1 has begun; it is a player's.
Init ==
  /\ Order[1] # Dm
  /\ turn = 1 /\ ended = FALSE /\ rev = 0 /\ archived = FALSE
  /\ votes = {} /\ fresh = Seats /\ spends = [x \in Seats |-> 0]
  /\ sent = {} /\ done = {} /\ confirmed = {} /\ refused = {} /\ again = {}
  /\ job = [s \in Server |-> None] /\ phase = [s \in Server |-> "idle"]
  /\ snap = [s \in Server |-> NoSnap]
  /\ cues = {} /\ open = {} /\ dm = NoDm /\ plan = [w \in Sweeper |-> None]
  /\ paused = FALSE /\ upsets = 0

Upset == upsets < MaxUpsets /\ upsets' = upsets + 1

-----------------------------------------------------------------------------
(* Turns.                                                                  *)

Eligible(target) == User \ {target}
Threshold(n) == IF n \div 2 + 1 > 1 THEN n \div 2 + 1 ELSE 1
Voters(t) == {u \in User : <<t, u>> \in votes}
NpcTurn == ~ended /\ Player(turn) = Dm
CuesOf(t) == {q \in cues : q.turn = t}

\* skip_tally with the vote being cast.
Reached(t, voter) ==
  Cardinality(Voters(t) \cup {voter}) >= Threshold(Cardinality(Eligible(Player(t))))

\* queue_npc_turn: the cue of turn t, unless it is queued or capacity is out.
Queue(t, reminder, known, left) ==
  IF Player(t) = Dm /\ ~paused /\ ~\E q \in known : q.turn = t /\ q.reminder = reminder
  THEN LET cue == [turn |-> t, reminder |-> reminder, nth |-> Cardinality(known) + 1]
       IN cues' = known \cup {cue} /\ open' = left \cup {cue}
  ELSE cues' = known /\ open' = left

\* fault: the order is not started again after its last seat
FollowingOnward(seat) == seat + 1

Following(seat) == IF seat = Cardinality(Seats) THEN 1 ELSE seat + 1

\* _advance_state and its two events: from turn t to the next, whose player
\* gets a whole budget.
Advance(t, left) ==
  /\ turn' = t + 1
  /\ fresh' = fresh \cup {Following(Active(t))}
  /\ spends' = [spends EXCEPT ![Following(Active(t))] = 0]
  /\ rev' = rev + 2
  /\ Queue(t + 1, FALSE, cues, left)

-----------------------------------------------------------------------------
(* Clients.                                                                *)

\* A client sends what its view of the table allows, under its next key or one it
\* has used before, and may deliver it any number of times.
Send(c) ==
  /\ Cardinality(sent) < MaxSends /\ c \notin sent
  /\ c.turn = turn /\ ~ended
  /\ c.rev = IF c.kind = "spend" THEN 0 ELSE rev  \* a spend names no revision
  /\ c.kind \in {"end", "spend"} => Player(turn) = c.user
  /\ c.kind = "vote" => Player(turn) \notin {c.user, Dm}
  /\ c.kind \in {"end", "vote"} => turn < MaxTurn
  /\ \A k \in Keys : k < c.key => \E d \in sent : d.user = c.user /\ d.key = k
  /\ sent' = sent \cup {c}
  /\ UNCHANGED <<encounter, done, confirmed, refused, again, requests, npc, paused, upsets>>

-----------------------------------------------------------------------------
(* Requests.                                                               *)

\* The endpoint loads campaign and encounter.
Arrive(s, c) ==
  /\ phase[s] = "idle" /\ c \in sent
  /\ job' = [job EXCEPT ![s] = c] /\ phase' = [phase EXCEPT ![s] = "loaded"]
  /\ snap' = [snap EXCEPT ![s] =
                 [turn |-> turn, ended |-> ended, rev |-> rev, archived |-> archived]]
  /\ UNCHANGED <<encounter, commands, npc, paused, upsets>>

Leave(s) ==
  /\ job' = [job EXCEPT ![s] = None] /\ phase' = [phase EXCEPT ![s] = "idle"]
  /\ snap' = [snap EXCEPT ![s] = NoSnap]

\* fault: the command record is not looked up and not unique
EnterAnyway(s) ==
  /\ phase[s] = "loaded"
  /\ phase' = [phase EXCEPT ![s] = "entered"]
  /\ UNCHANGED <<encounter, commands, job, snap, npc, paused, upsets>>

\* The identity of a command record: actor, key, type and scope, which is the
\* encounter or, for a spend, the participant.
Identity(c) == <<c.user, c.key, c.kind, IF c.kind = "spend" THEN Active(c.turn) ELSE 0>>
Recorded(c) == {d \in done : Identity(d) = Identity(c)}

\* execute_idempotent_command inserts its record, which waits for another
\* transaction's record of the same identity.  A completed record is replayed, or
\* refuses a command that asks for something else.
Enter(s) ==
  /\ phase[s] = "loaded"
  /\ \A r \in Server : phase[r] = "entered" => Identity(job[r]) # Identity(job[s])
  /\ \/ /\ Recorded(job[s]) = {}
        /\ phase' = [phase EXCEPT ![s] = "entered"]
        /\ UNCHANGED <<confirmed, refused, job, snap>>
     \/ /\ job[s] \in done
        /\ confirmed' = confirmed \cup {job[s]} /\ Leave(s) /\ UNCHANGED refused
     \/ /\ Recorded(job[s]) \ {job[s]} # {}
        /\ refused' = refused \cup {job[s]} /\ Leave(s) /\ UNCHANGED confirmed
  /\ UNCHANGED <<encounter, sent, done, again, npc, paused, upsets>>

\* Effect, record and result commit together; the answer may be lost.
Commit(s) ==
  /\ done' = done \cup {job[s]}
  /\ again' = IF job[s] \in done THEN again \cup {job[s]} ELSE again
  /\ \/ confirmed' = confirmed \cup {job[s]} /\ UNCHANGED upsets
     \/ Upset /\ UNCHANGED confirmed
  /\ Leave(s)

\* fault: the revision the client saw is not compared
UnmovedLoose(s) == TRUE

\* The conditional update of the campaign's revision: nothing that bumps it has
\* happened since the client looked.
Unmoved(s) == job[s].rev = snap[s].rev /\ job[s].rev = rev

\* What every command checks first, on the rows the request arrived to.
Current(s) ==
  /\ phase[s] = "entered"
  /\ ~snap[s].archived /\ ~snap[s].ended /\ job[s].turn = snap[s].turn

EndTurn(s) ==
  /\ Current(s) /\ job[s].kind = "end" /\ Player(snap[s].turn) = job[s].user
  /\ Unmoved(s)
  /\ Advance(snap[s].turn, open)
  /\ Commit(s)
  /\ UNCHANGED <<ended, archived, votes, sent, refused, dm, plan, paused>>

CanVote(s) == Current(s) /\ job[s].kind = "vote" /\ Player(snap[s].turn) \notin {job[s].user, Dm}

CastVote(s) ==
  /\ CanVote(s) /\ ~Reached(snap[s].turn, job[s].user)
  /\ votes' = votes \cup {<<snap[s].turn, job[s].user>>}
  /\ Commit(s)
  /\ UNCHANGED <<turn, ended, rev, archived, fresh, spends, sent, refused, npc, paused>>

SkipTurn(s) ==
  /\ CanVote(s) /\ Reached(snap[s].turn, job[s].user) /\ Unmoved(s)
  /\ votes' = votes \cup {<<snap[s].turn, job[s].user>>}
  /\ Advance(snap[s].turn, open)
  /\ Commit(s)
  /\ UNCHANGED <<ended, archived, sent, refused, dm, plan, paused>>

Spend(s) ==
  LET seat == Active(snap[s].turn) IN
  /\ Current(s) /\ job[s].kind = "spend" /\ Order[seat] = job[s].user /\ seat \in fresh
  /\ fresh' = fresh \ {seat}
  /\ spends' = [spends EXCEPT ![seat] = @ + 1]
  /\ Commit(s)
  /\ UNCHANGED <<turn, ended, rev, archived, votes, sent, refused, npc, paused>>

\* A check that fails rolls the transaction back and answers with an error.
Refuse(s) ==
  /\ phase[s] = "entered"
  /\ \/ ~Current(s)
     \/ job[s].kind = "end" /\ ~Unmoved(s)
     \/ CanVote(s) /\ Reached(snap[s].turn, job[s].user) /\ ~Unmoved(s)
     \/ job[s].kind = "spend" /\ Active(snap[s].turn) \notin fresh
  /\ refused' = refused \cup {job[s]}
  /\ Leave(s)
  /\ UNCHANGED <<encounter, sent, done, confirmed, again, npc, paused, upsets>>

\* So does any other exception, a lost deadlock or connection: it is answered 422,
\* as if the command could not be carried out, and no record of it remains.
BreakOff(s) ==
  /\ phase[s] = "entered" /\ Upset
  /\ Leave(s)
  /\ UNCHANGED <<encounter, commands, npc, paused>>

Crash(s) ==
  /\ phase[s] # "idle" /\ Upset
  /\ Leave(s)
  /\ UNCHANGED <<encounter, commands, npc, paused>>

-----------------------------------------------------------------------------
(* The DM's side.                                                          *)

DmGoes(cs, retried) == dm' = [on |-> TRUE, failed |-> FALSE, retried |-> retried,
                                cues |-> cs, rev |-> rev]

\* coordinate_npc_turn: a DM turn answers the cues that wait, and whatever the
\* players wrote meanwhile; they may also start one themselves.
StartDm ==
  /\ ~dm.on /\ ~archived
  /\ IF open # {} THEN UNCHANGED upsets ELSE Upset
  /\ DmGoes(open, FALSE)
  /\ UNCHANGED <<encounter, commands, requests, cues, open, plan, paused>>

\* A cue that comes while nothing of the turn is visible widens it; one that
\* comes, or a person who asks, after it failed starts it again.
Recoordinate ==
  /\ dm.on /\ ~archived
  /\ \/ open # dm.cues /\ DmGoes(open, dm.retried) /\ UNCHANGED upsets
     \/ dm.failed /\ DmGoes(dm.cues, dm.retried) /\ Upset
  /\ UNCHANGED <<encounter, commands, requests, cues, open, plan, paused>>

\* The turn fails visibly: the model or its answer, or another mutation has
\* overtaken its context.
DmFails ==
  /\ dm.on /\ ~dm.failed /\ ~archived
  /\ dm' = [dm EXCEPT !.failed = TRUE]
  /\ UNCHANGED <<encounter, commands, requests, cues, open, plan, paused, upsets>>

\* auto_retry_failed_adjudications: once; then people decide.
AutoRetryDm ==
  /\ dm.on /\ dm.failed /\ ~dm.retried
  /\ DmGoes(dm.cues, TRUE)
  /\ UNCHANGED <<encounter, commands, requests, cues, open, plan, paused, upsets>>

DmCommits == dm.on /\ ~dm.failed /\ ~archived /\ dm.rev = rev /\ dm' = NoDm
Left == open \ dm.cues

\* The turn's own event, then those of the turn it ends.
DmAdvance ==
  /\ turn' = turn + 1
  /\ fresh' = fresh \cup {Following(Active(turn))}
  /\ spends' = [spends EXCEPT ![Following(Active(turn))] = 0]
  /\ rev' = rev + 3
  /\ Queue(turn + 1, FALSE, cues, Left)

\* dm_end_npc_turn, the DM ends the active NPC's turn, at most one per commit.
DmEndsTurn ==
  /\ DmCommits /\ NpcTurn
  /\ DmAdvance
  /\ UNCHANGED <<ended, archived, votes, commands, requests, plan, paused, upsets>>

\* fault: the turn is reminded of but never ended
HeedlessNever == FALSE

\* settle_npc_turn: the second cue of a turn was not heeded either.
Heedless == Cardinality(CuesOf(turn)) >= 2

\* The DM turn leaves the NPC's turn open: code reminds once, then ends it.
DmLeavesTurn ==
  /\ DmCommits
  /\ IF NpcTurn /\ CuesOf(turn) \cap dm.cues # {}
     THEN IF Heedless
          THEN DmAdvance
          ELSE /\ Queue(turn, TRUE, cues, Left)
               /\ rev' = rev + 1 /\ UNCHANGED <<turn, fresh, spends>>
     ELSE rev' = rev + 1 /\ open' = Left /\ UNCHANGED <<turn, fresh, spends, cues>>
  /\ UNCHANGED <<ended, archived, votes, commands, requests, plan, paused, upsets>>

\* An end_encounter effect.
DmEndsEncounter ==
  /\ DmCommits /\ ~ended
  /\ ended' = TRUE /\ rev' = rev + 2 /\ open' = Left
  /\ UNCHANGED <<turn, archived, votes, fresh, spends, commands, requests, cues, plan, paused, upsets>>

\* queue_missing_npc_turns reads, without a lock, that a cue is owed ...
SweepLook(w) ==
  /\ plan[w] = None /\ NpcTurn /\ ~archived /\ ~paused
  /\ CuesOf(turn) \cap open = {} /\ Cardinality(CuesOf(turn)) <= 1
  /\ plan' = [plan EXCEPT ![w] =
       [turn |-> turn, reminder |-> CuesOf(turn) # {}, nth |-> 0]]
  /\ UNCHANGED <<encounter, commands, requests, cues, open, dm, paused, upsets>>

\* ... and queues it, unless the locked campaign is archived by now.
SweepQueue(w) ==
  LET cue == [plan[w] EXCEPT !.nth = Cardinality(cues) + 1] IN
  /\ plan[w] # None
  /\ IF archived THEN UNCHANGED <<cues, open>>
     ELSE cues' = cues \cup {cue} /\ open' = open \cup {cue}
  /\ plan' = [plan EXCEPT ![w] = None]
  /\ UNCHANGED <<encounter, commands, requests, dm, paused, upsets>>

-----------------------------------------------------------------------------
(* The campaign around the encounter.                                      *)

Mutate ==  \* any other mutation of the campaign
  /\ Upset
  /\ rev' = rev + 1
  /\ UNCHANGED <<turn, ended, archived, votes, fresh, spends, commands, requests, npc, paused>>

Archive ==
  /\ ~archived /\ Upset
  /\ archived' = TRUE /\ rev' = rev + 1
  /\ UNCHANGED <<turn, ended, votes, fresh, spends, commands, requests, npc, paused>>

Restore ==
  /\ archived
  /\ archived' = FALSE /\ rev' = rev + 1
  /\ UNCHANGED <<turn, ended, votes, fresh, spends, commands, requests, npc, paused, upsets>>

Pause ==
  /\ ~paused /\ Upset
  /\ paused' = TRUE
  /\ UNCHANGED <<encounter, commands, requests, npc>>

Resume ==
  /\ paused /\ paused' = FALSE
  /\ UNCHANGED <<encounter, commands, requests, npc, upsets>>

Serve(s) == Enter(s) \/ EndTurn(s) \/ CastVote(s) \/ SkipTurn(s) \/ Spend(s) \/ Refuse(s)
DmStep == StartDm \/ DmFails \/ AutoRetryDm \/ DmEndsTurn \/ DmLeavesTurn \/ DmEndsEncounter

Next ==
  \/ \E k \in Kind, u \in User, i \in Keys :
       \E r \in {0, rev} : Send([kind |-> k, user |-> u, turn |-> turn, rev |-> r, key |-> i])
  \/ \E s \in Server : (\E c \in sent : Arrive(s, c)) \/ Serve(s) \/ BreakOff(s) \/ Crash(s)
  \/ DmStep \/ Recoordinate
  \/ \E w \in Sweeper : SweepLook(w) \/ SweepQueue(w)
  \/ Mutate \/ Archive \/ Restore \/ Pause \/ Resume

Spec == Init /\ [][Next]_vars

\* DM turns are executed, retried once and swept; a request that has begun goes on.
\* Nobody has to restart a failed turn, to restore or to buy capacity.
Fairness ==
  /\ WF_vars(DmStep)
  /\ \A w \in Sweeper : WF_vars(SweepLook(w)) /\ WF_vars(SweepQueue(w))
  /\ \A s \in Server : WF_vars(Serve(s))
FairSpec == Spec /\ Fairness

-----------------------------------------------------------------------------
(* Properties.                                                             *)

\* Turns follow one another, and each is ended by who may end it: a player's by
\* a command of that player for that very turn or by a majority of the others
\* who voted in that very turn, an NPC's by the DM.  (Commands are late, double
\* and judged by rows that may be out of date.)
EndedBy(c) == c.kind = "end" /\ c.user = Player(turn) /\ c.turn = turn
TurnsEndRightly ==
  [][turn' # turn =>
       /\ turn' = turn + 1
       /\ \/ \E c \in done' \ done : EndedBy(c)
          \/ /\ Player(turn) # Dm
             /\ 2 * Cardinality({u \in User : <<turn, u>> \in votes'})
                  > Cardinality(Eligible(Player(turn)))
          \/ Player(turn) = Dm /\ dm.on]_vars

\* What a client was told is so: a command it was told succeeded has been
\* applied, once however often it was delivered; an end of turn that a check
\* refused (a stale turn or revision, an archived table, a key used for something
\* else) never takes effect; and no seat acts twice on one budget.  An end of turn
\* whose transaction broke off is answered 422 too (router.py:279, 341) and may
\* take effect when it is delivered again: nothing is promised of it.
AnswersHold ==
  /\ confirmed \subseteq done /\ again = {}
  /\ \A c \in refused \cap done : c.kind # "end"
  /\ \A x \in Seats : spends[x] <= 1 /\ (x \in fresh => spends[x] = 0)

\* Combat does not stall on an NPC: its turn ends, by the DM, after a reminder, a
\* failure or an automatic retry, or by code.  Left out: capacity that has run out,
\* an archived table, and a DM turn that failed again and waits for people, whose
\* cue keeps the sweep from queueing another (npc_turns.py:191).
AwaitsPeople == dm.on /\ dm.failed /\ dm.retried
NpcTurnEnds ==
  \A t \in {s \in Turn : Player(s) = Dm} :
    NpcTurn /\ turn = t ~> turn # t \/ ended \/ paused \/ archived \/ AwaitsPeople

\* "A delayed command from turn N can never spend the same participant's budget
\* when they become active again in a later round."
SpentInItsTurn == [][\A c \in done' \ done : c.kind = "spend" => c.turn = turn]_vars
=============================================================================
