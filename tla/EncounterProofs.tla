-------------------------- MODULE EncounterProofs --------------------------
(***************************************************************************)
(* Proofs about Encounter for any members, turn order, keys, servers,       *)
(* sweepers, turns, commands and upsets.                                    *)
(***************************************************************************)
EXTENDS Encounter, FiniteSetTheorems, TLAPS

USE EncounterAssumption

-----------------------------------------------------------------------------
(* The parts of the type invariant.                                        *)

EncounterTyped == /\ turn \in Turn /\ ended \in BOOLEAN /\ rev \in Nat /\ archived \in BOOLEAN
                  /\ votes \subseteq Turn \X User /\ fresh \subseteq Seats /\ spends \in [Seats -> Nat]
CommandsTyped == /\ \A c \in sent : c \in Command
                 /\ UNION {done, confirmed, refused, again} \subseteq sent
RequestsTyped == /\ job \in [Server -> sent \cup {None}]
                 /\ phase \in [Server -> {"idle", "loaded", "entered"}]
                 /\ snap \in [Server -> Snapshot]
NpcTyped == /\ \A q \in cues : q \in Cue
            /\ open \subseteq cues /\ dm.cues \subseteq cues /\ dm.rev \in Nat
            /\ dm.on \in BOOLEAN /\ dm.failed \in BOOLEAN /\ dm.retried \in BOOLEAN
            /\ plan \in [Sweeper -> Cue \cup {None}]
EnvironmentTyped == paused \in BOOLEAN /\ upsets \in 0..MaxUpsets

LEMMA TypeParts ==
  TypeOK <=> EncounterTyped /\ CommandsTyped /\ RequestsTyped /\ NpcTyped /\ EnvironmentTyped
BY DEF TypeOK, EncounterTyped, CommandsTyped, RequestsTyped, NpcTyped, EnvironmentTyped

-----------------------------------------------------------------------------
\* A command that names a revision was sent when the campaign was there; while it
\* is, the turn is still the one the client saw.
Timely == \A c \in sent : c.kind # "spend" =>
  /\ c.rev <= rev /\ c.turn < MaxTurn
  /\ c.rev = rev => c.turn = turn /\ ~ended

\* So for what a request arrived to, which is no older than its command.
Arrived(s) ==
  /\ job[s] \in sent /\ snap[s].rev <= rev
  /\ snap[s].rev = rev =>
       snap[s].turn = turn /\ snap[s].ended = ended /\ snap[s].archived = archived
  /\ job[s].kind # "spend" =>
       /\ job[s].rev <= snap[s].rev
       /\ job[s].rev = snap[s].rev => job[s].turn = snap[s].turn /\ ~snap[s].ended
Requests == \A s \in Server : phase[s] # "idle" => Arrived(s)

\* The command record lets one request at a time work on an identity, once.
Entered ==
  /\ \A s \in Server : phase[s] = "entered" => \A d \in done : Identity(d) # Identity(job[s])
  /\ \A r, s \in Server :
       phase[r] = "entered" /\ phase[s] = "entered" /\ Identity(job[r]) = Identity(job[s]) => r = s
  /\ \A c, d \in done : Identity(c) = Identity(d) => c = d

\* An end of turn is refused when the campaign has moved on or is archived, which takes
\* another revision to undo, or when its key was used for something else.
Taken(c) == \E d \in done : d # c /\ Identity(d) = Identity(c)
Hopeless(c) == c.rev < rev \/ (c.rev = rev /\ archived) \/ Taken(c)
Declined == \A c \in refused : c.kind = "end" => Hopeless(c)

Inv == /\ TypeOK /\ IsFiniteSet(cues) /\ Timely /\ Requests /\ Entered /\ Declined
       /\ AnswersHold

-----------------------------------------------------------------------------
(* Seats and cues.                                                         *)

LEMMA SeatOf == ASSUME NEW t \in Turn PROVE Active(t) \in Seats
<1> DEFINE n == Cardinality(Seats)
<1>1. n \in Nat \ {0} /\ Seats = 1..n
  OBVIOUS
<1>2. (t - 1) \in Nat /\ (t - 1) % n \in 0..n - 1
  BY <1>1 DEF Turn
<1>3. QED
  BY <1>1, <1>2 DEF Active

LEMMA NextSeat == ASSUME NEW x \in Seats PROVE Following(x) \in Seats
<1> DEFINE n == Cardinality(Seats)
<1>1. n \in Nat \ {0} /\ Seats = 1..n
  OBVIOUS
<1>2. QED
  BY <1>1 DEF Following

LEMMA CommandElement ==
  ASSUME NEW c \in Command
  PROVE  c.kind \in Kind /\ c.user \in User /\ c.turn \in Turn /\ c.rev \in Nat /\ c # None
BY DEF Command, None, Kind

\* Queueing keeps the cues that are there.
LEMMA Queueing ==
  ASSUME NpcTyped, IsFiniteSet(cues), NEW t \in Turn, NEW reminder \in BOOLEAN,
         NEW left \in SUBSET cues, Queue(t, reminder, cues, left)
  PROVE  /\ cues \subseteq cues' /\ open' \subseteq cues' /\ IsFiniteSet(cues')
         /\ \A q \in cues' : q \in Cue
<1> DEFINE cue == [turn |-> t, reminder |-> reminder, nth |-> Cardinality(cues) + 1]
<1>1. cue \in Cue
  <2>1. Cardinality(cues) + 1 \in Nat
    BY FS_CardinalityType
  <2>2. QED
    BY <2>1 DEF Cue
<1>2. IsFiniteSet(cues \cup {cue})
  BY FS_AddElement
<1>3. \/ cues' = cues \cup {cue} /\ open' = left \cup {cue}
      \/ cues' = cues /\ open' = left
  BY DEF Queue
<1>4. QED
  BY <1>1, <1>2, <1>3 DEF NpcTyped

-----------------------------------------------------------------------------
(* What a step does to the encounter.                                      *)

\* No seat acts twice on one budget.
Budgeted == \A x \in Seats : spends[x] <= 1 /\ (x \in fresh => spends[x] = 0)

\* Whatever ends a turn or the encounter, archives or restores moves the campaign on.
Moves == rev <= rev' /\ (rev' = rev => turn' = turn /\ ended' = ended /\ archived' = archived)

EncounterStep == EncounterTyped' /\ Moves /\ Budgeted'
NpcStep == NpcTyped' /\ IsFiniteSet(cues')

LEMMA EncounterKept ==
  ASSUME Inv, UNCHANGED <<turn, ended, votes, fresh, spends>>, rev' \in Nat, rev <= rev',
         archived' \in BOOLEAN, rev' = rev => archived' = archived
  PROVE  EncounterStep
BY DEF Inv, TypeOK, EncounterStep, EncounterTyped, Moves, Budgeted, AnswersHold

LEMMA NpcKept == ASSUME Inv, UNCHANGED npc PROVE NpcStep
BY DEF Inv, TypeOK, NpcStep, NpcTyped, npc

\* The next turn gets a whole budget.
LEMMA Turning ==
  ASSUME Inv, turn < MaxTurn, turn' = turn + 1,
         fresh' = fresh \cup {Following(Active(turn))},
         spends' = [spends EXCEPT ![Following(Active(turn))] = 0],
         rev' \in Nat, rev < rev', UNCHANGED <<ended, archived>>, votes' \subseteq Turn \X User
  PROVE  EncounterStep
<1> DEFINE x == Following(Active(turn))
<1>1. turn \in Turn /\ x \in Seats
  BY SeatOf, NextSeat DEF Inv, TypeOK
<1>2. turn' \in Turn
  BY <1>1 DEF Turn
<1>3. /\ spends \in [Seats -> Nat] /\ fresh \subseteq Seats
      /\ ended \in BOOLEAN /\ archived \in BOOLEAN /\ rev \in Nat
  BY DEF Inv, TypeOK
<1>4. EncounterTyped'
  BY <1>1, <1>2, <1>3 DEF EncounterTyped
<1>5. Budgeted'
  <2>1. Budgeted
    BY DEF Inv, AnswersHold, Budgeted
  <2>2. spends'[x] = 0 /\ \A y \in Seats : y # x => spends'[y] = spends[y]
    BY <1>1, <1>3
  <2>3. QED
    BY <2>1, <2>2 DEF Budgeted
<1>6. Moves
  BY <1>3 DEF Moves
<1>7. QED
  BY <1>4, <1>5, <1>6 DEF EncounterStep

LEMMA Advancing ==
  ASSUME Inv, turn < MaxTurn, NEW left \in SUBSET cues, Advance(turn, left),
         UNCHANGED <<ended, archived, dm, plan>>, votes' \subseteq Turn \X User
  PROVE  EncounterStep /\ NpcStep
<1>1. turn + 1 \in Turn /\ rev + 2 \in Nat /\ rev < rev + 2 /\ FALSE \in BOOLEAN
  BY DEF Inv, TypeOK, Turn
<1>2. EncounterStep
  BY <1>1, Turning DEF Advance
<1>3. /\ cues \subseteq cues' /\ open' \subseteq cues' /\ IsFiniteSet(cues')
      /\ \A q \in cues' : q \in Cue
  BY <1>1, Queueing, TypeParts DEF Advance, Inv
<1>4. QED
  BY <1>2, <1>3 DEF NpcStep, NpcTyped, Inv, TypeOK

-----------------------------------------------------------------------------
(* What a step does to the commands and requests.                          *)

\* The promises to the clients.
Promised == /\ confirmed \subseteq done /\ again = {}
            /\ \A c \in refused \cap done : c.kind # "end"

ServiceStep ==
  /\ CommandsTyped' /\ RequestsTyped' /\ Timely' /\ Requests' /\ Entered' /\ Declined'
  /\ Promised'

LEMMA TimelyStays ==
  ASSUME Inv, Moves, rev' \in Nat, UNCHANGED sent
  PROVE  Timely'
<1>1. \A c \in sent : c.rev \in Nat
  BY CommandElement DEF Inv, TypeOK
<1>2. rev \in Nat
  BY DEF Inv, TypeOK
<1>3. QED
  BY <1>1, <1>2 DEF Inv, Timely, Moves

LEMMA DeclinedStays ==
  ASSUME Inv, Moves, rev' \in Nat, UNCHANGED refused, done \subseteq done'
  PROVE  Declined'
<1>1. \A c \in refused : c.rev \in Nat
  BY CommandElement DEF Inv, TypeOK
<1>2. rev \in Nat
  BY DEF Inv, TypeOK
<1>3. \A c \in refused : Hopeless(c) => Hopeless(c)'
  BY <1>1, <1>2 DEF Hopeless, Taken, Moves
<1>4. QED
  BY <1>3 DEF Inv, Declined

LEMMA ArrivedStays ==
  ASSUME Inv, Moves, rev' \in Nat, sent \subseteq sent', NEW s \in Server, Arrived(s),
         job'[s] = job[s], snap'[s] = snap[s]
  PROVE  Arrived(s)'
<1>1. rev \in Nat /\ snap[s].rev \in Nat
  BY DEF Inv, TypeOK, Snapshot
<1>2. QED
  BY <1>1 DEF Arrived, Moves

\* A step that leaves commands and requests alone.
LEMMA ServiceKept ==
  ASSUME Inv, Moves, rev' \in Nat, UNCHANGED <<commands, requests>>
  PROVE  ServiceStep
<1>1. UNCHANGED <<sent, done, confirmed, refused, again, job, phase, snap>>
  BY DEF commands, requests
<1>2. CommandsTyped' /\ RequestsTyped'
  BY <1>1 DEF Inv, TypeOK, CommandsTyped, RequestsTyped
<1>3. Timely' /\ Declined'
  BY <1>1, TimelyStays, DeclinedStays
<1>4. Requests'
  <2>1. SUFFICES ASSUME NEW s \in Server, phase[s] # "idle" PROVE Arrived(s)'
    BY <1>1 DEF Requests
  <2>2. QED
    BY <1>1, <2>1, ArrivedStays DEF Inv, Requests
<1>5. Entered' /\ Promised'
  BY <1>1 DEF Inv, Entered, Promised, AnswersHold
<1>6. QED
  BY <1>2, <1>3, <1>4, <1>5 DEF ServiceStep

\* A request that leaves; the command it worked on may be done.
LEMMA Leaving ==
  ASSUME Inv, Moves, rev' \in Nat, NEW s \in Server, Leave(s), UNCHANGED sent,
         done' = done \/ (phase[s] = "entered" /\ done' = done \cup {job[s]})
  PROVE  RequestsTyped' /\ Requests' /\ Entered'
<1>1. /\ job' = [job EXCEPT ![s] = None] /\ phase' = [phase EXCEPT ![s] = "idle"]
      /\ snap' = [snap EXCEPT ![s] = NoSnap]
  BY DEF Leave
<1>2. /\ job \in [Server -> sent \cup {None}]
      /\ phase \in [Server -> {"idle", "loaded", "entered"}] /\ snap \in [Server -> Snapshot]
  BY DEF Inv, TypeOK
<1>3. NoSnap \in Snapshot
  <2>1. 1 \in Turn
    BY DEF Turn
  <2>2. QED
    BY <2>1 DEF NoSnap, Snapshot
<1>4. RequestsTyped'
  BY <1>1, <1>2, <1>3 DEF RequestsTyped
<1>5. phase'[s] = "idle"
  BY <1>1, <1>2
<1>6. \A r \in Server : r # s => phase'[r] = phase[r] /\ job'[r] = job[r] /\ snap'[r] = snap[r]
  BY <1>1, <1>2
<1>7. Requests'
  <2>1. SUFFICES ASSUME NEW r \in Server, phase'[r] # "idle" PROVE Arrived(r)'
    BY DEF Requests
  <2>2. r # s /\ Arrived(r)
    BY <1>5, <1>6, <2>1 DEF Inv, Requests
  <2>3. QED
    BY <1>6, <2>2, ArrivedStays
<1>8. Entered'
  BY <1>5, <1>6 DEF Inv, Entered
<1>9. QED
  BY <1>4, <1>7, <1>8

\* A request that commits its command: a done command stays done, once.
LEMMA Committing ==
  ASSUME Inv, Moves, rev' \in Nat, NEW s \in Server, phase[s] = "entered", Commit(s),
         UNCHANGED <<sent, refused>>,
         job[s].kind = "end" => job[s].rev = rev /\ ~archived
  PROVE  ServiceStep /\ upsets' \in 0..MaxUpsets /\ job[s] \in done' \ done
<1>1. /\ done' = done \cup {job[s]} /\ Leave(s)
      /\ again' = IF job[s] \in done THEN again \cup {job[s]} ELSE again
      /\ confirmed' = confirmed \cup {job[s]} \/ UNCHANGED confirmed
  BY DEF Commit
<1>2. job[s] \in sent /\ job[s] \notin done /\ ~Taken(job[s])
  BY DEF Inv, Requests, Arrived, Entered, Taken
<1>3. upsets' \in 0..MaxUpsets
  BY DEF Commit, Upset, Inv, TypeOK
<1>4. RequestsTyped' /\ Requests' /\ Entered'
  BY <1>1, Leaving
<1>5. Timely' /\ Declined'
  BY <1>1, TimelyStays, DeclinedStays
<1>6. CommandsTyped'
  BY <1>1, <1>2 DEF Inv, TypeOK, CommandsTyped
<1>7. Promised'
  <2>1. confirmed' \subseteq done' /\ again' = {}
    BY <1>1, <1>2 DEF Inv, AnswersHold
  <2>2. job[s] \in refused => job[s].kind # "end"
    <3>1. job[s].rev \in Nat
      BY <1>2, CommandElement DEF Inv, TypeOK
    <3>2. QED
      BY <1>2, <3>1 DEF Inv, Declined, Hopeless
  <2>3. \A c \in refused' \cap done' : c.kind # "end"
    BY <1>1, <2>2 DEF Inv, AnswersHold
  <2>4. QED
    BY <2>1, <2>3 DEF Promised
<1>8. QED
  BY <1>1, <1>2, <1>3, <1>4, <1>5, <1>6, <1>7 DEF ServiceStep

-----------------------------------------------------------------------------
(* The steps of clients and requests.                                      *)

Step == EncounterStep /\ NpcStep /\ ServiceStep /\ EnvironmentTyped'

LEMMA RevTyped ==
  Inv => rev \in Nat /\ turn \in Turn /\ votes \subseteq Turn \X User /\ archived \in BOOLEAN
BY DEF Inv, TypeOK

LEMMA QuietEncounter == ASSUME Inv, UNCHANGED encounter PROVE EncounterStep /\ Moves /\ rev' \in Nat
<1>1. UNCHANGED <<turn, ended, rev, archived, votes, fresh, spends>>
  BY DEF encounter
<1>2. QED
  BY <1>1, RevTyped, EncounterKept DEF EncounterStep

LEMMA UpsetTyped == ASSUME Inv, Upset, UNCHANGED paused PROVE EnvironmentTyped'
BY DEF Inv, TypeOK, Upset, EnvironmentTyped

LEMMA EnvironmentKept == ASSUME Inv, UNCHANGED <<paused, upsets>> PROVE EnvironmentTyped'
BY DEF Inv, TypeOK, EnvironmentTyped

LEMMA SendStep == \A c \in Command : Inv /\ Send(c) => Step
<1> SUFFICES ASSUME NEW c \in Command, Inv, Send(c) PROVE Step
  OBVIOUS
<1>1. /\ c.turn = turn /\ ~ended /\ sent' = sent \cup {c}
      /\ c.kind # "spend" => c.rev = rev
      /\ c.kind # "spend" => turn < MaxTurn
      /\ UNCHANGED <<turn, ended, rev, archived, done, confirmed, refused, again, job, phase, snap>>
      /\ UNCHANGED <<encounter, npc, paused, upsets>>
  BY CommandElement DEF Send, Kind, encounter, requests
<1>2. EncounterStep /\ NpcStep /\ EnvironmentTyped'
  BY <1>1, QuietEncounter, NpcKept, EnvironmentKept
<1>3. CommandsTyped' /\ RequestsTyped'
  BY <1>1 DEF Inv, TypeOK, CommandsTyped, RequestsTyped
<1>4. Timely'
  BY <1>1, RevTyped DEF Inv, Timely
<1>5. Requests'
  BY <1>1 DEF Inv, Requests, Arrived
<1>6. Entered' /\ Declined' /\ Promised'
  BY <1>1 DEF Inv, Entered, Declined, Hopeless, Taken, Promised, AnswersHold
<1>7. QED
  BY <1>2, <1>3, <1>4, <1>5, <1>6 DEF Step, ServiceStep

LEMMA ArriveStep == \A s \in Server : \A c \in sent : Inv /\ Arrive(s, c) => Step
<1> SUFFICES ASSUME NEW s \in Server, NEW c \in sent, Inv, Arrive(s, c) PROVE Step
  OBVIOUS
<1>1. /\ job' = [job EXCEPT ![s] = c] /\ phase' = [phase EXCEPT ![s] = "loaded"]
      /\ snap' = [snap EXCEPT ![s] =
                     [turn |-> turn, ended |-> ended, rev |-> rev, archived |-> archived]]
      /\ UNCHANGED <<turn, ended, rev, archived, sent, done, confirmed, refused, again>>
      /\ UNCHANGED <<encounter, npc, paused, upsets>>
  BY DEF Arrive, encounter, commands
<1>2. EncounterStep /\ NpcStep /\ EnvironmentTyped' /\ Moves /\ rev' \in Nat
  BY <1>1, QuietEncounter, NpcKept, EnvironmentKept
<1>3. [turn |-> turn, ended |-> ended, rev |-> rev, archived |-> archived] \in Snapshot
  BY DEF Inv, TypeOK, Snapshot
<1>4. CommandsTyped' /\ RequestsTyped'
  BY <1>1, <1>3 DEF Inv, TypeOK, CommandsTyped, RequestsTyped
<1>5. Timely' /\ Declined'
  BY <1>1, <1>2, TimelyStays, DeclinedStays
<1>6. /\ job'[s] = c /\ phase'[s] = "loaded"
      /\ snap'[s].turn = turn /\ snap'[s].ended = ended /\ snap'[s].rev = rev
      /\ snap'[s].archived = archived
      /\ \A r \in Server : r # s => phase'[r] = phase[r] /\ job'[r] = job[r] /\ snap'[r] = snap[r]
  BY <1>1 DEF Inv, TypeOK
<1>7. Requests'
  <2>1. Arrived(s)'
    BY <1>1, <1>6, RevTyped DEF Inv, Timely, Arrived
  <2>2. ASSUME NEW r \in Server, r # s, phase'[r] # "idle" PROVE Arrived(r)'
    BY <1>1, <1>2, <1>6, <2>2, ArrivedStays DEF Inv, Requests
  <2>3. QED
    BY <2>1, <2>2 DEF Requests
<1>8. Entered' /\ Promised'
  BY <1>1, <1>6 DEF Inv, Entered, Promised, AnswersHold
<1>9. QED
  BY <1>2, <1>4, <1>5, <1>7, <1>8 DEF Step, ServiceStep

LEMMA EnterStep == \A s \in Server : Inv /\ Enter(s) => Step
<1> SUFFICES ASSUME NEW s \in Server, Inv, Enter(s) PROVE Step
  OBVIOUS
<1>1. /\ phase[s] = "loaded"
      /\ \A r \in Server : phase[r] = "entered" => Identity(job[r]) # Identity(job[s])
      /\ UNCHANGED <<encounter, sent, done, again, npc, paused, upsets>>
  BY DEF Enter
<1>2. EncounterStep /\ NpcStep /\ EnvironmentTyped' /\ Moves /\ rev' \in Nat
  BY <1>1, QuietEncounter, NpcKept, EnvironmentKept
<1>3. Timely'
  BY <1>1, <1>2, TimelyStays
<1>4. job[s] \in sent
  BY <1>1 DEF Inv, Requests, Arrived
<1>5. CASE Recorded(job[s]) = {} /\ phase' = [phase EXCEPT ![s] = "entered"]
           /\ UNCHANGED <<confirmed, refused, job, snap>>
  <2>1. CommandsTyped' /\ RequestsTyped' /\ Promised'
    BY <1>1, <1>5 DEF Inv, TypeOK, CommandsTyped, RequestsTyped, Promised, AnswersHold
  <2>2. phase'[s] = "entered" /\ \A r \in Server : r # s => phase'[r] = phase[r]
    BY <1>5 DEF Inv, TypeOK
  <2>3. \A d \in done : Identity(d) # Identity(job[s])
    BY <1>5 DEF Recorded
  <2>4. Entered'
    BY <1>1, <1>5, <2>2, <2>3 DEF Inv, Entered
  <2>5. Requests'
    <3>1. SUFFICES ASSUME NEW r \in Server, phase[r] # "idle" PROVE Arrived(r)'
      BY <1>1, <2>2 DEF Requests
    <3>2. QED
      BY <1>1, <1>2, <1>5, <3>1, ArrivedStays DEF Inv, Requests
  <2>6. Declined'
    BY <1>1, <1>2, <1>5, DeclinedStays
  <2>7. QED
    BY <1>2, <1>3, <2>1, <2>4, <2>5, <2>6 DEF Step, ServiceStep
<1>6. CASE job[s] \in done /\ confirmed' = confirmed \cup {job[s]} /\ Leave(s) /\ UNCHANGED refused
  <2>1. RequestsTyped' /\ Requests' /\ Entered'
    BY <1>1, <1>2, <1>6, Leaving
  <2>2. CommandsTyped' /\ Promised'
    BY <1>1, <1>4, <1>6 DEF Inv, TypeOK, CommandsTyped, Promised, AnswersHold
  <2>3. Declined'
    BY <1>1, <1>2, <1>6, DeclinedStays
  <2>4. QED
    BY <1>2, <1>3, <2>1, <2>2, <2>3 DEF Step, ServiceStep
<1>7. CASE Recorded(job[s]) \ {job[s]} # {} /\ refused' = refused \cup {job[s]} /\ Leave(s)
           /\ UNCHANGED confirmed
  <2>1. RequestsTyped' /\ Requests' /\ Entered'
    BY <1>1, <1>2, <1>7, Leaving
  <2>2. Taken(job[s])
    BY <1>7 DEF Recorded, Taken
  <2>3. job[s] \notin done
    BY <2>2 DEF Inv, Entered, Taken
  <2>4. CommandsTyped' /\ Promised'
    BY <1>1, <1>4, <1>7, <2>3 DEF Inv, TypeOK, CommandsTyped, Promised, AnswersHold
  <2>5. Declined'
    BY <1>1, <1>7, <2>2 DEF Inv, Declined, Hopeless, Taken, encounter
  <2>6. QED
    BY <1>2, <1>3, <2>1, <2>4, <2>5 DEF Step, ServiceStep
<1>8. QED
  BY <1>5, <1>6, <1>7 DEF Enter

LEMMA CrashStep == \A s \in Server : Inv /\ (BreakOff(s) \/ Crash(s)) => Step
<1> SUFFICES ASSUME NEW s \in Server, Inv, BreakOff(s) \/ Crash(s) PROVE Step
  OBVIOUS
<1>1. Upset /\ Leave(s) /\ UNCHANGED <<encounter, sent, done, confirmed, refused, again, npc, paused>>
  BY DEF BreakOff, Crash, commands
<1>2. EncounterStep /\ NpcStep /\ EnvironmentTyped' /\ Moves /\ rev' \in Nat
  BY <1>1, QuietEncounter, NpcKept, UpsetTyped
<1>3. Timely' /\ Declined' /\ RequestsTyped' /\ Requests' /\ Entered'
  BY <1>1, <1>2, TimelyStays, DeclinedStays, Leaving
<1>4. CommandsTyped' /\ Promised'
  BY <1>1 DEF Inv, TypeOK, CommandsTyped, Promised, AnswersHold
<1>5. QED
  BY <1>2, <1>3, <1>4 DEF Step, ServiceStep

\* What a request is refused for will not go away.
LEMMA Overtaken ==
  ASSUME Inv, NEW s \in Server, phase[s] = "entered", job[s].kind = "end", ~Current(s) \/ ~Unmoved(s)
  PROVE  Hopeless(job[s])
<1>1. Arrived(s) /\ job[s] \in sent
  BY DEF Inv, Requests, Arrived
<1>2. job[s].rev \in Nat /\ snap[s].rev \in Nat /\ rev \in Nat
  BY <1>1, CommandElement DEF Inv, TypeOK, Snapshot
<1>3. job[s].rev <= snap[s].rev /\ snap[s].rev <= rev
  BY <1>1 DEF Arrived
<1>4. CASE job[s].rev < rev
  BY <1>4 DEF Hopeless
<1>5. CASE job[s].rev = rev
  <2>1. snap[s].rev = rev /\ Unmoved(s)
    BY <1>2, <1>3, <1>5 DEF Unmoved
  <2>2. job[s].turn = snap[s].turn /\ ~snap[s].ended /\ snap[s].archived = archived
    BY <1>1, <1>5, <2>1 DEF Arrived
  <2>3. archived
    BY <2>1, <2>2 DEF Current
  <2>4. QED
    BY <1>5, <2>3 DEF Hopeless
<1>6. QED
  BY <1>2, <1>3, <1>4, <1>5

LEMMA RefuseStep == \A s \in Server : Inv /\ Refuse(s) => Step
<1> SUFFICES ASSUME NEW s \in Server, Inv, Refuse(s) PROVE Step
  OBVIOUS
<1>1. /\ phase[s] = "entered" /\ refused' = refused \cup {job[s]} /\ Leave(s)
      /\ UNCHANGED <<encounter, sent, done, confirmed, again, npc, paused, upsets>>
  BY DEF Refuse
<1>2. EncounterStep /\ NpcStep /\ EnvironmentTyped' /\ Moves /\ rev' \in Nat /\ rev' = rev
  BY <1>1, QuietEncounter, NpcKept, EnvironmentKept DEF encounter
<1>3. Timely' /\ RequestsTyped' /\ Requests' /\ Entered'
  BY <1>1, <1>2, TimelyStays, Leaving
<1>4. job[s] \in sent /\ job[s] \notin done
  BY <1>1 DEF Inv, Requests, Arrived, Entered
<1>5. CommandsTyped'
  BY <1>1, <1>4 DEF Inv, TypeOK, CommandsTyped
<1>6. Declined'
  <2>1. job[s].kind = "end" => ~Current(s) \/ ~Unmoved(s)
    BY DEF Refuse, CanVote
  <2>2. job[s].kind = "end" => Hopeless(job[s])
    BY <1>1, <2>1, Overtaken
  <2>3. QED
    BY <1>1, <2>2 DEF Inv, Declined, Hopeless, Taken, encounter
<1>7. Promised'
  BY <1>1, <1>4 DEF Inv, Promised, AnswersHold
<1>8. QED
  BY <1>2, <1>3, <1>5, <1>6, <1>7 DEF Step, ServiceStep

-----------------------------------------------------------------------------
(* Commands that take effect.                                              *)

\* Turns follow one another, and each is ended by who may end it.
TurnRule ==
  turn' # turn =>
    /\ turn' = turn + 1
    /\ \/ \E c \in done' \ done : EndedBy(c)
       \/ /\ Player(turn) # Dm
          /\ 2 * Cardinality({u \in User : <<turn, u>> \in votes'})
               > Cardinality(Eligible(Player(turn)))
       \/ Player(turn) = Dm /\ dm.on

\* A command that passes the check of the revision is about the turn that is on.
LEMMA InTime ==
  ASSUME Inv, NEW s \in Server, Current(s), Unmoved(s), job[s].kind # "spend"
  PROVE  /\ snap[s].turn = turn /\ job[s].turn = turn /\ turn < MaxTurn /\ ~ended
         /\ job[s].rev = rev /\ ~archived
BY DEF Inv, Requests, Arrived, Timely, Current, Unmoved

\* A command that may take effect, and what it is then.
LEMMA Working ==
  ASSUME Inv, NEW s \in Server, Current(s)
  PROVE  /\ phase[s] = "entered" /\ job[s] \in Command /\ snap[s].turn \in Turn
         /\ Active(snap[s].turn) \in Seats
BY SeatOf DEF Inv, Requests, Arrived, TypeOK, Current, Snapshot

LEMMA EndTurnStep == \A s \in Server : Inv /\ EndTurn(s) => Step /\ TurnRule
<1> SUFFICES ASSUME NEW s \in Server, Inv, EndTurn(s) PROVE Step /\ TurnRule
  OBVIOUS
<1>1. /\ Current(s) /\ job[s].kind = "end" /\ Player(snap[s].turn) = job[s].user /\ Unmoved(s)
      /\ Advance(snap[s].turn, open) /\ Commit(s)
      /\ UNCHANGED <<ended, archived, votes, sent, refused, dm, plan, paused>>
  BY DEF EndTurn
<1>2. /\ snap[s].turn = turn /\ job[s].turn = turn /\ turn < MaxTurn
      /\ job[s].rev = rev /\ ~archived
  BY <1>1, InTime
<1>3. phase[s] = "entered" /\ open \in SUBSET cues
  BY <1>1, Working DEF Inv, TypeOK
<1>4. EncounterStep /\ NpcStep
  BY <1>1, <1>2, <1>3, RevTyped, Advancing
<1>5. ServiceStep /\ upsets' \in 0..MaxUpsets /\ job[s] \in done' \ done
  BY <1>1, <1>2, <1>3, <1>4, Committing DEF EncounterStep, EncounterTyped
<1>6. EnvironmentTyped'
  BY <1>1, <1>5 DEF EnvironmentTyped, Inv, TypeOK
<1>7. TurnRule
  <2>1. EndedBy(job[s]) /\ turn' = turn + 1
    BY <1>1, <1>2 DEF EndedBy, Advance
  <2>2. QED
    BY <1>5, <2>1 DEF TurnRule
<1>8. QED
  BY <1>4, <1>5, <1>6, <1>7 DEF Step

LEMMA CastVoteStep == \A s \in Server : Inv /\ CastVote(s) => Step /\ TurnRule
<1> SUFFICES ASSUME NEW s \in Server, Inv, CastVote(s) PROVE Step /\ TurnRule
  OBVIOUS
<1>1. /\ Current(s) /\ job[s].kind = "vote" /\ Commit(s)
      /\ votes' = votes \cup {<<snap[s].turn, job[s].user>>}
      /\ UNCHANGED <<turn, ended, rev, archived, fresh, spends, sent, refused, npc, paused>>
  BY DEF CastVote, CanVote
<1>2. phase[s] = "entered" /\ snap[s].turn \in Turn /\ job[s].user \in User
  BY <1>1, Working, CommandElement
<1>3. EncounterStep /\ Moves /\ rev' \in Nat
  BY <1>1, <1>2 DEF Inv, TypeOK, EncounterStep, EncounterTyped, Moves, Budgeted, AnswersHold
<1>4. NpcStep
  BY <1>1, NpcKept
<1>5. ServiceStep /\ upsets' \in 0..MaxUpsets
  BY <1>1, <1>2, <1>3, Committing
<1>6. EnvironmentTyped'
  BY <1>1, <1>5 DEF EnvironmentTyped, Inv, TypeOK
<1>7. QED
  BY <1>1, <1>3, <1>4, <1>5, <1>6 DEF Step, TurnRule

\* The threshold is a majority.
LEMMA Majority == ASSUME NEW n \in Nat, NEW m \in Nat, m >= Threshold(n) PROVE 2 * m > n
BY DEF Threshold

LEMMA SkipTurnStep == \A s \in Server : Inv /\ SkipTurn(s) => Step /\ TurnRule
<1> SUFFICES ASSUME NEW s \in Server, Inv, SkipTurn(s) PROVE Step /\ TurnRule
  OBVIOUS
<1>1. /\ Current(s) /\ job[s].kind = "vote" /\ Player(snap[s].turn) # Dm /\ Unmoved(s)
      /\ Reached(snap[s].turn, job[s].user)
      /\ votes' = votes \cup {<<snap[s].turn, job[s].user>>}
      /\ Advance(snap[s].turn, open) /\ Commit(s)
      /\ UNCHANGED <<ended, archived, sent, refused, dm, plan, paused>>
  BY DEF SkipTurn, CanVote
<1>2. snap[s].turn = turn /\ turn < MaxTurn
  BY <1>1, InTime
<1>3. phase[s] = "entered" /\ open \in SUBSET cues /\ job[s].user \in User
  BY <1>1, Working, CommandElement DEF Inv, TypeOK
<1>4. votes' \subseteq Turn \X User
  BY <1>1, <1>2, <1>3, RevTyped
<1>5. EncounterStep /\ NpcStep
  BY <1>1, <1>2, <1>3, <1>4, Advancing
<1>6. ServiceStep /\ upsets' \in 0..MaxUpsets
  BY <1>1, <1>3, <1>5, Committing DEF EncounterStep, EncounterTyped
<1>7. EnvironmentTyped'
  BY <1>1, <1>6 DEF EnvironmentTyped, Inv, TypeOK
<1>8. TurnRule
  <2> DEFINE voted == {u \in User : <<turn, u>> \in votes'}
             eligible == Eligible(Player(turn))
  <2>1. voted = Voters(turn) \cup {job[s].user}
    BY <1>1, <1>2, <1>3 DEF Voters
  <2>2. Cardinality(voted) >= Threshold(Cardinality(eligible))
    BY <1>1, <1>2, <2>1 DEF Reached
  <2>3. Cardinality(voted) \in Nat /\ Cardinality(eligible) \in Nat
    <3>1. IsFiniteSet(User) /\ voted \subseteq User /\ eligible \subseteq User
      BY DEF Eligible
    <3>2. IsFiniteSet(voted) /\ IsFiniteSet(eligible)
      BY <3>1, FS_Subset
    <3>3. QED
      BY <3>2, FS_CardinalityType
  <2>4. 2 * Cardinality(voted) > Cardinality(eligible)
    BY <2>2, <2>3, Majority
  <2>5. turn' = turn + 1 /\ Player(turn) # Dm
    BY <1>1, <1>2 DEF Advance
  <2>6. QED
    BY <2>4, <2>5 DEF TurnRule
<1>9. QED
  BY <1>5, <1>6, <1>7, <1>8 DEF Step

LEMMA SpendStep == \A s \in Server : Inv /\ Spend(s) => Step /\ TurnRule
<1> SUFFICES ASSUME NEW s \in Server, Inv, Spend(s) PROVE Step /\ TurnRule
  OBVIOUS
<1> DEFINE seat == Active(snap[s].turn)
<1>1. /\ Current(s) /\ job[s].kind = "spend" /\ seat \in fresh
      /\ fresh' = fresh \ {seat} /\ spends' = [spends EXCEPT ![seat] = @ + 1] /\ Commit(s)
      /\ UNCHANGED <<turn, ended, rev, archived, votes, sent, refused, npc, paused>>
  BY DEF Spend
<1>2. phase[s] = "entered" /\ seat \in Seats
  BY <1>1, Working
<1>3. spends \in [Seats -> Nat] /\ Budgeted /\ spends[seat] = 0
  BY <1>1, <1>2 DEF Inv, TypeOK, AnswersHold, Budgeted
<1>4. spends' \in [Seats -> Nat] /\ spends'[seat] = 1 /\ \A x \in Seats : x # seat => spends'[x] = spends[x]
  BY <1>1, <1>2, <1>3
<1>5. Budgeted'
  BY <1>1, <1>3, <1>4 DEF Budgeted
<1>6. EncounterStep /\ Moves /\ rev' \in Nat
  BY <1>1, <1>4, <1>5 DEF Inv, TypeOK, EncounterStep, EncounterTyped, Moves
<1>7. NpcStep
  BY <1>1, NpcKept
<1>8. ServiceStep /\ upsets' \in 0..MaxUpsets
  BY <1>1, <1>2, <1>6, Committing
<1>9. EnvironmentTyped'
  BY <1>1, <1>8 DEF EnvironmentTyped, Inv, TypeOK
<1>10. QED
  BY <1>1, <1>6, <1>7, <1>8, <1>9 DEF Step, TurnRule

-----------------------------------------------------------------------------
(* The DM's side and the campaign around.                                  *)

\* A turn of an NPC is not the last one of the bound.
LEMMA NpcRoom == ASSUME Inv, NpcTurn PROVE turn < MaxTurn /\ turn \in Turn /\ Player(turn) = Dm
BY RevTyped DEF NpcTurn, Turn

LEMMA QuietService ==
  ASSUME Inv, EncounterStep, UNCHANGED <<commands, requests>>
  PROVE  ServiceStep
BY ServiceKept DEF EncounterStep, EncounterTyped

LEMMA DmAdvancing ==
  ASSUME Inv, NpcTurn, DmCommits, DmAdvance,
         UNCHANGED <<ended, archived, votes, plan, commands, requests, paused, upsets>>
  PROVE  Step /\ TurnRule
<1>1. turn < MaxTurn /\ turn \in Turn /\ Player(turn) = Dm
  BY NpcRoom
<1>2. turn + 1 \in Turn /\ rev + 3 \in Nat /\ rev < rev + 3 /\ FALSE \in BOOLEAN
  BY <1>1, RevTyped DEF Turn
<1>3. EncounterStep
  BY <1>1, <1>2, RevTyped, Turning DEF DmAdvance
<1>4. Left \in SUBSET cues /\ NpcTyped
  BY TypeParts DEF Left, Inv, TypeOK
<1>5. /\ cues \subseteq cues' /\ open' \subseteq cues' /\ IsFiniteSet(cues')
      /\ \A q \in cues' : q \in Cue
  BY <1>2, <1>4, Queueing DEF DmAdvance, Inv
<1>6. dm' = NoDm /\ dm.on
  BY DEF DmCommits
<1>7. NpcStep
  BY <1>4, <1>5, <1>6 DEF NpcStep, NpcTyped, NoDm
<1>8. TurnRule
  BY <1>1, <1>6 DEF TurnRule, DmAdvance
<1>9. QED
  BY <1>3, <1>7, <1>8, QuietService, EnvironmentKept DEF Step

LEMMA DmEndsTurnStep == Inv /\ DmEndsTurn => Step /\ TurnRule
BY DmAdvancing DEF DmEndsTurn

LEMMA DmLeavesTurnStep == Inv /\ DmLeavesTurn => Step /\ TurnRule
<1> SUFFICES ASSUME Inv, DmLeavesTurn PROVE Step /\ TurnRule
  OBVIOUS
<1>1. DmCommits /\ UNCHANGED <<ended, archived, votes, commands, requests, plan, paused, upsets>>
  BY DEF DmLeavesTurn
<1>2. Left \in SUBSET cues /\ NpcTyped /\ IsFiniteSet(cues) /\ rev \in Nat /\ turn \in Turn
  BY TypeParts, RevTyped DEF Left, Inv, TypeOK
<1>3. CASE NpcTurn /\ DmAdvance
  BY <1>1, <1>3, DmAdvancing
<1>4. CASE /\ rev' = rev + 1 /\ UNCHANGED <<turn, fresh, spends>>
           /\ Queue(turn, TRUE, cues, Left) \/ (open' = Left /\ UNCHANGED cues)
  <2>1. EncounterStep
    <3>1. archived' \in BOOLEAN /\ (rev' = rev => archived' = archived)
      BY <1>1, RevTyped
    <3>2. rev' \in Nat /\ rev <= rev' /\ UNCHANGED <<turn, ended, votes, fresh, spends>>
      BY <1>1, <1>2, <1>4
    <3>3. QED
      BY <3>1, <3>2, EncounterKept
  <2>2. /\ cues \subseteq cues' /\ open' \subseteq cues' /\ IsFiniteSet(cues')
        /\ \A q \in cues' : q \in Cue
    <3>1. CASE Queue(turn, TRUE, cues, Left)
      BY <1>2, <3>1, Queueing
    <3>2. CASE open' = Left /\ UNCHANGED cues
      BY <1>2, <3>2 DEF NpcTyped
    <3>3. QED
      BY <1>4, <3>1, <3>2
  <2>3. NpcStep
    BY <1>1, <1>2, <2>2 DEF NpcStep, NpcTyped, DmCommits, NoDm
  <2>4. QED
    BY <1>1, <1>4, <2>1, <2>3, QuietService, EnvironmentKept DEF Step, TurnRule
<1>5. QED
  BY <1>3, <1>4 DEF DmLeavesTurn

LEMMA DmEndsEncounterStep == Inv /\ DmEndsEncounter => Step /\ TurnRule
<1> SUFFICES ASSUME Inv, DmEndsEncounter PROVE Step /\ TurnRule
  OBVIOUS
<1>1. /\ DmCommits /\ ended' = TRUE /\ rev' = rev + 2 /\ open' = Left
      /\ UNCHANGED <<turn, archived, votes, fresh, spends, commands, requests, cues, plan, paused, upsets>>
  BY DEF DmEndsEncounter
<1>2. EncounterStep
  <2>1. rev + 2 \in Nat /\ rev < rev + 2 /\ ended' \in BOOLEAN
    BY <1>1, RevTyped
  <2>2. EncounterTyped'
    BY <1>1, <2>1 DEF Inv, TypeOK, EncounterTyped
  <2>3. rev' # rev
    BY <1>1, RevTyped
  <2>4. Moves
    <3>1. rev <= rev'
      BY <1>1, RevTyped
    <3>2. QED
      BY <2>3, <3>1 DEF Moves
  <2>5. Budgeted'
    BY <1>1 DEF Inv, AnswersHold, Budgeted
  <2>6. QED
    BY <2>2, <2>4, <2>5 DEF EncounterStep
<1>3. NpcStep
  BY <1>1 DEF Inv, TypeOK, NpcStep, NpcTyped, Left, DmCommits, NoDm
<1>4. QED
  BY <1>1, <1>2, <1>3, QuietService, EnvironmentKept DEF Step, TurnRule

\* A step that only starts, fails or retries the DM turn.
LEMMA DmWorks ==
  ASSUME Inv, UNCHANGED <<encounter, commands, requests, cues, open, plan>>, EnvironmentTyped',
         /\ dm'.cues \subseteq cues /\ dm'.rev \in Nat
         /\ dm'.on \in BOOLEAN /\ dm'.failed \in BOOLEAN /\ dm'.retried \in BOOLEAN
  PROVE  Step /\ TurnRule
<1>1. NpcStep
  BY DEF Inv, TypeOK, NpcStep, NpcTyped
<1>2. QED
  BY <1>1, QuietEncounter, QuietService DEF Step, TurnRule, encounter

LEMMA Going ==
  ASSUME Inv, NEW cs \in SUBSET cues, NEW retried \in BOOLEAN, DmGoes(cs, retried)
  PROVE  /\ dm'.cues \subseteq cues /\ dm'.rev \in Nat
         /\ dm'.on \in BOOLEAN /\ dm'.failed \in BOOLEAN /\ dm'.retried \in BOOLEAN
<1>1. dm'.cues = cs /\ dm'.rev = rev /\ dm'.on = TRUE /\ dm'.failed = FALSE /\ dm'.retried = retried
  BY DEF DmGoes
<1>2. dm'.on \in BOOLEAN /\ dm'.failed \in BOOLEAN
  BY <1>1, Zenon
<1>3. dm'.retried \in BOOLEAN
  BY <1>1, Zenon
<1>4. QED
  BY <1>1, <1>2, <1>3, RevTyped

LEMMA DmTyped == Inv => /\ dm.on \in BOOLEAN /\ dm.failed \in BOOLEAN /\ dm.retried \in BOOLEAN
                        /\ dm.cues \subseteq cues /\ open \subseteq cues /\ dm.rev \in Nat
BY DEF Inv, TypeOK

LEMMA DmWorkStep == Inv /\ (StartDm \/ Recoordinate \/ AutoRetryDm) => Step /\ TurnRule
<1> SUFFICES ASSUME Inv, StartDm \/ Recoordinate \/ AutoRetryDm PROVE Step /\ TurnRule
  OBVIOUS
<1>1. UNCHANGED <<encounter, commands, requests, cues, open, plan, paused>>
  BY DEF StartDm, Recoordinate, AutoRetryDm
<1>2. EnvironmentTyped'
  BY <1>1, UpsetTyped, EnvironmentKept DEF StartDm, Recoordinate, AutoRetryDm
<1>3. PICK cs \in {open, dm.cues}, retried \in {FALSE, TRUE, dm.retried} : DmGoes(cs, retried)
  BY DEF StartDm, Recoordinate, AutoRetryDm
<1>4. cs \in SUBSET cues /\ retried \in BOOLEAN
  BY <1>3, DmTyped
<1>5. QED
  BY <1>1, <1>2, <1>3, <1>4, Going, DmWorks

LEMMA DmFailsStep == Inv /\ DmFails => Step /\ TurnRule
<1> SUFFICES ASSUME Inv, DmFails PROVE Step /\ TurnRule
  OBVIOUS
<1>1. /\ dm' = [dm EXCEPT !.failed = TRUE]
      /\ UNCHANGED <<encounter, commands, requests, cues, open, plan, paused, upsets>>
  BY DEF DmFails
<1>2. QED
  BY <1>1, DmTyped, EnvironmentKept, DmWorks

LEMMA SweepStep == \A w \in Sweeper : Inv /\ (SweepLook(w) \/ SweepQueue(w)) => Step /\ TurnRule
<1> SUFFICES ASSUME NEW w \in Sweeper, Inv, SweepLook(w) \/ SweepQueue(w) PROVE Step /\ TurnRule
  OBVIOUS
<1>1. UNCHANGED <<encounter, commands, requests, dm, paused, upsets>>
  BY DEF SweepLook, SweepQueue
<1>2. NpcStep
  <2>1. CASE SweepLook(w)
    <3>1. /\ plan' = [plan EXCEPT ![w] = [turn |-> turn, reminder |-> CuesOf(turn) # {}, nth |-> 0]]
          /\ UNCHANGED <<cues, open, dm>>
      BY <2>1 DEF SweepLook
    <3>2. (CuesOf(turn) # {}) \in BOOLEAN
      OBVIOUS
    <3>3. [turn |-> turn, reminder |-> CuesOf(turn) # {}, nth |-> 0] \in Cue
      BY <3>2, RevTyped DEF Cue
    <3>4. QED
      BY <3>1, <3>3 DEF Inv, TypeOK, NpcStep, NpcTyped
  <2>2. CASE SweepQueue(w) /\ archived
    BY <2>2 DEF SweepQueue, Inv, TypeOK, NpcStep, NpcTyped
  <2>3. CASE SweepQueue(w) /\ ~archived
    <3>1. PICK cue : /\ cue = [plan[w] EXCEPT !.nth = Cardinality(cues) + 1]
                     /\ cues' = cues \cup {cue} /\ open' = open \cup {cue}
      BY <2>3 DEF SweepQueue
    <3>2. plan[w] \in Cue /\ plan' = [plan EXCEPT ![w] = None] /\ UNCHANGED dm
      BY <2>3 DEF SweepQueue, Inv, TypeOK
    <3>3. Cardinality(cues) + 1 \in Nat
      BY FS_CardinalityType DEF Inv
    <3>4. cue \in Cue
      BY <3>1, <3>2, <3>3 DEF Cue
    <3>5. IsFiniteSet(cues')
      BY <3>1, FS_AddElement DEF Inv
    <3>6. QED
      BY <3>1, <3>2, <3>4, <3>5 DEF Inv, TypeOK, NpcStep, NpcTyped
  <2>4. QED
    BY <2>1, <2>2, <2>3
<1>3. QED
  BY <1>1, <1>2, QuietEncounter, QuietService, EnvironmentKept DEF Step, TurnRule, encounter

LEMMA AroundStep == Inv /\ (Mutate \/ Archive \/ Restore \/ Pause \/ Resume) => Step /\ TurnRule
<1> SUFFICES ASSUME Inv, Mutate \/ Archive \/ Restore \/ Pause \/ Resume PROVE Step /\ TurnRule
  OBVIOUS
<1>1. UNCHANGED <<turn, ended, votes, fresh, spends, commands, requests, npc>>
  BY DEF Mutate, Archive, Restore, Pause, Resume, encounter
<1>2. rev' \in {rev, rev + 1} /\ archived' \in BOOLEAN /\ (rev' = rev => archived' = archived)
  <2>1. CASE Archive \/ Restore
    <3>1. rev' = rev + 1 /\ (archived' = TRUE \/ archived' = FALSE)
      BY <2>1 DEF Archive, Restore
    <3>2. archived' \in BOOLEAN
      BY <3>1, Zenon
    <3>3. rev' # rev
      BY <3>1, RevTyped
    <3>4. QED
      BY <3>1, <3>2, <3>3
  <2>2. CASE Mutate \/ Pause \/ Resume
    <3>1. UNCHANGED archived /\ rev' \in {rev, rev + 1}
      BY <2>2 DEF Mutate, Pause, Resume, encounter
    <3>2. QED
      BY <3>1, RevTyped
  <2>3. QED
    BY <2>1, <2>2
<1>3. EncounterStep
  BY <1>1, <1>2, RevTyped, EncounterKept
<1>4. EnvironmentTyped'
  <2>1. CASE Mutate \/ Archive \/ Restore
    BY <2>1, UpsetTyped, EnvironmentKept DEF Mutate, Archive, Restore
  <2>2. CASE Pause
    <3>1. Upset /\ paused' = TRUE
      BY <2>2 DEF Pause
    <3>2. upsets' \in 0..MaxUpsets
      BY <3>1 DEF Inv, TypeOK, Upset
    <3>3. QED
      BY <3>1, <3>2 DEF EnvironmentTyped
  <2>3. CASE Resume
    <3>1. paused' = FALSE /\ UNCHANGED upsets
      BY <2>3 DEF Resume
    <3>2. QED
      BY <3>1 DEF Inv, TypeOK, EnvironmentTyped
  <2>4. QED
    BY <2>1, <2>2, <2>3
<1>5. QED
  BY <1>1, <1>3, <1>4, NpcKept, QuietService DEF Step, TurnRule

-----------------------------------------------------------------------------
LEMMA InitInv == Init => Inv
<1> SUFFICES ASSUME Init PROVE Inv
  OBVIOUS
<1>1. 1 \in Turn /\ 0 \in 0..MaxUpsets
  BY DEF Turn
<1>2. EncounterTyped /\ EnvironmentTyped
  BY <1>1 DEF Init, EncounterTyped, EnvironmentTyped
<1>3. CommandsTyped
  BY DEF Init, CommandsTyped
<1>4. RequestsTyped
  BY <1>1 DEF Init, RequestsTyped, Snapshot, NoSnap
<1>5. NpcTyped
  BY DEF Init, NpcTyped, NoDm
<1>6. IsFiniteSet(cues)
  BY FS_EmptySet DEF Init
<1>7. Timely /\ Requests /\ Entered /\ Declined
  BY DEF Init, Timely, Requests, Entered, Declined
<1>8. AnswersHold
  BY DEF Init, AnswersHold
<1>9. QED
  BY <1>2, <1>3, <1>4, <1>5, <1>6, <1>7, <1>8, TypeParts DEF Inv

LEMMA StepInv == Inv /\ Step => Inv'
<1> SUFFICES ASSUME Inv, Step PROVE Inv'
  OBVIOUS
<1>1. TypeOK'
  BY TypeParts DEF Step, EncounterStep, NpcStep, ServiceStep, TypeOK,
     EncounterTyped, CommandsTyped, RequestsTyped, NpcTyped, EnvironmentTyped
<1>2. AnswersHold'
  BY DEF Step, EncounterStep, ServiceStep, Budgeted, Promised, AnswersHold
<1>3. QED
  BY <1>1, <1>2 DEF Inv, Step, NpcStep, ServiceStep

LEMMA NextStep == Inv /\ [Next]_vars => Step /\ TurnRule
<1> SUFFICES ASSUME Inv, [Next]_vars PROVE Step /\ TurnRule
  OBVIOUS
<1>1. ASSUME NEW k \in Kind, NEW u \in User, NEW i \in Keys, NEW r \in {0, rev},
             Send([kind |-> k, user |-> u, turn |-> turn, rev |-> r, key |-> i])
      PROVE  Step /\ TurnRule
  <2> DEFINE c == [kind |-> k, user |-> u, turn |-> turn, rev |-> r, key |-> i]
  <2>1. c \in Command
    BY RevTyped DEF Command
  <2>2. Step
    BY <1>1, <2>1, SendStep
  <2>3. turn' = turn
    BY <1>1 DEF Send, encounter
  <2>4. QED
    BY <2>2, <2>3 DEF TurnRule
<1>2. ASSUME NEW s \in Server, (\E c \in sent : Arrive(s, c)) \/ Enter(s) \/ Refuse(s)
                             \/ BreakOff(s) \/ Crash(s)
      PROVE  Step /\ TurnRule
  <2>1. Step
    BY <1>2, ArriveStep, EnterStep, RefuseStep, CrashStep
  <2>2. turn' = turn
    BY <1>2 DEF Arrive, Enter, Refuse, BreakOff, Crash, encounter
  <2>3. QED
    BY <2>1, <2>2 DEF TurnRule
<1>3. ASSUME NEW s \in Server, EndTurn(s) \/ CastVote(s) \/ SkipTurn(s) \/ Spend(s)
      PROVE  Step /\ TurnRule
  BY <1>3, EndTurnStep, CastVoteStep, SkipTurnStep, SpendStep
<1>4. CASE DmStep \/ Recoordinate
  BY <1>4, DmWorkStep, DmFailsStep, DmEndsTurnStep, DmLeavesTurnStep, DmEndsEncounterStep DEF DmStep
<1>5. ASSUME NEW w \in Sweeper, SweepLook(w) \/ SweepQueue(w) PROVE Step /\ TurnRule
  BY <1>5, SweepStep
<1>6. CASE Mutate \/ Archive \/ Restore \/ Pause \/ Resume
  BY <1>6, AroundStep
<1>7. CASE UNCHANGED vars
  <2>1. UNCHANGED <<encounter, commands, requests, npc, paused, upsets>>
    BY <1>7 DEF vars
  <2>2. QED
    BY <2>1, QuietEncounter, QuietService, NpcKept, EnvironmentKept DEF Step, TurnRule, encounter
<1>8. QED
  BY <1>1, <1>2, <1>3, <1>4, <1>5, <1>6, <1>7 DEF Next, Serve

LEMMA InvAlways == Spec => []Inv
<1>1. Inv /\ [Next]_vars => Inv'
  BY NextStep, StepInv
<1>2. QED
  BY InitInv, <1>1, PTL DEF Spec

\* Every variable keeps its type: the turn stays within the bound, a request works on a
\* command that was sent, and an open cue is one that was queued.
THEOREM TypeCorrect == Spec => []TypeOK
<1>1. Inv => TypeOK
  BY DEF Inv
<1>2. QED
  BY InvAlways, <1>1, PTL

\* What a client was told is so, however often and late its commands arrive: confirmed
\* commands were applied, once, an end of turn that a check refused never is, and no seat
\* acts twice on one budget (idempotency.py:96, turns.py:413).
THEOREM Answers == Spec => []AnswersHold
<1>1. Inv => AnswersHold
  BY DEF Inv
<1>2. QED
  BY InvAlways, <1>1, PTL

\* Turns follow one another, and each is ended by who may end it: its player by a command
\* for that very turn, a majority of the others, or the DM for an NPC (turns.py:437).
THEOREM RightlyEnded == Spec => TurnsEndRightly
<1>1. Inv /\ [Next]_vars =>
        [turn' # turn =>
           /\ turn' = turn + 1
           /\ \/ \E c \in done' \ done : EndedBy(c)
              \/ /\ Player(turn) # Dm
                 /\ 2 * Cardinality({u \in User : <<turn, u>> \in votes'})
                      > Cardinality(Eligible(Player(turn)))
              \/ Player(turn) = Dm /\ dm.on]_vars
  BY NextStep DEF TurnRule
<1>2. QED
  BY InvAlways, <1>1, PTL DEF Spec, TurnsEndRightly
=============================================================================
