---------------------- MODULE AdventureClosingProofs ----------------------
(***************************************************************************)
(* Proofs about AdventureClosing for any fights, parties, arcs and         *)
(* sweepers: first what holds as long as no owner has chosen where an arc  *)
(* starts, then what holds wherever the arcs start.                        *)
(***************************************************************************)
EXTENDS AdventureClosing, TLAPS

-----------------------------------------------------------------------------
\* One arc at a time, and the events so far.
OneActive == \A a, b \in Arc : Active(a) /\ Active(b) => a = b
Begun(a) == arc[a].status # "none"
Done(a) == arc[a].status = "completed"
Cursors ==
  /\ \A a \in Arc : Begun(a) => arc[a].first <= revision + 1
  /\ \A a \in Arc : Done(a) => arc[a].last <= revision
Over(f) == fight[f].seq # 0
Events ==
  /\ \A f \in Fight : Over(f) => fight[f].seq = fight[f].source + 1 /\ fight[f].seq <= revision
  /\ \A f \in Fight : ~Over(f) => fight[f].during = NoArc /\ ~fight[f].credited

\* The range of an arc has the fights that ended during it, and no others.
Inside ==
  \A f \in Fight, a \in Arc : fight[f].during = a =>
    Begun(a) /\ arc[a].first <= fight[f].source /\ (Done(a) => fight[f].source <= arc[a].last)
Outside ==
  \A f \in Fight, a \in Arc : Over(f) /\ fight[f].during # a /\ Begun(a) =>
    fight[f].seq < arc[a].first \/ (Done(a) /\ fight[f].source > arc[a].last)
Timeline == OneActive /\ Cursors /\ Events /\ Inside /\ Outside

\* Closing is about completed arcs.
Staged ==
  /\ \A a \in Arc : job[a].outbox # "none" => Done(a)
  /\ \A a \in Arc : arc[a].closing # "pending" => Done(a)
  /\ \A a \in Arc, p \in Pc : award[a][p] # {} => Done(a)
  /\ \A x \in Sweeper : ~At(x, "idle") => sweeper[x].arc \in Arc /\ Done(sweeper[x].arc)

\* A credited fight has paid everybody who fought it.
Credits ==
  \A f \in Fight, a \in Arc, p \in Pc :
    fight[f].during = a /\ fight[f].credited /\ p \in Party[f] => award[a][p] # {}

\* What a sweeper has read may be out of date, but only in what has been paid since.
Planning(x) == sweeper[x].phase \in {"counted", "planned"}
Counted(x) ==
  \A f \in Fight :
    /\ f \in sweeper[x].fights => fight[f].during = sweeper[x].arc
    /\ fight[f].during = sweeper[x].arc => f \in sweeper[x].fights \/ fight[f].credited
AtMost(n, a, p) == n <= IF award[a][p] # {} THEN 1 ELSE 0
Read(x) ==
  /\ Planning(x) => Counted(x)
  /\ \A p \in sweeper[x].rows : sweeper[x].arc \in Arc /\ award[sweeper[x].arc][p] # {}
  /\ \A p \in Pc, a \in Arc : AtMost(sweeper[x].sheets[p][a], a, p)
Reading == \A x \in Sweeper : Read(x)

\* The accounts of arcs that start at the next event.
Exact == RightShares /\ ClosedIsPaid /\ SheetsBacked
Inv == TypeOK /\ Timeline /\ Staged /\ Credits /\ Reading /\ Exact

-----------------------------------------------------------------------------
(* Types.                                                                  *)

LEMMA IdleTyped == Idle \in Activity
BY DEF Idle, Activity, NoXp, Phase, Working

LEMMA InitTyped == Init => TypeOK
<1> SUFFICES ASSUME Init PROVE TypeOK
  OBVIOUS
<1>1. sweeper \in [Sweeper -> Activity]
  BY IdleTyped DEF Init
<1>2. arc \in [Arc -> Adventure]
  BY DEF Init, Adventure
<1>3. fight \in [Fight -> Encounter]
  BY DEF Init, Encounter
<1>4. job \in [Arc -> Job]
  BY DEF Init, Job
<1>5. award \in [Arc -> [Pc -> SUBSET Fight]] /\ sheet \in [Pc -> [Arc -> Nat]]
  BY DEF Init, NoXp
<1>6. QED
  BY <1>1, <1>2, <1>3, <1>4, <1>5 DEF Init, TypeOK

\* Where a sweeper may go, it stays well typed.
LEMMA MoveTyped ==
  ASSUME TypeOK, NEW x \in Sweeper, NEW phase \in Phase,
         Goto(x, phase) \/ Leaves(x, phase) \/ Rests(x)
  PROVE  sweeper' \in [Sweeper -> Activity]
<1>1. sweeper[x] \in Activity
  BY DEF TypeOK
<1>2. [sweeper[x] EXCEPT !.phase = phase] \in Activity
  BY <1>1 DEF Activity
<1>3. [Idle EXCEPT !.phase = phase, !.arc = sweeper[x].arc,
                   !.held = phase \in Working /\ sweeper[x].held] \in Activity
  <2>1. (phase \in Working /\ sweeper[x].held) \in BOOLEAN
    OBVIOUS
  <2>2. QED
    BY <1>1, <2>1, IdleTyped DEF Activity
<1>4. CASE Goto(x, phase)
  BY <1>2, <1>4 DEF Goto, TypeOK
<1>5. CASE Leaves(x, phase)
  BY <1>3, <1>5 DEF Leaves, TypeOK
<1>6. CASE Rests(x)
  BY <1>6, IdleTyped DEF Rests, TypeOK
<1>7. QED
  BY <1>4, <1>5, <1>6

\* A write to a row that is not there changes nothing.
LEMMA JobTyped ==
  ASSUME TypeOK, NEW a, NEW j, job' = [job EXCEPT ![a] = j], a \in Arc => j \in Job
  PROVE  job' \in [Arc -> Job]
<1>1. CASE a \in Arc
  BY <1>1 DEF TypeOK
<1>2. CASE a \notin Arc
  BY <1>2 DEF TypeOK
<1>3. QED
  BY <1>1, <1>2

LEMMA ArcTyped ==
  ASSUME TypeOK, NEW a, NEW row, arc' = [arc EXCEPT ![a] = row], a \in Arc => row \in Adventure
  PROVE  arc' \in [Arc -> Adventure]
<1>1. CASE a \in Arc
  BY <1>1 DEF TypeOK
<1>2. CASE a \notin Arc
  BY <1>2 DEF TypeOK
<1>3. QED
  BY <1>1, <1>2

\* The columns of an arc's row, one by one.
LEMMA ArcRows ==
  ASSUME NEW row \in Adventure, NEW status \in {"none", "active", "completed"}, NEW n \in Nat,
         NEW closing \in {"pending", "failed", "succeeded"}
  PROVE  /\ [row EXCEPT !.status = status, !.first = n] \in Adventure
         /\ [row EXCEPT !.status = status, !.first = n, !.chosen = TRUE] \in Adventure
         /\ [row EXCEPT !.status = status, !.last = n] \in Adventure
         /\ [row EXCEPT !.closing = closing] \in Adventure
BY DEF Adventure

LEMMA CurrentArcTyped == CurrentArc \in Arc \cup {NoArc}
BY DEF CurrentArc

LEMMA EndedTyped ==
  ASSUME TypeOK, NEW f \in Fight, NEW turn \in Nat, fight' = Ended(f, turn)
  PROVE  fight' \in [Fight -> Encounter]
<1>1. [seq |-> turn + 1, source |-> turn, during |-> CurrentArc, credited |-> FALSE] \in Encounter
  BY CurrentArcTyped DEF Encounter
<1>2. QED
  BY <1>1 DEF Ended, TypeOK

LEMMA StartTyped ==
  ASSUME TypeOK, NEW a \in Arc, StartAdventure(a)
  PROVE  TypeOK'
<1>1. arc \in [Arc -> Adventure] /\ arc[a] \in Adventure /\ FirstEvent \in Nat
  BY DEF TypeOK, FirstEvent
<1>2. arc' \in [Arc -> Adventure]
  <2>1. CASE arc' = [arc EXCEPT ![a].status = "active", ![a].first = FirstEvent]
    <3> DEFINE row == [arc[a] EXCEPT !.status = "active", !.first = FirstEvent]
    <3>1. row \in Adventure /\ arc' = [arc EXCEPT ![a] = row]
      BY <1>1, <2>1, ArcRows
    <3>2. QED
      BY <3>1, ArcTyped
  <2>2. ASSUME NEW first \in ChosenStarts,
               arc' = [arc EXCEPT ![a].status = "active", ![a].first = first, ![a].chosen = TRUE]
        PROVE  arc' \in [Arc -> Adventure]
    <3> DEFINE row == [arc[a] EXCEPT !.status = "active", !.first = first, !.chosen = TRUE]
    <3>1. row \in Adventure /\ arc' = [arc EXCEPT ![a] = row]
      BY <1>1, <2>2, ArcRows, StartsAssumption
    <3>2. QED
      BY <3>1, ArcTyped
  <2>3. QED
    BY <2>1, <2>2 DEF StartAdventure
<1>3. QED
  BY <1>2 DEF StartAdventure, table, TypeOK

\* The row of an arc that starts.
LEMMA OpenedRow ==
  ASSUME NEW row \in Adventure, NEW first
  PROVE  LET opened == [row EXCEPT !.status = "active", !.first = first, !.chosen = TRUE]
         IN opened.status = "active" /\ opened.chosen = TRUE /\ opened.closing = row.closing
BY DEF Adventure

LEMMA Opens ==
  ASSUME TypeOK, NEW a \in Arc, StartAdventure(a)
  PROVE  /\ \A b \in Arc : b # a => arc'[b] = arc[b]
         /\ arc'[a].status = "active" /\ arc'[a].closing = arc[a].closing
         /\ arc'[a].chosen = TRUE \/ (/\ arc'[a].chosen = arc[a].chosen
                                     /\ arc'[a].first = FirstEvent)
<1>1. arc \in [Arc -> Adventure] /\ arc[a] \in Adventure
  BY DEF TypeOK
<1>2. CASE arc' = [arc EXCEPT ![a].status = "active", ![a].first = FirstEvent]
  BY <1>1, <1>2 DEF Adventure
<1>3. ASSUME NEW first \in ChosenStarts,
             arc' = [arc EXCEPT ![a].status = "active", ![a].first = first, ![a].chosen = TRUE]
      PROVE  /\ \A b \in Arc : b # a => arc'[b] = arc[b]
             /\ arc'[a].status = "active" /\ arc'[a].closing = arc[a].closing
             /\ arc'[a].chosen = TRUE
  <2> DEFINE opened == [arc[a] EXCEPT !.status = "active", !.first = first, !.chosen = TRUE]
  <2>1. opened.status = "active" /\ opened.chosen = TRUE /\ opened.closing = arc[a].closing
    BY <1>1, OpenedRow
  <2>2. arc' = [arc EXCEPT ![a] = opened]
    BY <1>1, <1>3
  <2> HIDE DEF opened
  <2>3. QED
    BY <1>1, <2>1, <2>2
<1>4. QED
  BY <1>2, <1>3 DEF StartAdventure

LEMMA FightEndsTyped ==
  ASSUME TypeOK, NEW f \in Fight, FightEnds(f)
  PROVE  TypeOK'
<1>1. revision + 1 \in Nat /\ revision' \in Nat
  BY DEF FightEnds, TypeOK
<1>2. fight' \in [Fight -> Encounter]
  BY <1>1, EndedTyped DEF FightEnds
<1>3. QED
  BY <1>1, <1>2 DEF FightEnds, TypeOK

LEMMA CompleteTyped ==
  ASSUME TypeOK, NEW a \in Arc, CompleteAdventure(a)
  PROVE  TypeOK'
<1>1. revision + 1 \in Nat /\ revision' \in Nat
  BY DEF CompleteAdventure, TypeOK
<1>2. fight' \in [Fight -> Encounter]
  <2>1. CASE fight' = fight
    BY <2>1 DEF TypeOK
  <2>2. CASE \E f \in Fight : fight' = Ended(f, revision + 1)
    BY <1>1, <2>2, EndedTyped
  <2>3. QED
    BY <2>1, <2>2 DEF CompleteAdventure
<1>3. arc' \in [Arc -> Adventure]
  <2> DEFINE row == [arc[a] EXCEPT !.status = "completed", !.last = revision + 1]
  <2>1. arc \in [Arc -> Adventure] /\ revision + 1 \in Nat
    BY DEF TypeOK
  <2>2. row \in Adventure /\ arc' = [arc EXCEPT ![a] = row]
    BY <2>1, ArcRows DEF CompleteAdventure
  <2>3. QED
    BY <2>2, ArcTyped
<1>4. job' \in [Arc -> Job]
  <2> DEFINE row == [job[a] EXCEPT !.outbox = "due"]
  <2>1. job \in [Arc -> Job]
    BY DEF TypeOK
  <2>2. row \in Job /\ job' = [job EXCEPT ![a] = row]
    BY <2>1 DEF CompleteAdventure, Job
  <2>3. QED
    BY <2>2, JobTyped
<1>5. QED
  BY <1>1, <1>2, <1>3, <1>4 DEF CompleteAdventure, TypeOK

\* Most steps of a sweeper leave all but its own state and the job alone.
LEMMA SweeperOnly ==
  ASSUME TypeOK, UNCHANGED <<table, arc>>, sweeper' \in [Sweeper -> Activity],
         job' \in [Arc -> Job], faults' \in Nat
  PROVE  TypeOK'
BY DEF TypeOK, table

LEMMA SelectTyped ==
  ASSUME TypeOK, NEW x \in Sweeper, NEW a \in Arc, SelectRow(x, a)
  PROVE  TypeOK'
<1>1. [Idle EXCEPT !.phase = "listed", !.arc = a] \in Activity
  BY IdleTyped DEF Activity, Phase
<1>2. sweeper' \in [Sweeper -> Activity]
  BY <1>1 DEF SelectRow, TypeOK
<1>3. QED
  BY <1>2, SweeperOnly DEF SelectRow, TypeOK

LEMMA ClaimedTyped ==
  ASSUME NEW row \in Job, NEW x \in Sweeper
  PROVE  [row EXCEPT !.ledger = "running", !.attempts = @ + 1, !.holder = x] \in Job
<1>1. row.attempts + 1 \in Nat
  BY DEF Job
<1>2. [row EXCEPT !.ledger = "running", !.attempts = row.attempts + 1, !.holder = x] \in Job
  BY <1>1 DEF Job
<1>3. QED
  BY <1>2 DEF Job

LEMMA ClaimTyped ==
  ASSUME TypeOK, NEW x \in Sweeper, Claim(x)
  PROVE  TypeOK'
<1> DEFINE a == sweeper[x].arc
           claimed == [job[a] EXCEPT !.ledger = "running", !.attempts = @ + 1, !.holder = x]
<1>1. job' \in [Arc -> Job]
  <2>1. ASSUME a \in Arc
        PROVE  claimed \in Job
    <3>1. job[a] \in Job
      BY <2>1 DEF TypeOK
    <3>2. QED
      BY <3>1, ClaimedTyped
  <2>2. job' = [job EXCEPT ![a] = claimed]
    BY DEF Claim
  <2>3. QED
    BY <2>1, <2>2, JobTyped
<1>2. sweeper' \in [Sweeper -> Activity]
  <2>1. "claimed" \in Phase /\ Goto(x, "claimed")
    BY DEF Claim, Phase, Working
  <2>2. QED
    BY <2>1, MoveTyped
<1>3. QED
  BY <1>1, <1>2, SweeperOnly DEF Claim, TypeOK

LEMMA FindTyped ==
  ASSUME TypeOK, NEW x \in Sweeper, FindSettled(x) \/ FindBusy(x)
  PROVE  TypeOK'
<1>1. PICK phase \in {"retire", "mark_failed"} : Goto(x, phase)
  BY DEF FindSettled, FindBusy
<1>2. phase \in Phase
  BY <1>1 DEF Phase
<1>3. sweeper' \in [Sweeper -> Activity]
  BY <1>1, <1>2, MoveTyped
<1>4. QED
  BY <1>3, SweeperOnly DEF FindSettled, FindBusy, TypeOK

LEMMA LookTyped ==
  ASSUME TypeOK, NEW x \in Sweeper, Look(x)
  PROVE  TypeOK'
<1>1. PICK phase \in {"exhausted", "retry", "retire", "mark_failed"} :
        Goto(x, phase) \/ Leaves(x, phase)
  BY DEF Look
<1>2. phase \in Phase
  BY <1>1 DEF Phase, Working
<1>3. sweeper' \in [Sweeper -> Activity]
  BY <1>1, <1>2, MoveTyped
<1>4. QED
  BY <1>3, SweeperOnly DEF Look, TypeOK

LEMMA WrittenTyped ==
  ASSUME TypeOK, NEW x \in Sweeper, sweeper[x].arc \in Arc,
         sweeper[x].phase \in {"ok", "retry", "exhausted"}
  PROVE  Written(x) \in Job
<1>1. JobOf(x) \in Job
  BY DEF JobOf, TypeOK
<1>2. NewLedger(x) \in {"succeeded", "dead_letter", "failed"}
  BY DEF NewLedger, At
<1>3. (IF NewLedger(x) = "failed" THEN JobOf(x).attempts ELSE 0) \in Nat
  BY <1>1 DEF Job
<1>4. Written(x) = [JobOf(x) EXCEPT !.ledger = NewLedger(x), !.holder = NoArc,
                      !.attempts = IF NewLedger(x) = "failed" THEN JobOf(x).attempts ELSE 0]
  BY DEF Written
<1>5. QED
  BY <1>1, <1>2, <1>3, <1>4 DEF Job

LEMMA VerdictTyped ==
  ASSUME TypeOK, NEW x \in Sweeper, Verdict(x)
  PROVE  TypeOK'
<1>1. job' \in [Arc -> Job]
  <2>1. job' = [job EXCEPT ![sweeper[x].arc] = Written(x)] \/ job' = job
    BY DEF Verdict
  <2>2. sweeper[x].arc \in Arc => Written(x) \in Job
    BY WrittenTyped DEF Verdict
  <2>3. job \in [Arc -> Job]
    BY DEF TypeOK
  <2>4. QED
    BY <2>1, <2>2, <2>3, JobTyped
<1>2. PICK phase \in {"retire", "mark_failed"} : Leaves(x, phase)
  BY DEF Verdict, AfterVerdict
<1>3. phase \in Phase
  BY <1>2 DEF Phase
<1>4. sweeper' \in [Sweeper -> Activity]
  BY <1>2, <1>3, MoveTyped
<1>5. QED
  BY <1>1, <1>4, SweeperOnly DEF Verdict, TypeOK

LEMMA OutboxTyped ==
  ASSUME TypeOK, NEW x \in Sweeper, Retire(x) \/ MarkFailed(x)
  PROVE  TypeOK'
<1>1. job' \in [Arc -> Job]
  <2> DEFINE a == sweeper[x].arc
             Noted(status) == [job[a] EXCEPT !.outbox = status]
  <2>1. \A status \in {"published", "due"} : a \in Arc => Noted(status) \in Job
    <3>1. a \in Arc => job[a] \in Job
      BY DEF TypeOK
    <3>2. QED
      BY <3>1 DEF Job
  <2>2. PICK status \in {"published", "due"} : job' = [job EXCEPT ![a] = Noted(status)]
    BY DEF Retire, MarkFailed
  <2>3. QED
    BY <2>1, <2>2, JobTyped
<1>2. Rests(x) /\ "idle" \in Phase
  BY DEF Retire, MarkFailed, Phase
<1>3. sweeper' \in [Sweeper -> Activity]
  BY <1>2, MoveTyped
<1>4. QED
  BY <1>1, <1>3, SweeperOnly DEF Retire, MarkFailed, TypeOK

LEMMA CountTyped ==
  ASSUME TypeOK, NEW x \in Sweeper, CountFights(x)
  PROVE  TypeOK'
<1> DEFINE found == {f \in Fight : Belongs(f, sweeper[x].arc) /\ ~fight[f].credited}
<1>1. sweeper[x] \in Activity
  BY DEF TypeOK
<1>2. CASE Goto(x, "ok")
  <2>1. "ok" \in Phase
    BY DEF Phase, Working
  <2>2. sweeper' \in [Sweeper -> Activity]
    BY <1>2, <2>1, MoveTyped
  <2>3. QED
    BY <2>2, SweeperOnly DEF CountFights, TypeOK
<1>3. CASE sweeper' = [sweeper EXCEPT ![x].phase = "counted", ![x].fights = found]
  <2> HIDE DEF found
  <2>1. found \in SUBSET Fight
    BY DEF found
  <2>2. "counted" \in Phase
    BY DEF Phase, Working
  <2>3. [sweeper[x] EXCEPT !.phase = "counted", !.fights = found] \in Activity
    BY <1>1, <2>1, <2>2 DEF Activity
  <2>4. sweeper' = [sweeper EXCEPT ![x] = [sweeper[x] EXCEPT !.phase = "counted", !.fights = found]]
    BY <1>3 DEF TypeOK
  <2>5. sweeper' \in [Sweeper -> Activity]
    BY <2>3, <2>4 DEF TypeOK
  <2>6. QED
    BY <2>5, SweeperOnly DEF CountFights, TypeOK
<1>4. QED
  BY <1>2, <1>3 DEF CountFights

LEMMA ReadTyped ==
  ASSUME TypeOK, NEW x \in Sweeper, ReadSheets(x)
  PROVE  TypeOK'
<1> DEFINE paid == {p \in Pc : award[sweeper[x].arc][p] # {}}
<1>1. sweeper[x] \in Activity
  BY DEF TypeOK
<1>2. sweeper' = [sweeper EXCEPT ![x] =
        [sweeper[x] EXCEPT !.phase = "planned", !.rows = paid, !.sheets = sheet]]
  BY DEF ReadSheets, TypeOK
<1> HIDE DEF paid
<1>3. paid \in SUBSET Pc
  BY DEF paid
<1>4. "planned" \in Phase
  BY DEF Phase, Working
<1>5. [sweeper[x] EXCEPT !.phase = "planned", !.rows = paid, !.sheets = sheet] \in Activity
  BY <1>1, <1>3, <1>4 DEF Activity, TypeOK
<1>6. sweeper' \in [Sweeper -> Activity]
  BY <1>2, <1>5 DEF TypeOK
<1>7. QED
  BY <1>6, SweeperOnly DEF ReadSheets, TypeOK

LEMMA CommitTyped ==
  ASSUME TypeOK, NEW x \in Sweeper, CommitFollowups(x)
  PROVE  TypeOK'
<1> DEFINE b == sweeper[x].arc
<1>1. sweeper[x] \in Activity
  BY DEF TypeOK
<1>2. \A p \in Pc : Share(x, p) \in SUBSET Fight
  BY <1>1 DEF Share, Activity
<1>3. award' \in [Arc -> [Pc -> SUBSET Fight]]
  <2>1. CASE b \in Arc
    <3>1. [p \in Pc |-> IF p \in Awarded(x) THEN Share(x, p) ELSE award[b][p]]
             \in [Pc -> SUBSET Fight]
      BY <1>2, <2>1 DEF TypeOK
    <3>2. QED
      BY <3>1 DEF CommitFollowups, TypeOK
  <2>2. CASE b \notin Arc
    BY <2>2 DEF CommitFollowups, TypeOK
  <2>3. QED
    BY <2>1, <2>2
<1>4. sheet' \in [Pc -> [Arc -> Nat]]
  <2>1. sweeper[x].sheets \in [Pc -> [Arc -> Nat]]
    BY <1>1 DEF Activity
  <2>2. ASSUME NEW p \in Pc
        PROVE  [sweeper[x].sheets[p] EXCEPT ![b] = @ + 1] \in [Arc -> Nat]
    <3>1. sweeper[x].sheets[p] \in [Arc -> Nat]
      BY <2>1
    <3>2. CASE b \in Arc
      BY <3>1, <3>2
    <3>3. CASE b \notin Arc
      BY <3>1, <3>3
    <3>4. QED
      BY <3>2, <3>3
  <2>3. \A p \in Pc : sheet[p] \in [Arc -> Nat]
    BY DEF TypeOK
  <2>4. sheet' = [p \in Pc |-> IF p \in Awarded(x)
                               THEN [sweeper[x].sheets[p] EXCEPT ![b] = @ + 1] ELSE sheet[p]]
    BY DEF CommitFollowups
  <2>5. QED
    BY <2>2, <2>3, <2>4
<1>5. fight' \in [Fight -> Encounter]
  <2>1. \A f \in Fight : fight[f] \in Encounter /\ [fight[f] EXCEPT !.credited = TRUE] \in Encounter
    BY DEF TypeOK, Encounter
  <2>2. fight' = [f \in Fight |-> IF f \in sweeper[x].fights
                                 THEN [fight[f] EXCEPT !.credited = TRUE] ELSE fight[f]]
    BY DEF CommitFollowups
  <2>3. QED
    BY <2>1, <2>2
<1>6. arc' \in [Arc -> Adventure]
  <2> DEFINE a == sweeper[x].arc
             row == [arc[a] EXCEPT !.closing = "succeeded"]
  <2>1. a \in Arc => row \in Adventure
    BY ArcRows DEF TypeOK
  <2>2. arc' = [arc EXCEPT ![a] = row]
    BY DEF CommitFollowups
  <2>3. QED
    BY <2>1, <2>2, ArcTyped
<1>7. sweeper' \in [Sweeper -> Activity]
  <2>1. "ok" \in Phase /\ Leaves(x, "ok")
    BY DEF Phase, Working, CommitFollowups
  <2>2. QED
    BY <2>1, MoveTyped
<1>8. QED
  BY <1>3, <1>4, <1>5, <1>6, <1>7 DEF CommitFollowups, TypeOK

LEMMA FailTyped ==
  ASSUME TypeOK, NEW x \in Sweeper, Conflict(x) \/ FollowupsRaise(x)
  PROVE  TypeOK'
<1>1. FollowupsFail(x) /\ faults' \in Nat
  BY DEF Conflict, FollowupsRaise, TypeOK
<1>2. arc' \in [Arc -> Adventure]
  <2> DEFINE a == sweeper[x].arc
             row == [arc[a] EXCEPT !.closing = "failed"]
  <2>1. a \in Arc => row \in Adventure
    BY ArcRows DEF TypeOK
  <2>2. arc' = [arc EXCEPT ![a] = row]
    BY <1>1 DEF FollowupsFail
  <2>3. QED
    BY <2>1, <2>2, ArcTyped
<1>3. "retriable" \in Phase /\ Leaves(x, "retriable")
  BY <1>1 DEF Phase, Working, FollowupsFail
<1>4. sweeper' \in [Sweeper -> Activity]
  BY <1>3, MoveTyped
<1>5. QED
  BY <1>1, <1>2, <1>4 DEF FollowupsFail, table, TypeOK

LEMMA FaultTyped ==
  ASSUME TypeOK, NEW x \in Sweeper, Crash(x) \/ LeaseLost(x)
  PROVE  TypeOK'
<1>1. faults' \in Nat /\ job' \in [Arc -> Job]
  <2>1. \A a \in Arc : job[a] \in Job /\ [job[a] EXCEPT !.holder = NoArc] \in Job
    BY DEF TypeOK, Job
  <2>2. CASE Crash(x)
    BY <2>1, <2>2 DEF Crash, TypeOK
  <2>3. CASE LeaseLost(x)
    BY <2>3 DEF LeaseLost, TypeOK
  <2>4. QED
    BY <2>2, <2>3
<1>2. sweeper' \in [Sweeper -> Activity]
  <2>1. CASE Crash(x)
    <3>1. Rests(x) /\ "idle" \in Phase
      BY <2>1 DEF Crash, Phase
    <3>2. QED
      BY <3>1, MoveTyped
  <2>2. CASE LeaseLost(x)
    <3>1. sweeper \in [Sweeper -> Activity]
      BY DEF TypeOK
    <3>2. [sweeper[x] EXCEPT !.held = TRUE] \in Activity
      BY <3>1 DEF Activity
    <3>3. sweeper' = [sweeper EXCEPT ![x] = [sweeper[x] EXCEPT !.held = TRUE]]
      BY <2>2 DEF LeaseLost
    <3>4. QED
      BY <3>1, <3>2, <3>3
  <2>3. QED
    BY <2>1, <2>2
<1>3. QED
  BY <1>1, <1>2, SweeperOnly DEF Crash, LeaseLost

LEMMA NextTyped ==
  ASSUME TypeOK, [Next]_vars
  PROVE  TypeOK'
<1>1. CASE UNCHANGED vars
  BY <1>1 DEF vars, TypeOK
<1>2. CASE \E a \in Arc : StartAdventure(a) \/ CompleteAdventure(a)
  BY <1>2, StartTyped, CompleteTyped
<1>3. CASE \E f \in Fight : FightEnds(f)
  BY <1>3, FightEndsTyped
<1>4. CASE \E x \in Sweeper, a \in Arc : SelectRow(x, a)
  BY <1>4, SelectTyped
<1>5. ASSUME NEW x \in Sweeper, Sweeps(x)
      PROVE  TypeOK'
  BY <1>5, ClaimTyped, FindTyped, CountTyped, ReadTyped, CommitTyped, FailTyped, LookTyped,
     VerdictTyped, OutboxTyped DEF Sweeps
<1>6. CASE \E x \in Sweeper : Crash(x) \/ LeaseLost(x) \/ FollowupsRaise(x)
  BY <1>6, FaultTyped, FailTyped
<1>7. QED
  BY <1>1, <1>2, <1>3, <1>4, <1>5, <1>6 DEF Next

\* Every variable keeps its type.
THEOREM TypeCorrect == Spec => []TypeOK
<1>1. Init => TypeOK
  BY InitTyped
<1>2. TypeOK /\ [Next]_vars => TypeOK'
  BY NextTyped
<1>3. QED
  BY <1>1, <1>2, PTL DEF Spec

-----------------------------------------------------------------------------
(* What every step does.                                                   *)

\* What is final stays so; a fight that ends does so during the active arc.
Grows ==
  /\ \A a \in Arc : Done(a) => arc'[a].status = "completed" /\ arc'[a].first = arc[a].first
                               /\ arc'[a].last = arc[a].last
  /\ \A f \in Fight : Over(f) => fight'[f].seq = fight[f].seq /\ fight'[f].source = fight[f].source
                                 /\ fight'[f].during = fight[f].during
                                 /\ (fight[f].credited => fight'[f].credited)
  /\ \A f \in Fight : ~Over(f) => fight'[f].during = NoArc \/ Active(fight'[f].during)
  /\ \A a \in Arc, p \in Pc : award[a][p] # {} => award'[a][p] = award[a][p]

\* The closing of an arc does not touch the story.
Still ==
  /\ revision' = revision
  /\ \A a \in Arc : arc'[a].status = arc[a].status /\ arc'[a].first = arc[a].first
                     /\ arc'[a].last = arc[a].last
  /\ \A f \in Fight : fight'[f].seq = fight[f].seq /\ fight'[f].source = fight[f].source
                       /\ fight'[f].during = fight[f].during
                       /\ (fight[f].credited => fight'[f].credited)

Quiet == UNCHANGED <<table, arc>>

LEMMA Kinds ==
  ASSUME [Next]_vars
  PROVE  \/ \E a \in Arc : StartAdventure(a) \/ CompleteAdventure(a)
         \/ \E f \in Fight : FightEnds(f)
         \/ Quiet
         \/ \E x \in Sweeper : CommitFollowups(x) \/ FollowupsFail(x)
<1>1. CASE UNCHANGED vars
  BY <1>1 DEF vars, Quiet, table
<1>2. ASSUME NEW x \in Sweeper, NEW a \in Arc, SelectRow(x, a)
      PROVE  Quiet
  BY <1>2 DEF SelectRow, Quiet
<1>3. ASSUME NEW x \in Sweeper, Claim(x) \/ FindSettled(x) \/ FindBusy(x) \/ Look(x) \/ Verdict(x)
      PROVE  Quiet
  BY <1>3 DEF Claim, FindSettled, FindBusy, Look, Verdict, Quiet
<1>4. ASSUME NEW x \in Sweeper, CountFights(x) \/ ReadSheets(x) \/ Retire(x) \/ MarkFailed(x)
      PROVE  Quiet
  BY <1>4 DEF CountFights, ReadSheets, Retire, MarkFailed, Quiet
<1>5. ASSUME NEW x \in Sweeper, Crash(x) \/ LeaseLost(x)
      PROVE  Quiet
  BY <1>5 DEF Crash, LeaseLost, Quiet
<1>6. ASSUME NEW x \in Sweeper, Conflict(x) \/ FollowupsRaise(x)
      PROVE  FollowupsFail(x)
  BY <1>6 DEF Conflict, FollowupsRaise
<1>7. QED
  BY <1>1, <1>2, <1>3, <1>4, <1>5, <1>6 DEF Next, Sweeps

LEMMA ArcZero == NoArc \notin Arc
BY BoundsAssumption DEF NoArc, Arc

LEMMA QuietStill ==
  ASSUME Quiet
  PROVE  Still
BY DEF Quiet, table, Still

LEMMA CommitStill ==
  ASSUME TypeOK, NEW x \in Sweeper, CommitFollowups(x)
  PROVE  Still
<1>1. \A a \in Arc : arc'[a].status = arc[a].status /\ arc'[a].first = arc[a].first
                     /\ arc'[a].last = arc[a].last
  BY DEF CommitFollowups, TypeOK, Adventure
<1>2. \A f \in Fight : fight'[f].seq = fight[f].seq /\ fight'[f].source = fight[f].source
                       /\ fight'[f].during = fight[f].during
                       /\ (fight[f].credited => fight'[f].credited)
  BY DEF CommitFollowups, TypeOK, Encounter
<1>3. QED
  BY <1>1, <1>2 DEF CommitFollowups, Still

LEMMA FailStill ==
  ASSUME TypeOK, NEW x \in Sweeper, FollowupsFail(x)
  PROVE  Still
<1>1. \A a \in Arc : arc'[a].status = arc[a].status /\ arc'[a].first = arc[a].first
                     /\ arc'[a].last = arc[a].last
  BY DEF FollowupsFail, TypeOK, Adventure
<1>2. QED
  BY <1>1 DEF FollowupsFail, table, Still

LEMMA CurrentIsActive ==
  ASSUME TypeOK
  PROVE  CurrentArc = NoArc \/ (CurrentArc \in Arc /\ Active(CurrentArc))
BY DEF CurrentArc

LEMMA EndedIs ==
  ASSUME TypeOK, NEW f \in Fight, NEW turn, fight' = Ended(f, turn)
  PROVE  /\ fight'[f] = [seq |-> turn + 1, source |-> turn, during |-> CurrentArc, credited |-> FALSE]
         /\ \A g \in Fight : g # f => fight'[g] = fight[g]
BY DEF Ended, TypeOK

LEMMA EndingGrows ==
  ASSUME TypeOK, Events, NEW f \in Fight, NEW turn, ~Over(f), fight' = Ended(f, turn),
         award' = award,
         \A a \in Arc : Done(a) => arc'[a] = arc[a]
  PROVE  Grows
<1>1. fight'[f] = [seq |-> turn + 1, source |-> turn, during |-> CurrentArc, credited |-> FALSE]
  BY EndedIs
<1>2. fight'[f].during = CurrentArc
  BY <1>1
<1>3. \A g \in Fight : g # f => fight'[g] = fight[g]
  BY EndedIs
<1>4. \A a \in Arc : Done(a) => arc'[a].status = "completed" /\ arc'[a].first = arc[a].first
                                /\ arc'[a].last = arc[a].last
  BY DEF Done
<1>5. \A g \in Fight : Over(g) => g # f
  OBVIOUS
<1>6. \A g \in Fight : ~Over(g) => fight'[g].during = NoArc \/ Active(fight'[g].during)
  BY <1>2, <1>3, CurrentIsActive DEF Events
<1>7. QED
  BY <1>3, <1>4, <1>5, <1>6 DEF Grows

LEMMA Growing ==
  ASSUME TypeOK, Events, [Next]_vars
  PROVE  Grows
<1>1. TypeOK /\ Events
  OBVIOUS
<1>2. ASSUME Still, \A a \in Arc, p \in Pc : award[a][p] # {} => award'[a][p] = award[a][p]
      PROVE  Grows
  BY <1>1, <1>2 DEF Still, Grows, Events, Done, Over
<1>3. ASSUME NEW a \in Arc, StartAdventure(a)
      PROVE  Grows
  <2>1. \A b \in Arc : b # a => arc'[b] = arc[b]
    BY <1>1, <1>3, Opens
  <2>2. ~Done(a) /\ fight' = fight /\ award' = award
    BY <1>3 DEF StartAdventure, Done, table
  <2>3. QED
    BY <1>1, <2>1, <2>2 DEF Grows, Done, Events, Over
<1>4. ASSUME NEW f \in Fight, FightEnds(f)
      PROVE  Grows
  <2>1. ~Over(f) /\ fight' = Ended(f, revision + 1) /\ arc' = arc /\ award' = award
    BY <1>4 DEF FightEnds, Over
  <2>2. QED
    BY <1>1, <2>1, EndingGrows
<1>5. ASSUME NEW a \in Arc, CompleteAdventure(a)
      PROVE  Grows
  <2>1. \A b \in Arc : b # a => arc'[b] = arc[b]
    BY <1>1, <1>5 DEF CompleteAdventure, TypeOK
  <2>2. ~Done(a) /\ award' = award
    BY <1>5 DEF CompleteAdventure, Active, Done
  <2>3. fight' = fight \/ \E f \in Fight : ~Over(f) /\ fight' = Ended(f, revision + 1)
    BY <1>5 DEF CompleteAdventure, Over
  <2>4. CASE fight' = fight
    BY <1>1, <2>1, <2>2, <2>4 DEF Grows, Done, Events, Over
  <2>5. ASSUME NEW f \in Fight, ~Over(f), fight' = Ended(f, revision + 1)
        PROVE  Grows
    BY <1>1, <2>1, <2>2, <2>5, EndingGrows
  <2>6. QED
    BY <2>3, <2>4, <2>5
<1>6. CASE Quiet
  BY <1>2, <1>6, QuietStill DEF Quiet, table
<1>7. ASSUME NEW x \in Sweeper, CommitFollowups(x)
      PROVE  Grows
  <2>1. ASSUME NEW a \in Arc, NEW p \in Pc, award[a][p] # {}
        PROVE  award'[a][p] = award[a][p]
    BY <1>1, <1>7, <2>1 DEF CommitFollowups, TypeOK
  <2>2. QED
    BY <1>1, <1>2, <1>7, <2>1, CommitStill
<1>8. ASSUME NEW x \in Sweeper, FollowupsFail(x)
      PROVE  Grows
  BY <1>1, <1>2, <1>8, FailStill DEF FollowupsFail, table
<1>9. QED
  BY <1>3, <1>4, <1>5, <1>6, <1>7, <1>8, Kinds

\* Nothing more happens during an arc that is over.
LEMMA PastStands ==
  ASSUME Inv, Grows, NEW a \in Arc, Done(a), NEW f \in Fight
  PROVE  fight'[f].during = a <=> fight[f].during = a
<1>1. CASE Over(f)
  BY <1>1 DEF Grows
<1>2. CASE ~Over(f)
  <2>1. fight[f].during # a
    BY <1>2, ArcZero DEF Inv, Timeline, Events
  <2>2. fight'[f].during # a
    BY <1>2, ArcZero DEF Grows, Active, Done
  <2>3. QED
    BY <2>1, <2>2
<1>3. QED
  BY <1>1, <1>2

LEMMA FoughtStands ==
  ASSUME Inv, Grows, NEW a \in Arc, Done(a), NEW p \in Pc
  PROVE  Fought(a, p)' = Fought(a, p)
BY PastStands DEF Fought

LEMMA CurrentIsTheActive ==
  ASSUME OneActive, NEW a \in Arc, Active(a)
  PROVE  CurrentArc = a
<1>1. CurrentArc \in Arc /\ Active(CurrentArc)
  BY DEF CurrentArc
<1>2. QED
  BY <1>1 DEF OneActive

-----------------------------------------------------------------------------
(* The ranges of the arcs.                                                 *)

LEMMA TimelineStill ==
  ASSUME TypeOK, Timeline, Still, \A f \in Fight : ~Over(f) => ~fight'[f].credited
  PROVE  Timeline'
<1>1. OneActive'
  BY DEF OneActive, Active, Still, Timeline
<1>2. Cursors'
  BY DEF Cursors, Begun, Done, Still, Timeline
<1>3. Events'
  BY DEF Events, Over, Still, Timeline
<1>4. Inside'
  BY DEF Inside, Begun, Done, Still, Timeline
<1>5. Outside'
  BY DEF Outside, Over, Begun, Done, Still, Timeline
<1>6. QED
  BY <1>1, <1>2, <1>3, <1>4, <1>5 DEF Timeline

\* Only fights that have ended are credited.
LEMMA CommitCredits ==
  ASSUME Inv, NEW x \in Sweeper, CommitFollowups(x), NEW f \in Fight, ~Over(f)
  PROVE  fight'[f] = fight[f] /\ ~fight'[f].credited
<1>1. sweeper[x].arc \in Arc
  BY DEF Inv, Staged, CommitFollowups, At
<1>2. fight[f].during = NoArc /\ ~fight[f].credited
  BY DEF Inv, Timeline, Events
<1>3. Counted(x)
  BY DEF Inv, Reading, Read, Planning, CommitFollowups, At
<1>4. f \notin sweeper[x].fights
  BY <1>1, <1>2, <1>3, ArcZero DEF Counted
<1>5. QED
  BY <1>2, <1>4 DEF CommitFollowups

LEMMA TimelineStarts ==
  ASSUME TypeOK, Timeline, NEW b \in Arc, StartAdventure(b), DefaultStarts'
  PROVE  Timeline'
<1>1. /\ ~Begun(b) /\ \A a \in Arc : ~Active(a)
      /\ revision' = revision /\ fight' = fight
  BY DEF StartAdventure, Begun, Active, table
<1>2. /\ arc'[b].status = "active" /\ arc'[b].first = revision + 1
      /\ \A a \in Arc : a # b => arc'[a] = arc[a]
  <2>1. arc'[b].chosen # TRUE
    BY DEF DefaultStarts
  <2>2. QED
    BY <2>1, Opens DEF FirstEvent
<1>3. revision \in Nat /\ \A f \in Fight : fight[f].seq \in Nat
  BY DEF TypeOK, Encounter
<1>4. OneActive'
  BY <1>1, <1>2 DEF OneActive, Active
<1>5. Cursors'
  BY <1>1, <1>2, <1>3 DEF Timeline, Cursors, Begun, Done
<1>6. Events'
  BY <1>1 DEF Timeline, Events, Over
<1>7. Inside'
  BY <1>1, <1>2 DEF Timeline, Inside, Begun, Done
<1>8. Outside'
  <2>1. SUFFICES ASSUME NEW f \in Fight, NEW a \in Arc, Over(f)', fight'[f].during # a, Begun(a)'
                 PROVE  fight'[f].seq < arc'[a].first \/ (Done(a)' /\ fight'[f].source > arc'[a].last)
    BY DEF Outside
  <2>2. CASE a = b
    BY <1>1, <1>2, <1>3, <2>1, <2>2 DEF Timeline, Events, Over
  <2>3. CASE a # b
    BY <1>1, <1>2, <2>1, <2>3 DEF Timeline, Outside, Over, Begun, Done
  <2>4. QED
    BY <2>2, <2>3
<1>9. QED
  BY <1>4, <1>5, <1>6, <1>7, <1>8 DEF Timeline

LEMMA TimelineEnds ==
  ASSUME TypeOK, Timeline, NEW g \in Fight, FightEnds(g)
  PROVE  Timeline'
<1>1. /\ ~Over(g) /\ fight' = Ended(g, revision + 1) /\ revision' = revision + 2 /\ arc' = arc
  BY DEF FightEnds, Over
<1>2. fight'[g] = [seq |-> (revision + 1) + 1, source |-> revision + 1, during |-> CurrentArc,
                   credited |-> FALSE]
  BY <1>1, EndedIs
<1>3. /\ fight'[g].seq = (revision + 1) + 1 /\ fight'[g].source = revision + 1
      /\ fight'[g].during = CurrentArc
  BY <1>2
<1>4. \A f \in Fight : f # g => fight'[f] = fight[f]
  BY <1>1, EndedIs
<1>5. /\ revision \in Nat
      /\ \A a \in Arc : arc[a].first \in Nat /\ arc[a].last \in Nat
                        /\ arc[a].status \in {"none", "active", "completed"}
      /\ \A f \in Fight : fight[f].seq \in Nat /\ fight[f].source \in Nat
  BY DEF TypeOK, Encounter, Adventure
<1>6. OneActive'
  BY <1>1 DEF Timeline, OneActive, Active
<1>7. Cursors'
  BY <1>1, <1>5 DEF Timeline, Cursors, Begun, Done
<1>8. Events'
  <2>1. SUFFICES ASSUME NEW f \in Fight
                 PROVE  /\ Over(f)' => fight'[f].seq = fight'[f].source + 1 /\ fight'[f].seq <= revision'
                        /\ ~Over(f)' => fight'[f].during = NoArc /\ ~fight'[f].credited
    BY DEF Events
  <2>2. CASE f = g
    BY <1>1, <1>3, <1>5, <2>2 DEF Over
  <2>3. CASE f # g
    BY <1>1, <1>4, <1>5, <2>3 DEF Timeline, Events, Over
  <2>4. QED
    BY <2>2, <2>3
<1>9. Inside'
  <2>1. SUFFICES ASSUME NEW f \in Fight, NEW a \in Arc, fight'[f].during = a
                 PROVE  Begun(a)' /\ arc'[a].first <= fight'[f].source
                        /\ (Done(a)' => fight'[f].source <= arc'[a].last)
    BY DEF Inside
  <2>2. CASE f = g
    <3>1. Active(a)
      BY <1>3, <2>1, <2>2, ArcZero, CurrentIsActive
    <3>2. QED
      BY <1>1, <1>3, <1>5, <2>2, <3>1 DEF Timeline, Cursors, Begun, Done, Active
  <2>3. CASE f # g
    BY <1>1, <1>4, <2>1, <2>3 DEF Timeline, Inside, Begun, Done
  <2>4. QED
    BY <2>2, <2>3
<1>10. Outside'
  <2>1. SUFFICES ASSUME NEW f \in Fight, NEW a \in Arc, Over(f)', fight'[f].during # a, Begun(a)'
                 PROVE  fight'[f].seq < arc'[a].first \/ (Done(a)' /\ fight'[f].source > arc'[a].last)
    BY DEF Outside
  <2>2. CASE f = g
    <3>1. ~Active(a)
      BY <1>3, <2>1, <2>2, CurrentIsTheActive DEF Timeline
    <3>2. Done(a) /\ arc[a].last <= revision
      BY <1>1, <1>5, <2>1, <3>1 DEF Timeline, Cursors, Begun, Active, Done
    <3>3. QED
      BY <1>1, <1>3, <1>5, <2>2, <3>2 DEF Done
  <2>3. CASE f # g
    BY <1>1, <1>4, <2>1, <2>3 DEF Timeline, Outside, Over, Begun, Done
  <2>4. QED
    BY <2>2, <2>3
<1>11. QED
  BY <1>6, <1>7, <1>8, <1>9, <1>10 DEF Timeline

\* The completion of an arc, first without a fight.
LEMMA TimelineCloses ==
  ASSUME TypeOK, Timeline, NEW b \in Arc, Active(b), revision' = revision + 1, fight' = fight,
         arc' = [arc EXCEPT ![b].status = "completed", ![b].last = revision + 1]
  PROVE  Timeline'
<1>1. /\ arc'[b].status = "completed" /\ arc'[b].last = revision + 1 /\ arc'[b].first = arc[b].first
      /\ \A a \in Arc : a # b => arc'[a] = arc[a]
  BY DEF TypeOK, Adventure
<1>2. /\ revision \in Nat
      /\ \A a \in Arc : arc[a].first \in Nat /\ arc[a].last \in Nat
      /\ \A f \in Fight : fight[f].seq \in Nat /\ fight[f].source \in Nat
  BY DEF TypeOK, Encounter, Adventure
<1>3. OneActive'
  BY <1>1 DEF Timeline, OneActive, Active
<1>4. Cursors'
  <2>1. SUFFICES ASSUME NEW a \in Arc
                 PROVE  /\ Begun(a)' => arc'[a].first <= revision' + 1
                        /\ Done(a)' => arc'[a].last <= revision'
    BY DEF Cursors
  <2>2. CASE a = b
    <3>1. arc[b].first <= revision + 1
      BY DEF Timeline, Cursors, Begun, Active
    <3>2. QED
      BY <1>1, <1>2, <2>2, <3>1
  <2>3. CASE a # b
    <3>1. arc'[a] = arc[a]
      BY <1>1, <2>3
    <3>2. Begun(a) => arc[a].first <= revision + 1
      BY DEF Timeline, Cursors
    <3>3. Done(a) => arc[a].last <= revision
      BY DEF Timeline, Cursors
    <3>4. (Begun(a)' <=> Begun(a)) /\ (Done(a)' <=> Done(a))
      BY <3>1 DEF Begun, Done
    <3>5. arc'[a].first = arc[a].first /\ arc'[a].last = arc[a].last
      BY <3>1
    <3>6. arc[a].first <= revision + 1 => arc[a].first <= revision' + 1
      BY <1>2
    <3>7. arc[a].last <= revision => arc[a].last <= revision'
      BY <1>2
    <3>8. QED
      BY <3>2, <3>3, <3>4, <3>5, <3>6, <3>7
  <2>4. QED
    BY <2>2, <2>3
<1>5. Events'
  BY <1>2 DEF Timeline, Events, Over
<1>6. Inside'
  <2>1. SUFFICES ASSUME NEW f \in Fight, NEW a \in Arc, fight'[f].during = a
                 PROVE  Begun(a)' /\ arc'[a].first <= fight'[f].source
                        /\ (Done(a)' => fight'[f].source <= arc'[a].last)
    BY DEF Inside
  <2>2. CASE a = b
    <3>1. Over(f)
      BY <2>1, ArcZero DEF Timeline, Events
    <3>2. fight[f].source <= revision + 1
      BY <1>2, <3>1 DEF Timeline, Events
    <3>3. QED
      BY <1>1, <2>1, <2>2, <3>2 DEF Timeline, Inside, Begun, Done
  <2>3. CASE a # b
    BY <1>1, <2>1, <2>3 DEF Timeline, Inside, Begun, Done
  <2>4. QED
    BY <2>2, <2>3
<1>7. Outside'
  <2>1. SUFFICES ASSUME NEW f \in Fight, NEW a \in Arc, Over(f)', fight'[f].during # a, Begun(a)'
                 PROVE  fight'[f].seq < arc'[a].first \/ (Done(a)' /\ fight'[f].source > arc'[a].last)
    BY DEF Outside
  <2>2. CASE a = b
    BY <1>1, <2>1, <2>2 DEF Timeline, Outside, Over, Begun, Done, Active
  <2>3. CASE a # b
    BY <1>1, <2>1, <2>3 DEF Timeline, Outside, Over, Begun, Done
  <2>4. QED
    BY <2>2, <2>3
<1>8. QED
  BY <1>3, <1>4, <1>5, <1>6, <1>7 DEF Timeline

\* ... and then with one.
LEMMA TimelineClosesInFight ==
  ASSUME TypeOK, Timeline, NEW b \in Arc, Active(b), revision' = revision + 2,
         NEW g \in Fight, ~Over(g), fight' = Ended(g, revision + 1),
         arc' = [arc EXCEPT ![b].status = "completed", ![b].last = revision + 1]
  PROVE  Timeline'
<1>1. /\ arc'[b].status = "completed" /\ arc'[b].last = revision + 1 /\ arc'[b].first = arc[b].first
      /\ \A a \in Arc : a # b => arc'[a] = arc[a]
  BY DEF TypeOK, Adventure
<1>2. /\ revision \in Nat
      /\ \A a \in Arc : arc[a].first \in Nat /\ arc[a].last \in Nat
                        /\ arc[a].status \in {"none", "active", "completed"}
      /\ \A f \in Fight : fight[f].seq \in Nat /\ fight[f].source \in Nat
  BY DEF TypeOK, Encounter, Adventure
<1>3. fight'[g] = [seq |-> (revision + 1) + 1, source |-> revision + 1, during |-> CurrentArc,
                   credited |-> FALSE]
  BY EndedIs
<1>4. /\ fight'[g].seq = (revision + 1) + 1 /\ fight'[g].source = revision + 1
      /\ fight'[g].during = b
  BY <1>3, CurrentIsTheActive DEF Timeline
<1>5. \A f \in Fight : f # g => fight'[f] = fight[f]
  BY EndedIs
<1>6. OneActive'
  BY <1>1 DEF Timeline, OneActive, Active
<1>7. Cursors'
  <2>1. SUFFICES ASSUME NEW a \in Arc
                 PROVE  /\ Begun(a)' => arc'[a].first <= revision' + 1
                        /\ Done(a)' => arc'[a].last <= revision'
    BY DEF Cursors
  <2>2. CASE a = b
    <3>1. arc[b].first <= revision + 1
      BY DEF Timeline, Cursors, Begun, Active
    <3>2. QED
      BY <1>1, <1>2, <2>2, <3>1
  <2>3. CASE a # b
    <3>1. arc'[a] = arc[a]
      BY <1>1, <2>3
    <3>2. Begun(a) => arc[a].first <= revision + 1
      BY DEF Timeline, Cursors
    <3>3. Done(a) => arc[a].last <= revision
      BY DEF Timeline, Cursors
    <3>4. (Begun(a)' <=> Begun(a)) /\ (Done(a)' <=> Done(a))
      BY <3>1 DEF Begun, Done
    <3>5. arc'[a].first = arc[a].first /\ arc'[a].last = arc[a].last
      BY <3>1
    <3>6. arc[a].first <= revision + 1 => arc[a].first <= revision' + 1
      BY <1>2
    <3>7. arc[a].last <= revision => arc[a].last <= revision'
      BY <1>2
    <3>8. QED
      BY <3>2, <3>3, <3>4, <3>5, <3>6, <3>7
  <2>4. QED
    BY <2>2, <2>3
<1>8. Events'
  <2>1. SUFFICES ASSUME NEW f \in Fight
                 PROVE  /\ Over(f)' => fight'[f].seq = fight'[f].source + 1 /\ fight'[f].seq <= revision'
                        /\ ~Over(f)' => fight'[f].during = NoArc /\ ~fight'[f].credited
    BY DEF Events
  <2>2. CASE f = g
    BY <1>2, <1>4, <2>2 DEF Over
  <2>3. CASE f # g
    BY <1>2, <1>5, <2>3 DEF Timeline, Events, Over
  <2>4. QED
    BY <2>2, <2>3
<1>9. Inside'
  <2>1. SUFFICES ASSUME NEW f \in Fight, NEW a \in Arc, fight'[f].during = a
                 PROVE  Begun(a)' /\ arc'[a].first <= fight'[f].source
                        /\ (Done(a)' => fight'[f].source <= arc'[a].last)
    BY DEF Inside
  <2>2. CASE f = g
    <3>1. a = b
      BY <1>4, <2>1, <2>2
    <3>2. arc[b].first <= revision + 1
      BY DEF Timeline, Cursors, Begun, Active
    <3>3. QED
      BY <1>1, <1>2, <1>4, <2>2, <3>1, <3>2 DEF Begun, Done
  <2>3. CASE f # g /\ a = b
    <3>1. Over(f)
      BY <1>5, <2>1, <2>3, ArcZero DEF Timeline, Events
    <3>2. fight[f].source <= revision + 1
      BY <1>2, <3>1 DEF Timeline, Events
    <3>3. QED
      BY <1>1, <1>5, <2>1, <2>3, <3>2 DEF Timeline, Inside, Begun, Done
  <2>4. CASE f # g /\ a # b
    <3>1. fight'[f] = fight[f] /\ arc'[a] = arc[a]
      BY <1>1, <1>5, <2>4
    <3>2. QED
      BY <2>1, <3>1 DEF Timeline, Inside, Begun, Done
  <2>5. QED
    BY <2>2, <2>3, <2>4
<1>10. Outside'
  <2>1. SUFFICES ASSUME NEW f \in Fight, NEW a \in Arc, Over(f)', fight'[f].during # a, Begun(a)'
                 PROVE  fight'[f].seq < arc'[a].first \/ (Done(a)' /\ fight'[f].source > arc'[a].last)
    BY DEF Outside
  <2>2. CASE f = g
    <3>1. a # b
      BY <1>4, <2>1, <2>2
    <3>2. Done(a) /\ arc[a].last <= revision
      BY <1>1, <1>2, <2>1, <3>1 DEF Timeline, OneActive, Cursors, Begun, Active, Done
    <3>3. arc'[a] = arc[a] /\ arc[a].last \in Nat
      BY <1>1, <1>2, <3>1
    <3>4. Done(a)'
      BY <3>2, <3>3 DEF Done
    <3>5. fight'[f].source > arc'[a].last
      <4>1. fight'[f].source = revision + 1 /\ arc'[a].last = arc[a].last
        BY <1>4, <2>2, <3>3
      <4>2. revision + 1 > arc[a].last
        BY <1>2, <3>2, <3>3
      <4>3. QED
        BY <4>1, <4>2
    <3>6. QED
      BY <3>4, <3>5
  <2>3. CASE f # g /\ a = b
    BY <1>1, <1>5, <2>1, <2>3 DEF Timeline, Outside, Over, Begun, Done, Active
  <2>4. CASE f # g /\ a # b
    <3>1. fight'[f] = fight[f] /\ arc'[a] = arc[a]
      BY <1>1, <1>5, <2>4
    <3>2. QED
      BY <2>1, <3>1 DEF Timeline, Outside, Over, Begun, Done
  <2>5. QED
    BY <2>2, <2>3, <2>4
<1>11. QED
  BY <1>6, <1>7, <1>8, <1>9, <1>10 DEF Timeline

LEMMA TimelineKept ==
  ASSUME Inv, [Next]_vars, DefaultStarts'
  PROVE  Timeline'
<1>1. TypeOK /\ Timeline
  BY DEF Inv
<1>2. \A f \in Fight : ~Over(f) => ~fight[f].credited
  BY <1>1 DEF Timeline, Events
<1>3. ASSUME NEW a \in Arc, CompleteAdventure(a)
      PROVE  Timeline'
  <2>1. Active(a) /\ arc' = [arc EXCEPT ![a].status = "completed", ![a].last = revision + 1]
    BY <1>3 DEF CompleteAdventure
  <2>2. \/ revision' = revision + 1 /\ fight' = fight
        \/ \E f \in Fight : ~Over(f) /\ fight' = Ended(f, revision + 1) /\ revision' = revision + 2
    BY <1>3 DEF CompleteAdventure, Over
  <2>3. QED
    BY <1>1, <2>1, <2>2, TimelineCloses, TimelineClosesInFight
<1>4. CASE Quiet
  <2>1. Still /\ fight' = fight
    BY <1>4, QuietStill DEF Quiet, table
  <2>2. QED
    BY <1>1, <1>2, <2>1, TimelineStill
<1>5. ASSUME NEW x \in Sweeper, CommitFollowups(x)
      PROVE  Timeline'
  <2>1. Still
    BY <1>1, <1>5, CommitStill
  <2>2. \A f \in Fight : ~Over(f) => ~fight'[f].credited
    BY <1>5, CommitCredits
  <2>3. QED
    BY <1>1, <2>1, <2>2, TimelineStill
<1>6. ASSUME NEW x \in Sweeper, FollowupsFail(x)
      PROVE  Timeline'
  <2>1. Still /\ fight' = fight
    BY <1>1, <1>6, FailStill DEF FollowupsFail, table
  <2>2. QED
    BY <1>1, <1>2, <2>1, TimelineStill
<1>7. QED
  BY <1>1, <1>3, <1>4, <1>5, <1>6, Kinds, TimelineStarts, TimelineEnds

-----------------------------------------------------------------------------
(* What the handler counts.                                                *)

\* The handler's query finds the fights that ended during the arc, and no others.
LEMMA BelongsExactly ==
  ASSUME TypeOK, Timeline, NEW a \in Arc, Done(a), NEW f \in Fight
  PROVE  Belongs(f, a) <=> fight[f].during = a
<1>1. /\ fight[f].seq \in Nat /\ fight[f].source \in Nat
      /\ arc[a].first \in Nat /\ arc[a].last \in Nat
  BY DEF TypeOK, Encounter, Adventure
<1>2. Begun(a)
  BY DEF Begun, Done
<1>3. ASSUME fight[f].during = a
      PROVE  Belongs(f, a)
  <2>1. Over(f)
    BY <1>3, ArcZero DEF Timeline, Events
  <2>2. fight[f].seq = fight[f].source + 1
    BY <2>1 DEF Timeline, Events
  <2>3. arc[a].first <= fight[f].source /\ fight[f].source <= arc[a].last
    BY <1>3 DEF Timeline, Inside
  <2>4. fight[f].seq >= arc[a].first /\ (fight[f].seq <= arc[a].last \/ fight[f].source = arc[a].last)
    BY <1>1, <2>2, <2>3
  <2>5. QED
    BY <2>1, <2>4 DEF Belongs, Over
<1>4. ASSUME Belongs(f, a), fight[f].during # a
      PROVE  FALSE
  <2>1. Over(f)
    BY <1>4 DEF Belongs, Over
  <2>2. fight[f].seq = fight[f].source + 1
    BY <2>1 DEF Timeline, Events
  <2>3. fight[f].seq < arc[a].first \/ fight[f].source > arc[a].last
    BY <1>2, <1>4, <2>1 DEF Timeline, Outside
  <2>4. fight[f].seq >= arc[a].first /\ (fight[f].seq <= arc[a].last \/ fight[f].source = arc[a].last)
    BY <1>4 DEF Belongs
  <2>5. QED
    BY <1>1, <2>2, <2>3, <2>4
<1>5. QED
  BY <1>3, <1>4

-----------------------------------------------------------------------------
(* What a step does to a sweeper: it keeps what it has read, or forgets it, *)
(* or it is one of the two steps that read.                                *)

Keeps(y) ==
  /\ sweeper'[y].arc = sweeper[y].arc /\ sweeper'[y].fights = sweeper[y].fights
  /\ sweeper'[y].rows = sweeper[y].rows /\ sweeper'[y].sheets = sweeper[y].sheets
  /\ sweeper'[y].phase \in {"counted", "planned"} => Planning(y)
Forgets(y) ==
  /\ sweeper'[y].fights = {} /\ sweeper'[y].rows = {} /\ sweeper'[y].sheets = NoXp
  /\ sweeper'[y].phase \notin {"counted", "planned"}
\* It works on the same arc, or on one it has found in the outbox.
Lands(y) ==
  \/ sweeper'[y].phase = "idle"
  \/ ~At(y, "idle") /\ sweeper'[y].arc = sweeper[y].arc
  \/ sweeper'[y].arc \in Arc /\ job[sweeper'[y].arc].outbox # "none"
Moves(y) == (Keeps(y) \/ Forgets(y)) /\ Lands(y)

LEMMA StillMoves ==
  ASSUME TypeOK, NEW y \in Sweeper, sweeper'[y] = sweeper[y]
  PROVE  Moves(y)
BY DEF Moves, Keeps, Lands, Planning, At

LEMMA GotoMoves ==
  ASSUME TypeOK, NEW x \in Sweeper, NEW phase, Goto(x, phase), ~At(x, "idle"),
         phase \notin {"counted", "planned"}, NEW y \in Sweeper
  PROVE  Moves(y)
<1>1. CASE y # x
  <2>1. sweeper'[y] = sweeper[y]
    BY <1>1 DEF Goto, TypeOK
  <2>2. QED
    BY <2>1, StillMoves
<1>2. CASE y = x
  <2>1. sweeper' [x] = [sweeper[x] EXCEPT !.phase = phase]
    BY DEF Goto, TypeOK
  <2>2. sweeper[x] \in Activity
    BY DEF TypeOK
  <2>3. QED
    BY <1>2, <2>1, <2>2 DEF Moves, Keeps, Lands, Activity
<1>3. QED
  BY <1>1, <1>2

LEMMA ForgetMoves ==
  ASSUME TypeOK, NEW x \in Sweeper, NEW act,
         sweeper' = [sweeper EXCEPT ![x] = act],
         act.fights = {}, act.rows = {}, act.sheets = NoXp, act.phase \notin {"counted", "planned"},
         \/ act.phase = "idle"
         \/ ~At(x, "idle") /\ act.arc = sweeper[x].arc
         \/ act.arc \in Arc /\ job[act.arc].outbox # "none",
         NEW y \in Sweeper
  PROVE  Moves(y)
<1>1. CASE y # x
  <2>1. sweeper'[y] = sweeper[y]
    BY <1>1 DEF TypeOK
  <2>2. QED
    BY <2>1, StillMoves
<1>2. CASE y = x
  <2>1. sweeper'[x] = act
    BY DEF TypeOK
  <2>2. QED
    BY <1>2, <2>1 DEF Moves, Forgets, Lands
<1>3. QED
  BY <1>1, <1>2

LEMMA LeaveMoves ==
  ASSUME TypeOK, NEW x \in Sweeper, NEW phase, Leaves(x, phase), ~At(x, "idle"),
         phase \notin {"counted", "planned"}, NEW y \in Sweeper
  PROVE  Moves(y)
<1> DEFINE act == [Idle EXCEPT !.phase = phase, !.arc = sweeper[x].arc,
                              !.held = phase \in Working /\ sweeper[x].held]
<1>1. /\ act.fights = {} /\ act.rows = {} /\ act.sheets = NoXp /\ act.phase = phase
      /\ act.arc = sweeper[x].arc
  BY DEF Idle
<1>2. sweeper' = [sweeper EXCEPT ![x] = act]
  BY DEF Leaves
<1> HIDE DEF act
<1>3. QED
  BY <1>1, <1>2, ForgetMoves

LEMMA RestMoves ==
  ASSUME TypeOK, NEW x \in Sweeper, Rests(x), NEW y \in Sweeper
  PROVE  Moves(y)
<1>1. /\ Idle.fights = {} /\ Idle.rows = {} /\ Idle.sheets = NoXp /\ Idle.phase = "idle"
  BY DEF Idle
<1>2. sweeper' = [sweeper EXCEPT ![x] = Idle]
  BY DEF Rests
<1>3. QED
  BY <1>1, <1>2, ForgetMoves

LEMMA SelectMoves ==
  ASSUME TypeOK, NEW x \in Sweeper, NEW a \in Arc, SelectRow(x, a), NEW y \in Sweeper
  PROVE  Moves(y)
<1> DEFINE act == [Idle EXCEPT !.phase = "listed", !.arc = a]
<1>1. /\ act.fights = {} /\ act.rows = {} /\ act.sheets = NoXp /\ act.phase = "listed"
      /\ act.arc = a
  BY DEF Idle
<1>2. sweeper' = [sweeper EXCEPT ![x] = act] /\ job[a].outbox # "none"
  BY DEF SelectRow
<1> HIDE DEF act
<1>3. QED
  BY <1>1, <1>2, ForgetMoves

\* The two steps that read: as for the others, but for the reading.
LEMMA ReadMoves ==
  ASSUME TypeOK, NEW x \in Sweeper, CountFights(x) \/ ReadSheets(x), NEW y \in Sweeper
  PROVE  Lands(y) /\ (y = x \/ Keeps(y) \/ Forgets(y))
<1>1. CASE y # x
  <2>1. sweeper'[y] = sweeper[y]
    BY <1>1 DEF CountFights, ReadSheets, Goto, TypeOK
  <2>2. QED
    BY <2>1, StillMoves DEF Moves
<1>2. CASE y = x
  <2>1. sweeper'[x].arc = sweeper[x].arc
    <3>1. sweeper \in [Sweeper -> Activity] /\ sweeper[x] \in Activity
      BY DEF TypeOK
    <3>2. CASE CountFights(x)
      BY <3>1, <3>2 DEF CountFights, Goto, Activity
    <3>3. CASE ReadSheets(x)
      BY <3>1, <3>3 DEF ReadSheets, Activity
    <3>4. QED
      BY <3>2, <3>3
  <2>2. ~At(x, "idle")
    BY DEF CountFights, ReadSheets, At
  <2>3. QED
    BY <1>2, <2>1, <2>2 DEF Lands
<1>3. QED
  BY <1>1, <1>2

LEMMA Moving ==
  ASSUME TypeOK, [Next]_vars, NEW y \in Sweeper
  PROVE  Lands(y) /\ (Keeps(y) \/ Forgets(y) \/ CountFights(y) \/ ReadSheets(y))
<1>1. CASE sweeper' = sweeper
  BY <1>1, StillMoves DEF Moves
<1>2. ASSUME NEW x \in Sweeper, NEW a \in Arc, SelectRow(x, a)
      PROVE  Moves(y)
  BY <1>2, SelectMoves
<1>3. ASSUME NEW x \in Sweeper, Claim(x) \/ FindSettled(x) \/ FindBusy(x)
      PROVE  Moves(y)
  <2>1. ~At(x, "idle") /\ (Goto(x, "claimed") \/ Goto(x, "retire") \/ Goto(x, "mark_failed"))
    BY <1>3 DEF Claim, FindSettled, FindBusy, At
  <2>2. QED
    BY <2>1, GotoMoves
<1>4. ASSUME NEW x \in Sweeper, CountFights(x) \/ ReadSheets(x)
      PROVE  Lands(y) /\ (Keeps(y) \/ Forgets(y) \/ CountFights(y) \/ ReadSheets(y))
  BY <1>4, ReadMoves
<1>5. ASSUME NEW x \in Sweeper, CommitFollowups(x) \/ Conflict(x) \/ FollowupsRaise(x) \/ Look(x)
                              \/ Verdict(x)
      PROVE  Moves(y)
  <2>1. ~At(x, "idle")
    BY <1>5 DEF CommitFollowups, Conflict, FollowupsRaise, Look, Verdict, At
  <2>2. \/ Leaves(x, "ok") \/ Leaves(x, "retriable") \/ Leaves(x, "retire")
        \/ Leaves(x, "mark_failed") \/ Goto(x, "exhausted") \/ Goto(x, "retry")
    BY <1>5 DEF CommitFollowups, Conflict, FollowupsRaise, FollowupsFail, Look, Verdict, AfterVerdict
  <2>3. QED
    BY <2>1, <2>2, LeaveMoves, GotoMoves
<1>6. ASSUME NEW x \in Sweeper, Retire(x) \/ MarkFailed(x) \/ Crash(x)
      PROVE  Moves(y)
  <2>1. Rests(x)
    BY <1>6 DEF Retire, MarkFailed, Crash
  <2>2. QED
    BY <2>1, RestMoves
<1>7. ASSUME NEW x \in Sweeper, LeaseLost(x)
      PROVE  Moves(y)
  <2>1. sweeper' = [sweeper EXCEPT ![x].held = TRUE] /\ ~At(x, "idle")
    BY <1>7 DEF LeaseLost, Working, At
  <2>2. /\ sweeper'[y].arc = sweeper[y].arc /\ sweeper'[y].fights = sweeper[y].fights
        /\ sweeper'[y].rows = sweeper[y].rows /\ sweeper'[y].sheets = sweeper[y].sheets
        /\ sweeper'[y].phase = sweeper[y].phase
    BY <2>1 DEF TypeOK, Activity
  <2>3. QED
    BY <2>2 DEF Moves, Keeps, Lands, Planning, At
<1>8. QED
  <2>1. \/ sweeper' = sweeper
        \/ \E x \in Sweeper : \/ \E a \in Arc : SelectRow(x, a)
                              \/ Sweeps(x) \/ Crash(x) \/ LeaseLost(x) \/ FollowupsRaise(x)
    BY DEF Next, vars, StartAdventure, CompleteAdventure, FightEnds
  <2>2. QED
    BY <1>1, <1>2, <1>3, <1>4, <1>5, <1>6, <1>7, <2>1 DEF Sweeps, Moves

\* What a sweeper has read stays as true as Read says.
LEMMA ReadingKept ==
  ASSUME Inv, [Next]_vars, Grows
  PROVE  Reading'
<1> SUFFICES ASSUME NEW y \in Sweeper PROVE Read(y)'
  BY DEF Reading
<1>1. TypeOK /\ Timeline /\ Staged /\ Read(y)
  BY DEF Inv, Reading
<1>2. \A a \in Arc, p \in Pc : award[a][p] # {} => award'[a][p] # {}
  BY DEF Grows
<1>3. sweeper[y] \in Activity
  BY <1>1 DEF TypeOK
<1>4. CASE Forgets(y)
  <2>1. ~Planning(y)'
    BY <1>4 DEF Forgets, Planning
  <2>2. \A p \in Pc, a \in Arc : AtMost(sweeper[y].sheets[p][a], a, p)'
    BY <1>4 DEF Forgets, NoXp, AtMost
  <2>3. QED
    BY <1>4, <2>1, <2>2 DEF Forgets, Read
<1>5. CASE Keeps(y)
  <2>1. ASSUME Planning(y)'
        PROVE  Counted(y)'
    <3>1. Planning(y)
      BY <1>5, <2>1 DEF Keeps, Planning
    <3>2. Counted(y) /\ sweeper[y].arc \in Arc /\ Done(sweeper[y].arc)
      BY <1>1, <3>1 DEF Read, Planning, Staged, At
    <3>3. \A f \in Fight : fight'[f].during = sweeper[y].arc <=> fight[f].during = sweeper[y].arc
      BY <3>2, PastStands
    <3>4. \A f \in Fight : fight[f].credited => fight'[f].credited
      BY <1>1 DEF Timeline, Events, Grows
    <3>5. QED
      BY <1>5, <3>2, <3>3, <3>4 DEF Counted, Keeps
  <2>2. ASSUME NEW p \in sweeper'[y].rows
        PROVE  sweeper'[y].arc \in Arc /\ award'[sweeper'[y].arc][p] # {}
    <3>1. p \in Pc /\ sweeper[y].arc \in Arc /\ award[sweeper[y].arc][p] # {}
      BY <1>1, <1>3, <1>5, <2>2 DEF Keeps, Read, Activity
    <3>2. QED
      BY <1>2, <1>5, <3>1 DEF Keeps
  <2>3. ASSUME NEW p \in Pc, NEW a \in Arc
        PROVE  AtMost(sweeper[y].sheets[p][a], a, p)'
    <3>1. sweeper[y].sheets[p][a] \in Nat
      BY <1>3 DEF Activity
    <3>2. AtMost(sweeper[y].sheets[p][a], a, p)
      BY <1>1 DEF Read
    <3>3. QED
      BY <1>2, <1>5, <3>1, <3>2 DEF Keeps, AtMost
  <2>4. QED
    BY <2>1, <2>2, <2>3 DEF Read
<1>6. CASE CountFights(y)
  <2>1. sweeper[y].arc \in Arc /\ Done(sweeper[y].arc)
    BY <1>1, <1>6 DEF Staged, CountFights, At
  <2>2. fight' = fight /\ award' = award
    BY <1>6 DEF CountFights, table
  <2>3. /\ sweeper'[y].arc = sweeper[y].arc /\ sweeper'[y].rows = sweeper[y].rows
        /\ sweeper'[y].sheets = sweeper[y].sheets
    BY <1>3, <1>6 DEF CountFights, Goto, TypeOK, Inv, Activity
  <2>4. CASE sweeper'[y].phase = "ok"
    BY <1>1, <2>2, <2>3, <2>4 DEF Read, Planning, AtMost
  <2>5. CASE sweeper'[y].fights = {f \in Fight : Belongs(f, sweeper[y].arc) /\ ~fight[f].credited}
    <3>1. \A f \in Fight : Belongs(f, sweeper[y].arc) <=> fight[f].during = sweeper[y].arc
      BY <1>1, <2>1, BelongsExactly
    <3>2. Counted(y)'
      BY <2>2, <2>3, <2>5, <3>1 DEF Counted
    <3>3. QED
      BY <1>1, <2>2, <2>3, <3>2 DEF Read, AtMost
  <2>6. QED
    BY <1>1, <1>3, <1>6, <2>4, <2>5 DEF CountFights, Goto, TypeOK, Activity
<1>7. CASE ReadSheets(y)
  <2>1. Counted(y) /\ sweeper[y].arc \in Arc
    BY <1>1, <1>7 DEF Read, Planning, Staged, ReadSheets, At
  <2>2. fight' = fight /\ award' = award
    BY <1>7 DEF ReadSheets, table
  <2>3. /\ sweeper'[y].arc = sweeper[y].arc /\ sweeper'[y].fights = sweeper[y].fights
        /\ sweeper'[y].rows = {p \in Pc : award[sweeper[y].arc][p] # {}}
        /\ sweeper'[y].sheets = sheet
    BY <1>1, <1>3, <1>7 DEF ReadSheets, TypeOK, Activity
  <2>4. Counted(y)'
    BY <2>1, <2>2, <2>3 DEF Counted
  <2>5. \A p \in Pc, a \in Arc : AtMost(sweeper[y].sheets[p][a], a, p)'
    BY <2>2, <2>3 DEF Inv, Exact, SheetsBacked, AtMost
  <2>6. QED
    BY <2>1, <2>2, <2>3, <2>4, <2>5 DEF Read
<1>8. QED
  BY <1>1, <1>4, <1>5, <1>6, <1>7, Moving

-----------------------------------------------------------------------------
(* Closing is about completed arcs.                                        *)

\* An outbox row comes with the completion, or is written by who works on it.
LEMMA Outboxes ==
  ASSUME TypeOK, [Next]_vars, NEW a \in Arc, job'[a].outbox # "none"
  PROVE  \/ job[a].outbox # "none"
         \/ CompleteAdventure(a)
         \/ \E x \in Sweeper : ~At(x, "idle") /\ sweeper[x].arc = a
<1>1. CASE job' = job
  BY <1>1
<1>2. ASSUME NEW b \in Arc, CompleteAdventure(b)
      PROVE  job[a].outbox # "none" \/ CompleteAdventure(a)
  <2>1. CASE a = b
    BY <1>2, <2>1
  <2>2. CASE a # b
    BY <1>2, <2>2 DEF CompleteAdventure, TypeOK
  <2>3. QED
    BY <2>1, <2>2
<1>3. ASSUME NEW x \in Sweeper, Claim(x) \/ Verdict(x) \/ Crash(x)
      PROVE  job[a].outbox # "none"
  <2>1. \A b \in Arc : job'[b].outbox = job[b].outbox
    <3>1. job \in [Arc -> Job]
      BY DEF TypeOK
    <3>2. CASE Claim(x)
      BY <3>1, <3>2 DEF Claim, Job
    <3>3. CASE Verdict(x)
      BY <3>1, <3>3 DEF Verdict, Written, JobOf, Job
    <3>4. CASE Crash(x)
      BY <3>1, <3>4 DEF Crash, Job
    <3>5. QED
      BY <1>3, <3>2, <3>3, <3>4
  <2>2. QED
    BY <2>1
<1>4. ASSUME NEW x \in Sweeper, Retire(x) \/ MarkFailed(x)
      PROVE  job[a].outbox # "none" \/ (~At(x, "idle") /\ sweeper[x].arc = a)
  BY <1>4 DEF Retire, MarkFailed, At, TypeOK
<1>5. \/ job' = job
      \/ \E b \in Arc : CompleteAdventure(b)
      \/ \E x \in Sweeper : Claim(x) \/ Verdict(x) \/ Crash(x) \/ Retire(x) \/ MarkFailed(x)
  BY DEF Next, vars, StartAdventure, FightEnds, SelectRow, Sweeps, FindSettled, FindBusy, CountFights,
         ReadSheets, CommitFollowups, Conflict, FollowupsRaise, FollowupsFail, Look, LeaseLost
<1>6. QED
  BY <1>1, <1>2, <1>3, <1>4, <1>5

LEMMA TableKeepsClosing ==
  ASSUME TypeOK, NEW b \in Arc, StartAdventure(b) \/ CompleteAdventure(b), NEW a \in Arc
  PROVE  arc'[a].closing = arc[a].closing /\ award' = award /\ sheet' = sheet
<1>1. CASE StartAdventure(b)
  <2>1. arc'[a].closing = arc[a].closing
    BY <1>1, Opens
  <2>2. QED
    BY <1>1, <2>1 DEF StartAdventure, table
<1>2. CASE CompleteAdventure(b)
  <2>1. arc' = [arc EXCEPT ![b].status = "completed", ![b].last = revision + 1]
    BY <1>2 DEF CompleteAdventure
  <2>2. arc'[a].closing = arc[a].closing
    BY <2>1 DEF TypeOK, Adventure
  <2>3. QED
    BY <1>2, <2>2 DEF CompleteAdventure
<1>3. QED
  BY <1>1, <1>2

\* Only the handler of an arc writes its closing status and its awards.
LEMMA Followups ==
  ASSUME TypeOK, [Next]_vars, NEW a \in Arc,
         arc'[a].closing # arc[a].closing \/ award' # award
  PROVE  \E x \in Sweeper : /\ ~At(x, "idle")
                            /\ CommitFollowups(x) \/ FollowupsFail(x)
                            /\ \A b \in Arc : b # sweeper[x].arc =>
                                 arc'[b].closing = arc[b].closing /\ award'[b] = award[b]
<1>1. ASSUME NEW b \in Arc, StartAdventure(b) \/ CompleteAdventure(b)
      PROVE  arc'[a].closing = arc[a].closing /\ award' = award
  BY <1>1, TableKeepsClosing
<1>2. ASSUME NEW f \in Fight, FightEnds(f)
      PROVE  arc'[a].closing = arc[a].closing /\ award' = award
  BY <1>2 DEF FightEnds
<1>3. ~Quiet
  BY DEF Quiet, table
<1>4. PICK x \in Sweeper : CommitFollowups(x) \/ Conflict(x) \/ FollowupsRaise(x)
  BY <1>1, <1>2, <1>3
     DEF Next, vars, Quiet, Sweeps, SelectRow, Claim, FindSettled, FindBusy, CountFights, ReadSheets,
         Look, Verdict, Retire, MarkFailed, Crash, LeaseLost, table
<1>5. ~At(x, "idle") /\ (CommitFollowups(x) \/ FollowupsFail(x))
  BY <1>4 DEF CommitFollowups, Conflict, FollowupsRaise, At
<1>6. \A b \in Arc : b # sweeper[x].arc => arc'[b].closing = arc[b].closing /\ award'[b] = award[b]
  BY <1>4 DEF CommitFollowups, Conflict, FollowupsRaise, FollowupsFail, table, TypeOK, Adventure
<1>7. QED
  BY <1>5, <1>6

LEMMA StagedKept ==
  ASSUME TypeOK, Staged, [Next]_vars, Grows
  PROVE  Staged'
<1>1. TypeOK /\ Staged
  OBVIOUS
<1>2. \A a \in Arc : Done(a) => Done(a)'
  BY DEF Grows, Done
<1>3. \A x \in Sweeper : ~At(x, "idle") => sweeper[x].arc \in Arc /\ Done(sweeper[x].arc)
  BY <1>1 DEF Staged
<1>4. ASSUME NEW a \in Arc, job'[a].outbox # "none"
      PROVE  Done(a)'
  <2>1. CASE job[a].outbox # "none"
    BY <1>1, <1>2, <2>1 DEF Staged
  <2>2. CASE CompleteAdventure(a)
    BY <1>1, <2>2 DEF CompleteAdventure, TypeOK, Adventure, Done
  <2>3. CASE \E x \in Sweeper : ~At(x, "idle") /\ sweeper[x].arc = a
    BY <1>2, <1>3, <2>3
  <2>4. QED
    BY <1>1, <1>4, <2>1, <2>2, <2>3, Outboxes
<1>5. ASSUME NEW a \in Arc, arc'[a].closing # "pending" \/ \E p \in Pc : award'[a][p] # {}
      PROVE  Done(a)'
  <2>1. CASE arc'[a].closing = arc[a].closing /\ award' = award
    BY <1>1, <1>2, <1>5, <2>1 DEF Staged
  <2>2. CASE arc'[a].closing # arc[a].closing \/ award' # award
    <3>1. PICK x \in Sweeper : /\ ~At(x, "idle")
                               /\ \A b \in Arc : b # sweeper[x].arc =>
                                    arc'[b].closing = arc[b].closing /\ award'[b] = award[b]
      BY <1>1, <2>2, Followups
    <3>2. CASE a = sweeper[x].arc
      BY <1>2, <1>3, <3>1, <3>2
    <3>3. CASE a # sweeper[x].arc
      BY <1>1, <1>2, <1>5, <3>1, <3>3 DEF Staged
    <3>4. QED
      BY <3>2, <3>3
  <2>3. QED
    BY <2>1, <2>2
<1>6. ASSUME NEW x \in Sweeper, ~At(x, "idle")'
      PROVE  (sweeper[x].arc \in Arc /\ Done(sweeper[x].arc))'
  <2>1. Lands(x)
    BY <1>1, Moving
  <2>2. CASE ~At(x, "idle") /\ sweeper'[x].arc = sweeper[x].arc
    <3>1. sweeper[x].arc \in Arc /\ arc'[sweeper[x].arc].status = "completed"
      BY <1>2, <1>3, <2>2 DEF Done
    <3>2. QED
      BY <2>2, <3>1 DEF Done
  <2>3. CASE sweeper'[x].arc \in Arc /\ job[sweeper'[x].arc].outbox # "none"
    <3>1. arc'[sweeper'[x].arc].status = "completed"
      BY <1>1, <1>2, <2>3 DEF Staged, Done
    <3>2. QED
      BY <2>3, <3>1 DEF Done
  <2>4. QED
    BY <1>6, <2>1, <2>2, <2>3 DEF Lands, At
<1>7. QED
  BY <1>4, <1>5, <1>6 DEF Staged

-----------------------------------------------------------------------------
(* The accounts.                                                           *)

\* A step that pays nothing leaves the accounts in order.
LEMMA NothingPaid ==
  ASSUME Inv, Grows, award' = award, sheet' = sheet,
         \A f \in Fight : fight'[f].credited => fight[f].credited,
         \A a \in Arc : arc'[a].closing = "succeeded" => arc[a].closing = "succeeded"
  PROVE  Credits' /\ Exact'
<1>1. ASSUME NEW a \in Arc, NEW p \in Pc, Done(a)
      PROVE  Fought(a, p)' = Fought(a, p)
  BY <1>1, FoughtStands
<1>2. Credits'
  <2>1. \A f \in Fight : fight'[f].credited => fight[f].credited /\ fight'[f].during = fight[f].during
    BY DEF Inv, Timeline, Events, Grows
  <2>2. QED
    BY <2>1 DEF Inv, Credits
<1>3. RightShares'
  <2>1. SUFFICES ASSUME NEW a \in Arc, NEW p \in Pc, award'[a][p] # {}
                 PROVE  award'[a][p] = Fought(a, p)'
    BY DEF RightShares
  <2>2. Done(a) /\ award[a][p] = Fought(a, p)
    BY <2>1 DEF Inv, Staged, Exact, RightShares
  <2>3. QED
    BY <1>1, <2>2
<1>4. ClosedIsPaid'
  <2>1. SUFFICES ASSUME NEW a \in Arc, arc'[a].closing = "succeeded", NEW p \in Pc, Fought(a, p)' # {}
                 PROVE  award'[a][p] # {}
    BY DEF ClosedIsPaid, Paid
  <2>2. arc[a].closing = "succeeded" /\ Done(a)
    BY <2>1 DEF Inv, Staged
  <2>3. QED
    BY <1>1, <2>1, <2>2 DEF Inv, Exact, ClosedIsPaid, Paid
<1>5. SheetsBacked'
  BY DEF Inv, Exact, SheetsBacked
<1>6. QED
  BY <1>2, <1>3, <1>4, <1>5 DEF Exact

\* The commit writes the rows of those who have none, and no others.
LEMMA CommitAwards ==
  ASSUME TypeOK, NEW x \in Sweeper, CommitFollowups(x), sweeper[x].arc \in Arc
  PROVE  /\ \A p \in Awarded(x) : /\ p \in Pc /\ award[sweeper[x].arc][p] = {}
                                  /\ Share(x, p) # {} /\ award'[sweeper[x].arc][p] = Share(x, p)
         /\ \A b \in Arc, p \in Pc : b # sweeper[x].arc \/ p \notin Awarded(x) =>
              award'[b][p] = award[b][p]
<1>1. \A p \in Awarded(x) : p \in Pc /\ award[sweeper[x].arc][p] = {} /\ Share(x, p) # {}
  BY DEF CommitFollowups, Awarded
<1>2. QED
  BY <1>1 DEF CommitFollowups, TypeOK

\* A sheet is written from what was read, which the unique key proves current
\* as far as the award itself goes.
LEMMA CommitSheets ==
  ASSUME TypeOK, SheetsBacked, NEW x \in Sweeper, CommitFollowups(x), sweeper[x].arc \in Arc,
         \A p \in Pc, b \in Arc : AtMost(sweeper[x].sheets[p][b], b, p)
  PROVE  SheetsBacked'
<1> DEFINE a == sweeper[x].arc
<1>1. SUFFICES ASSUME NEW b \in Arc, NEW p \in Pc
               PROVE  sheet'[p][b] <= IF award'[b][p] # {} THEN 1 ELSE 0
  BY DEF SheetsBacked
<1>2. CASE p \in Awarded(x)
  <2>1. sheet'[p] = [sweeper[x].sheets[p] EXCEPT ![a] = @ + 1]
    BY <1>2 DEF CommitFollowups
  <2>2. sweeper[x].sheets[p] \in [Arc -> Nat]
    BY DEF TypeOK, Activity
  <2>3. sweeper[x].sheets[p][b] <= IF award[b][p] # {} THEN 1 ELSE 0
    BY DEF AtMost
  <2>4. CASE b = a
    <3>1. sweeper[x].sheets[p][a] = 0
      BY <1>2, <2>2, <2>3, <2>4, CommitAwards
    <3>2. sheet'[p][a] = 1
      BY <2>1, <2>2, <3>1
    <3>3. award'[a][p] # {}
      BY <1>2, CommitAwards
    <3>4. QED
      BY <2>4, <3>2, <3>3
  <2>5. CASE b # a
    <3>1. sheet'[p][b] = sweeper[x].sheets[p][b]
      BY <2>1, <2>2, <2>5
    <3>2. award'[b][p] = award[b][p]
      BY <2>5, CommitAwards
    <3>3. QED
      BY <2>3, <3>1, <3>2
  <2>6. QED
    BY <2>4, <2>5
<1>3. CASE p \notin Awarded(x)
  <2>1. sheet'[p] = sheet[p]
    BY <1>3 DEF CommitFollowups
  <2>2. award'[b][p] = award[b][p]
    BY <1>3, CommitAwards
  <2>3. QED
    BY <2>1, <2>2 DEF SheetsBacked
<1>4. QED
  BY <1>2, <1>3

\* The commit pays every fight that is not paid yet, and whoever fought it.
LEMMA CommitPays ==
  ASSUME Inv, Grows, NEW x \in Sweeper, CommitFollowups(x)
  PROVE  Credits' /\ Exact'
<1> DEFINE a == sweeper[x].arc
<1>1. TypeOK /\ Timeline /\ Staged /\ Credits /\ Read(x) /\ Exact
  BY DEF Inv, Reading
<1>2. a \in Arc /\ Done(a)
  BY <1>1 DEF Staged, CommitFollowups, At
<1>3. Counted(x)
  BY <1>1 DEF Read, Planning, CommitFollowups, At
<1>4. Still
  BY <1>1, CommitStill
<1>5. \A b \in Arc, p \in Pc : Fought(b, p)' = Fought(b, p)
  BY <1>4 DEF Still, Fought
<1>6. /\ \A b \in Arc, p \in Pc : award[b][p] # {} => award'[b][p] = award[b][p]
      /\ \A p \in Awarded(x) : p \in Pc /\ award[a][p] = {} /\ Share(x, p) # {}
  BY <1>1, <1>2, CommitAwards DEF Grows
<1>7. /\ \A p \in Awarded(x) : award'[a][p] = Share(x, p)
      /\ \A b \in Arc, p \in Pc : b # a \/ p \notin Awarded(x) => award'[b][p] = award[b][p]
  BY <1>1, <1>2, CommitAwards
<1>8. /\ \A f \in sweeper[x].fights : fight'[f].credited
      /\ \A f \in Fight : fight'[f].credited => fight[f].credited \/ f \in sweeper[x].fights
      /\ sweeper[x].fights \subseteq Fight
  BY <1>1 DEF CommitFollowups, TypeOK, Encounter, Activity
<1>9. ASSUME NEW f \in sweeper[x].fights, NEW p \in Party[f], p \in Pc
      PROVE  award'[a][p] # {}
  <2>1. f \in Share(x, p)
    BY <1>9 DEF Share
  <2>2. CASE p \in sweeper[x].rows
    BY <1>1, <1>6, <1>9, <2>2 DEF Read
  <2>3. CASE p \notin sweeper[x].rows
    <3>1. p \in Awarded(x)
      BY <1>9, <2>1, <2>3 DEF Awarded
    <3>2. QED
      BY <1>6, <1>7, <3>1
  <2>4. QED
    BY <2>2, <2>3
<1>10. Credits'
  <2>1. SUFFICES ASSUME NEW f \in Fight, NEW b \in Arc, NEW p \in Pc, fight'[f].during = b,
                        fight'[f].credited, p \in Party[f]
                 PROVE  award'[b][p] # {}
    BY DEF Credits
  <2>2. fight[f].during = b
    BY <1>4, <2>1 DEF Still
  <2>3. CASE fight[f].credited
    <3>1. award[b][p] # {}
      BY <1>1, <2>1, <2>2, <2>3 DEF Credits
    <3>2. QED
      BY <1>6, <3>1
  <2>4. CASE f \in sweeper[x].fights
    <3>1. b = a
      BY <1>3, <2>2, <2>4 DEF Counted
    <3>2. QED
      BY <1>9, <2>1, <2>4, <3>1
  <2>5. QED
    BY <1>8, <2>1, <2>3, <2>4
<1>11. ASSUME NEW p \in Awarded(x)
       PROVE  Share(x, p) = Fought(a, p)
  <2>1. p \in Pc /\ award[a][p] = {}
    BY <1>6
  <2>2. ASSUME NEW f \in Share(x, p)
        PROVE  f \in Fought(a, p)
    BY <1>3, <1>8, <2>2 DEF Share, Fought, Counted
  <2>3. ASSUME NEW f \in Fought(a, p)
        PROVE  f \in Share(x, p)
    <3>1. f \in Fight /\ fight[f].during = a /\ p \in Party[f]
      BY <2>3 DEF Fought
    <3>2. ~fight[f].credited
      BY <1>1, <1>2, <2>1, <3>1 DEF Credits
    <3>3. QED
      BY <1>3, <3>1, <3>2 DEF Counted, Share
  <2>4. QED
    BY <2>2, <2>3
<1>12. RightShares'
  <2>1. SUFFICES ASSUME NEW b \in Arc, NEW p \in Pc, award'[b][p] # {}
                 PROVE  award'[b][p] = Fought(b, p)'
    BY DEF RightShares
  <2>2. CASE b = a /\ p \in Awarded(x)
    BY <1>5, <1>7, <1>11, <2>2
  <2>3. CASE b # a \/ p \notin Awarded(x)
    <3>1. award'[b][p] = award[b][p]
      BY <1>7, <2>3
    <3>2. award[b][p] = Fought(b, p)
      BY <1>1, <2>1, <3>1 DEF Exact, RightShares
    <3>3. QED
      BY <1>5, <3>1, <3>2
  <2>4. QED
    BY <2>2, <2>3
<1>13. ClosedIsPaid'
  <2>1. SUFFICES ASSUME NEW b \in Arc, arc'[b].closing = "succeeded", NEW p \in Pc, Fought(b, p)' # {}
                 PROVE  award'[b][p] # {}
    BY DEF ClosedIsPaid, Paid
  <2>2. PICK f \in Fight : fight[f].during = b /\ p \in Party[f]
    BY <1>5, <2>1 DEF Fought
  <2>3. CASE b = a
    <3>1. f \in sweeper[x].fights \/ fight[f].credited
      BY <1>3, <2>2, <2>3 DEF Counted
    <3>2. CASE f \in sweeper[x].fights
      BY <1>9, <2>2, <2>3, <3>2
    <3>3. CASE fight[f].credited
      <4>1. award[b][p] # {}
        BY <1>1, <2>2, <3>3 DEF Credits
      <4>2. QED
        BY <1>6, <4>1
    <3>4. QED
      BY <3>1, <3>2, <3>3
  <2>4. CASE b # a
    <3>1. arc'[b] = arc[b]
      BY <1>1, <1>2, <2>4 DEF CommitFollowups, TypeOK
    <3>2. award[b][p] # {}
      BY <1>1, <1>5, <2>1, <3>1 DEF Exact, ClosedIsPaid, Paid
    <3>3. QED
      BY <1>6, <3>2
  <2>5. QED
    BY <2>3, <2>4
<1>14. SheetsBacked'
  BY <1>1, <1>2, CommitSheets DEF Read, Exact
<1>15. QED
  BY <1>10, <1>12, <1>13, <1>14 DEF Exact

LEMMA AccountsKept ==
  ASSUME Inv, [Next]_vars, Grows
  PROVE  Credits' /\ Exact'
<1>1. TypeOK /\ \A f \in Fight : ~Over(f) => ~fight[f].credited
  BY DEF Inv, Timeline, Events
<1>2. ASSUME NEW f \in Fight, FightEnds(f)
      PROVE  Credits' /\ Exact'
  <2>1. fight' = Ended(f, revision + 1) /\ arc' = arc /\ award' = award /\ sheet' = sheet
    BY <1>2 DEF FightEnds
  <2>2. \A g \in Fight : fight'[g].credited => fight[g].credited
    BY <1>1, <2>1 DEF Ended, TypeOK
  <2>3. QED
    BY <2>1, <2>2, NothingPaid
<1>3. ASSUME NEW a \in Arc, StartAdventure(a) \/ CompleteAdventure(a)
      PROVE  Credits' /\ Exact'
  <2>1. award' = award /\ sheet' = sheet
    BY <1>1, <1>3, TableKeepsClosing
  <2>2. \A b \in Arc : arc'[b].closing = arc[b].closing
    BY <1>1, <1>3, TableKeepsClosing
  <2>3. fight' = fight \/ \E f \in Fight : fight' = Ended(f, revision + 1)
    BY <1>3 DEF StartAdventure, CompleteAdventure, table
  <2>4. \A g \in Fight : fight'[g].credited => fight[g].credited
    BY <1>1, <2>3 DEF Ended, TypeOK
  <2>5. QED
    BY <2>1, <2>2, <2>4, NothingPaid
<1>4. CASE Quiet
  BY <1>4, NothingPaid DEF Quiet, table
<1>5. ASSUME NEW x \in Sweeper, FollowupsFail(x)
      PROVE  Credits' /\ Exact'
  <2>1. award' = award /\ sheet' = sheet /\ fight' = fight
    BY <1>5 DEF FollowupsFail, table
  <2>2. \A b \in Arc : arc'[b].closing = "succeeded" => arc[b].closing = "succeeded"
    BY <1>1, <1>5 DEF FollowupsFail, TypeOK, Adventure
  <2>3. QED
    BY <2>1, <2>2, NothingPaid
<1>6. QED
  BY <1>2, <1>3, <1>4, <1>5, Kinds, CommitPays

-----------------------------------------------------------------------------
LEMMA InitInv == Init => Inv
<1> SUFFICES ASSUME Init PROVE Inv
  OBVIOUS
<1>1. TypeOK
  BY InitTyped
<1>2. /\ \A a \in Arc : arc[a].status = (IF a = 1 THEN "active" ELSE "none")
                        /\ arc[a].first = (IF a = 1 THEN 1 ELSE 0) /\ arc[a].closing = "pending"
      /\ \A f \in Fight : fight[f].seq = 0 /\ fight[f].during = NoArc /\ ~fight[f].credited
      /\ \A a \in Arc, p \in Pc : award[a][p] = {} /\ sheet[p][a] = 0
      /\ \A a \in Arc : job[a].outbox = "none"
      /\ \A x \in Sweeper : sweeper[x] = Idle
      /\ revision = 0
  BY DEF Init, NoXp
<1>3. OneActive
  BY <1>2 DEF OneActive, Active
<1>4. Cursors
  BY <1>2 DEF Cursors, Begun, Done
<1>5. Events /\ Inside /\ Outside
  BY <1>2, ArcZero DEF Events, Inside, Outside, Over
<1>6. Staged
  BY <1>2 DEF Staged, At, Idle
<1>7. Credits
  BY <1>2 DEF Credits
<1>8. Reading
  BY <1>2 DEF Reading, Read, Planning, AtMost, Idle, NoXp
<1>9. RightShares /\ ClosedIsPaid
  BY <1>2 DEF RightShares, ClosedIsPaid
<1>10. SheetsBacked
  BY <1>2 DEF SheetsBacked
<1>11. QED
  BY <1>1, <1>3, <1>4, <1>5, <1>6, <1>7, <1>8, <1>9, <1>10 DEF Inv, Timeline, Exact

LEMMA NextInv ==
  ASSUME Inv, [Next]_vars, DefaultStarts'
  PROVE  Inv'
<1>1. TypeOK'
  BY NextTyped DEF Inv
<1>2. Grows
  BY Growing DEF Inv, Timeline
<1>3. Timeline'
  BY TimelineKept
<1>4. Staged' /\ Reading'
  BY <1>2, StagedKept, ReadingKept DEF Inv
<1>5. Credits' /\ Exact'
  BY <1>2, AccountsKept
<1>6. QED
  BY <1>1, <1>3, <1>4, <1>5 DEF Inv

-----------------------------------------------------------------------------
(* Whatever the start.  An owner who chooses where an arc starts may make  *)
(* ranges overlap, and a fight is then paid by an arc it did not end in.   *)
(* This is what the unique key and the hooks guarantee nevertheless.       *)

PaidFor(f, p) == \E a \in Arc : f \in award[a][p]

\* Whoever has the award of an arc lacks nothing of the arc's range.
AwardsCover ==
  \A a \in Arc, p \in Pc, f \in Fight :
    award[a][p] # {} /\ Belongs(f, a) /\ p \in Party[f] => PaidFor(f, p)

Past == \A a \in Arc : Done(a) => arc[a].last <= revision

\* What a sweeper has read, if the ranges may overlap.
Informed(x) ==
  /\ Planning(x) => \A f \in Fight :
       /\ f \in sweeper[x].fights => Belongs(f, sweeper[x].arc)
       /\ Belongs(f, sweeper[x].arc) => f \in sweeper[x].fights \/ fight[f].credited
  /\ \A p \in sweeper[x].rows : sweeper[x].arc \in Arc /\ award[sweeper[x].arc][p] # {}
  /\ \A p \in Pc, a \in Arc : AtMost(sweeper[x].sheets[p][a], a, p)

Loose == /\ TypeOK /\ Events /\ Past /\ Staged
         /\ Rightful /\ NobodyUnpaid /\ AwardsCover /\ SheetsBacked
         /\ \A x \in Sweeper : Informed(x)

\* The campaign only moves forward, and only a commit takes hooks.
LEMMA Onward ==
  ASSUME TypeOK, [Next]_vars
  PROVE  /\ revision' >= revision
         /\ \A f \in Fight : ~Over(f) =>
              \/ fight'[f].seq = 0 /\ fight'[f].during = fight[f].during
              \/ /\ fight'[f].seq = revision + 2 /\ fight'[f].source = revision + 1
                 /\ revision' >= revision + 2
         /\ \A a \in Arc : Done(a)' => Done(a) \/ arc'[a].last <= revision'
<1> DEFINE Goes ==
      /\ revision' >= revision
      /\ \A f \in Fight : ~Over(f) =>
           \/ fight'[f].seq = 0 /\ fight'[f].during = fight[f].during
           \/ /\ fight'[f].seq = revision + 2 /\ fight'[f].source = revision + 1
              /\ revision' >= revision + 2
      /\ \A a \in Arc : Done(a)' => Done(a) \/ arc'[a].last <= revision'
<1>0. revision \in Nat
  BY DEF TypeOK
<1>1. ASSUME Still PROVE Goes
  BY <1>0, <1>1 DEF Still, Over, Done
<1>2. ASSUME NEW a \in Arc, StartAdventure(a) PROVE Goes
  <2>1. \A b \in Arc : arc'[b].status = "completed" => arc[b].status = "completed"
    BY <1>2, Opens
  <2>2. revision' = revision /\ fight' = fight
    BY <1>2 DEF StartAdventure, table
  <2>3. \A b \in Arc : Done(b)' => Done(b)
    BY <2>1 DEF Done
  <2>4. QED
    BY <1>0, <2>2, <2>3 DEF Over
<1>3. ASSUME NEW f \in Fight, fight' = Ended(f, revision + 1), revision' = revision + 2,
             NEW g \in Fight, ~Over(g)
      PROVE  \/ fight'[g].seq = 0 /\ fight'[g].during = fight[g].during
             \/ /\ fight'[g].seq = revision + 2 /\ fight'[g].source = revision + 1
                /\ revision' >= revision + 2
  <2>1. TypeOK /\ revision + 1 + 1 = revision + 2 /\ revision' >= revision + 2
    BY <1>0, <1>3
  <2>2. CASE g = f
    <3>1. fight'[f] = [seq |-> revision + 1 + 1, source |-> revision + 1, during |-> CurrentArc,
                       credited |-> FALSE]
      BY <1>3, <2>1, EndedIs
    <3>2. QED
      BY <2>1, <2>2, <3>1
  <2>3. CASE g # f
    <3>1. fight'[g] = fight[g]
      BY <1>3, <2>1, <2>3, EndedIs
    <3>2. QED
      BY <1>3, <3>1 DEF Over
  <2>4. QED
    BY <2>2, <2>3
<1>4. ASSUME NEW f \in Fight, FightEnds(f) PROVE Goes
  BY <1>0, <1>3, <1>4 DEF FightEnds, Done
<1>5. ASSUME NEW a \in Arc, CompleteAdventure(a) PROVE Goes
  <2>1. revision' \in {revision + 1, revision + 2}
    BY <1>5 DEF CompleteAdventure
  <2>2. \A b \in Arc : Done(b)' => Done(b) \/ arc'[b].last = revision + 1
    BY <1>5 DEF CompleteAdventure, TypeOK, Adventure, Done
  <2>3. \A g \in Fight : ~Over(g) =>
           \/ fight'[g].seq = 0 /\ fight'[g].during = fight[g].during
           \/ /\ fight'[g].seq = revision + 2 /\ fight'[g].source = revision + 1
              /\ revision' >= revision + 2
    BY <1>3, <1>5 DEF CompleteAdventure, Over
  <2>4. QED
    BY <1>0, <2>1, <2>2, <2>3
<1>6. QED
  BY <1>1, <1>2, <1>4, <1>5, Kinds, QuietStill, CommitStill, FailStill

LEMMA HooksTaken ==
  ASSUME TypeOK, [Next]_vars, NEW f \in Fight, fight'[f].credited
  PROVE  fight[f].credited \/ \E x \in Sweeper : CommitFollowups(x) /\ f \in sweeper[x].fights
<1>1. CASE fight' = fight
  BY <1>1
<1>2. ASSUME NEW g \in Fight, NEW turn, fight' = Ended(g, turn)
      PROVE  fight[f].credited
  BY <1>2 DEF Ended, TypeOK
<1>3. ASSUME NEW x \in Sweeper, CommitFollowups(x)
      PROVE  fight[f].credited \/ f \in sweeper[x].fights
  BY <1>3 DEF CommitFollowups, TypeOK
<1>4. QED
  BY <1>1, <1>2, <1>3, Kinds
  DEF StartAdventure, CompleteAdventure, FightEnds, Quiet, FollowupsFail, table

\* The range of an arc that is over holds the same fights for ever.
LEMMA RangeStands ==
  ASSUME TypeOK, Past, Grows, [Next]_vars, NEW a \in Arc, Done(a), NEW f \in Fight
  PROVE  Belongs(f, a)' <=> Belongs(f, a)
<1>1. arc'[a].first = arc[a].first /\ arc'[a].last = arc[a].last
  BY DEF Grows
<1>2. CASE Over(f)
  <2>1. fight'[f].seq = fight[f].seq /\ fight'[f].source = fight[f].source
    BY <1>2 DEF Grows
  <2>2. QED
    BY <1>1, <2>1 DEF Belongs
<1>3. CASE ~Over(f)
  <2>1. ~Belongs(f, a)
    BY <1>3 DEF Belongs, Over
  <2>2. arc[a].last \in Nat /\ revision \in Nat /\ arc[a].last <= revision
    BY DEF TypeOK, Adventure, Past
  <2>3. \/ fight'[f].seq = 0
        \/ fight'[f].seq = revision + 2 /\ fight'[f].source = revision + 1
    BY <1>3, Onward
  <2>4. ~Belongs(f, a)'
    BY <1>1, <2>2, <2>3 DEF Belongs
  <2>5. QED
    BY <2>1, <2>4
<1>4. QED
  BY <1>2, <1>3

\* A handler that commits works on an arc that is over, with fights of its range.
LEMMA Commits ==
  ASSUME Loose, NEW x \in Sweeper, CommitFollowups(x)
  PROVE  /\ sweeper[x].arc \in Arc /\ Done(sweeper[x].arc)
         /\ \A f \in Fight : f \in sweeper[x].fights => Belongs(f, sweeper[x].arc) /\ Over(f)
         /\ \A f \in Fight : Belongs(f, sweeper[x].arc) => f \in sweeper[x].fights \/ fight[f].credited
<1>1. At(x, "planned")
  BY DEF CommitFollowups
<1>2. sweeper[x].arc \in Arc /\ Done(sweeper[x].arc)
  BY <1>1 DEF Loose, Staged, At
<1>3. QED
  BY <1>1, <1>2 DEF Loose, Informed, Planning, At, Belongs, Over

LEMMA PastKept ==
  ASSUME Loose, Grows, [Next]_vars
  PROVE  Events' /\ Past'
<1>1. TypeOK /\ Events /\ Past
  BY DEF Loose
<1>2. ASSUME NEW f \in Fight, Over(f)'
      PROVE  fight'[f].seq = fight'[f].source + 1 /\ fight'[f].seq <= revision'
  <2>0. revision \in Nat /\ revision' \in Nat /\ fight[f].seq \in Nat
    BY <1>1, NextTyped DEF TypeOK, Encounter
  <2>1. CASE Over(f)
    <3>1. fight'[f].seq = fight[f].seq /\ fight'[f].source = fight[f].source
      BY <2>1 DEF Grows
    <3>2. fight[f].seq = fight[f].source + 1 /\ fight[f].seq <= revision
      BY <1>1, <2>1 DEF Events
    <3>3. QED
      BY <1>1, <2>0, <3>1, <3>2, Onward
  <2>2. CASE ~Over(f)
    <3>1. /\ fight'[f].seq = revision + 2 /\ fight'[f].source = revision + 1
          /\ revision' >= revision + 2
      BY <1>1, <1>2, <2>2, Onward DEF Over
    <3>2. QED
      BY <2>0, <3>1
  <2>3. QED
    BY <2>1, <2>2
<1>3. ASSUME NEW f \in Fight, ~Over(f)'
      PROVE  fight'[f].during = NoArc /\ ~fight'[f].credited
  <2>1. ~Over(f)
    BY <1>3 DEF Grows, Over
  <2>2. fight[f].during = NoArc /\ ~fight[f].credited
    BY <1>1, <2>1 DEF Events
  <2>3. fight'[f].during = fight[f].during
    <3>1. CASE fight'[f].seq = revision + 2
      BY <1>1, <1>3, <3>1 DEF Over, TypeOK
    <3>2. QED
      BY <1>1, <2>1, <3>1, Onward
  <2>4. ~fight'[f].credited
    BY <1>1, <2>1, <2>2, HooksTaken, Commits
  <2>5. QED
    BY <2>2, <2>3, <2>4
<1>4. Events'
  BY <1>2, <1>3 DEF Events, Over
<1>5. ASSUME NEW a \in Arc, Done(a)'
      PROVE  arc'[a].last <= revision'
  <2>0. revision \in Nat /\ revision' \in Nat /\ arc[a].last \in Nat
    BY <1>1, NextTyped DEF TypeOK, Adventure
  <2>1. CASE Done(a)
    <3>1. arc'[a].last = arc[a].last /\ arc[a].last <= revision
      BY <1>1, <2>1 DEF Grows, Past
    <3>2. QED
      BY <1>1, <2>0, <3>1, Onward
  <2>2. QED
    BY <1>1, <1>5, <2>1, Onward
<1>6. QED
  BY <1>4, <1>5 DEF Past

LEMMA InformedKept ==
  ASSUME Loose, Grows, [Next]_vars, NEW y \in Sweeper
  PROVE  Informed(y)'
<1>1. TypeOK /\ Past /\ Staged /\ Informed(y) /\ SheetsBacked
  BY DEF Loose
<1>2. \A a \in Arc, p \in Pc : award[a][p] # {} => award'[a][p] # {}
  BY DEF Grows
<1>3. sweeper[y] \in Activity
  BY <1>1 DEF TypeOK
<1>4. CASE Forgets(y)
  <2>1. ~Planning(y)'
    BY <1>4 DEF Forgets, Planning
  <2>2. \A p \in Pc, a \in Arc : AtMost(sweeper[y].sheets[p][a], a, p)'
    BY <1>4 DEF Forgets, NoXp, AtMost
  <2>3. QED
    BY <1>4, <2>1, <2>2 DEF Forgets, Informed
<1>5. CASE Keeps(y)
  <2>1. ASSUME Planning(y)', NEW f \in Fight
        PROVE  /\ f \in sweeper'[y].fights => Belongs(f, sweeper[y].arc)'
               /\ Belongs(f, sweeper[y].arc)' => f \in sweeper'[y].fights \/ fight'[f].credited
    <3>1. Planning(y)
      BY <1>5, <2>1 DEF Keeps, Planning
    <3>2. sweeper[y].arc \in Arc /\ Done(sweeper[y].arc)
      BY <1>1, <3>1 DEF Planning, Staged, At
    <3>3. Belongs(f, sweeper[y].arc)' <=> Belongs(f, sweeper[y].arc)
      <4>1. PICK a \in Arc : a = sweeper[y].arc
        BY <3>2
      <4>2. Belongs(f, a)' <=> Belongs(f, a)
        BY <1>1, <3>2, <4>1, RangeStands
      <4>3. sweeper'[y].arc = a
        BY <1>5, <4>1 DEF Keeps
      <4>4. QED
        BY <4>1, <4>2, <4>3 DEF Belongs
    <3>4. fight[f].credited => Over(f) /\ fight'[f].credited
      BY DEF Loose, Events, Grows
    <3>5. QED
      BY <1>1, <1>5, <3>1, <3>3, <3>4 DEF Informed, Keeps
  <2>2. ASSUME NEW p \in sweeper'[y].rows
        PROVE  sweeper'[y].arc \in Arc /\ award'[sweeper'[y].arc][p] # {}
    <3>1. p \in Pc /\ sweeper[y].arc \in Arc /\ award[sweeper[y].arc][p] # {}
      BY <1>1, <1>3, <1>5, <2>2 DEF Keeps, Informed, Activity
    <3>2. QED
      BY <1>2, <1>5, <3>1 DEF Keeps
  <2>3. ASSUME NEW p \in Pc, NEW a \in Arc
        PROVE  AtMost(sweeper[y].sheets[p][a], a, p)'
    <3>1. sweeper[y].sheets[p][a] \in Nat
      BY <1>3 DEF Activity
    <3>2. AtMost(sweeper[y].sheets[p][a], a, p)
      BY <1>1 DEF Informed
    <3>3. QED
      BY <1>2, <1>5, <3>1, <3>2 DEF Keeps, AtMost
  <2>4. QED
    BY <2>1, <2>2, <2>3 DEF Informed
<1>6. CASE CountFights(y)
  <2>1. fight' = fight /\ award' = award /\ arc' = arc
    BY <1>6 DEF CountFights, table
  <2>2. /\ sweeper'[y].arc = sweeper[y].arc /\ sweeper'[y].rows = sweeper[y].rows
        /\ sweeper'[y].sheets = sweeper[y].sheets
    BY <1>1, <1>3, <1>6 DEF CountFights, Goto, TypeOK, Activity
  <2>3. CASE sweeper'[y].phase = "ok"
    BY <1>1, <2>1, <2>2, <2>3 DEF Informed, Planning, AtMost
  <2>4. CASE sweeper'[y].fights = {f \in Fight : Belongs(f, sweeper[y].arc) /\ ~fight[f].credited}
    <3>1. \A f \in Fight :
            /\ f \in sweeper'[y].fights => Belongs(f, sweeper[y].arc)'
            /\ Belongs(f, sweeper[y].arc)' => f \in sweeper'[y].fights \/ fight'[f].credited
      BY <2>1, <2>2, <2>4 DEF Belongs
    <3>2. QED
      BY <1>1, <2>1, <2>2, <3>1 DEF Informed, AtMost
  <2>5. QED
    BY <1>1, <1>3, <1>6, <2>3, <2>4 DEF CountFights, Goto, TypeOK, Activity
<1>7. CASE ReadSheets(y)
  <2>1. Planning(y) /\ sweeper[y].arc \in Arc
    BY <1>1, <1>7 DEF Planning, Staged, ReadSheets, At
  <2>2. fight' = fight /\ award' = award /\ arc' = arc
    BY <1>7 DEF ReadSheets, table
  <2>3. /\ sweeper'[y].arc = sweeper[y].arc /\ sweeper'[y].fights = sweeper[y].fights
        /\ sweeper'[y].rows = {p \in Pc : award[sweeper[y].arc][p] # {}}
        /\ sweeper'[y].sheets = sheet
    BY <1>1, <1>3, <1>7 DEF ReadSheets, TypeOK, Activity
  <2>4. \A f \in Fight :
          /\ f \in sweeper'[y].fights => Belongs(f, sweeper[y].arc)'
          /\ Belongs(f, sweeper[y].arc)' => f \in sweeper'[y].fights \/ fight'[f].credited
    BY <1>1, <2>1, <2>2, <2>3 DEF Informed, Belongs
  <2>5. \A p \in Pc, a \in Arc : AtMost(sweeper[y].sheets[p][a], a, p)'
    BY <1>1, <2>2, <2>3 DEF SheetsBacked, AtMost
  <2>6. QED
    BY <2>1, <2>2, <2>3, <2>4, <2>5 DEF Informed
<1>8. QED
  BY <1>1, <1>4, <1>5, <1>6, <1>7, Moving

\* Steps that pay nothing: no award, no hook, no closed arc.
LEMMA IdleAccounts ==
  ASSUME Loose, Grows, [Next]_vars, award' = award, sheet' = sheet,
         \A f \in Fight : fight'[f].credited => fight[f].credited,
         \A a \in Arc : arc'[a].closing = "succeeded" => arc[a].closing = "succeeded"
  PROVE  Rightful' /\ NobodyUnpaid' /\ AwardsCover' /\ SheetsBacked'
<1>1. ASSUME NEW a \in Arc, Done(a), NEW f \in Fight
      PROVE  Belongs(f, a)' <=> Belongs(f, a)
  BY <1>1, RangeStands DEF Loose
<1>2. \A f \in Fight, p \in Pc : PaidFor(f, p)' <=> PaidFor(f, p)
  BY DEF PaidFor
<1>3. \A f \in Fight : PartyPaid(f)' <=> PartyPaid(f)
  BY DEF PartyPaid, PaidFor
<1>4. Rightful'
  <2>1. SUFFICES ASSUME NEW a \in Arc, NEW p \in Pc, NEW f \in award[a][p]
                 PROVE  Belongs(f, a)' /\ p \in Party[f]
    BY DEF Rightful
  <2>2. Done(a) /\ f \in Fight /\ Belongs(f, a) /\ p \in Party[f]
    BY <2>1 DEF Loose, Staged, Rightful, TypeOK
  <2>3. QED
    BY <1>1, <2>2
<1>5. NobodyUnpaid'
  <2>1. \A f \in Fight : fight'[f].credited => PartyPaid(f)'
    BY <1>3 DEF Loose, NobodyUnpaid
  <2>2. ASSUME NEW a \in Arc, NEW f \in Fight, arc'[a].closing = "succeeded", Belongs(f, a)'
        PROVE  PartyPaid(f)'
    <3>1. arc[a].closing = "succeeded" /\ Done(a)
      BY <2>2 DEF Loose, Staged
    <3>2. Belongs(f, a)
      BY <1>1, <2>2, <3>1
    <3>3. QED
      BY <1>3, <3>1, <3>2 DEF Loose, NobodyUnpaid
  <2>3. QED
    BY <2>1, <2>2 DEF NobodyUnpaid
<1>6. AwardsCover'
  <2>1. SUFFICES ASSUME NEW a \in Arc, NEW p \in Pc, NEW f \in Fight,
                        award[a][p] # {}, Belongs(f, a)', p \in Party[f]
                 PROVE  PaidFor(f, p)
    BY <1>2 DEF AwardsCover
  <2>2. Done(a)
    BY <2>1 DEF Loose, Staged
  <2>3. QED
    BY <1>1, <2>1, <2>2 DEF Loose, AwardsCover
<1>7. QED
  BY <1>4, <1>5, <1>6 DEF Loose, SheetsBacked

LEMMA CommitAccounts ==
  ASSUME Loose, Grows, [Next]_vars, NEW x \in Sweeper, CommitFollowups(x)
  PROVE  Rightful' /\ NobodyUnpaid' /\ AwardsCover' /\ SheetsBacked'
<1> DEFINE a == sweeper[x].arc
<1>1. TypeOK /\ Informed(x)
  BY DEF Loose
<1>2. /\ a \in Arc /\ Done(a)
      /\ \A f \in Fight : f \in sweeper[x].fights => Belongs(f, a)
      /\ \A f \in Fight : Belongs(f, a) => f \in sweeper[x].fights \/ fight[f].credited
  BY Commits
<1>3. /\ \A p \in Awarded(x) : p \in Pc /\ award[a][p] = {} /\ award'[a][p] = Share(x, p)
      /\ \A b \in Arc, p \in Pc : b # a \/ p \notin Awarded(x) => award'[b][p] = award[b][p]
  BY <1>1, <1>2, CommitAwards
<1>4. /\ \A f \in Fight : fight'[f].credited => fight[f].credited \/ f \in sweeper[x].fights
      /\ sweeper[x].fights \subseteq Fight
  BY <1>1 DEF CommitFollowups, TypeOK, Encounter, Activity
<1>5. ASSUME NEW b \in Arc, Done(b), NEW f \in Fight
      PROVE  Belongs(f, b)' <=> Belongs(f, b)
  BY <1>5, RangeStands DEF Loose
<1>6. ASSUME NEW f \in Fight, NEW p \in Pc, PaidFor(f, p)
      PROVE  PaidFor(f, p)'
  <2>1. PICK b \in Arc : f \in award[b][p]
    BY <1>6 DEF PaidFor
  <2>2. award'[b][p] = award[b][p]
    BY <1>3, <2>1
  <2>3. QED
    BY <2>1, <2>2 DEF PaidFor
<1>7. \A f \in Fight : Party[f] \subseteq Pc
  BY PartyAssumption
<1>8. ASSUME NEW f \in Fight, PartyPaid(f)
      PROVE  PartyPaid(f)'
  BY <1>6, <1>7, <1>8 DEF PartyPaid, PaidFor
\* All who took part in a fight that the handler has read are paid by now.
<1>9. ASSUME NEW f \in sweeper[x].fights
      PROVE  PartyPaid(f)'
  <2>1. SUFFICES ASSUME NEW p \in Party[f] PROVE PaidFor(f, p)'
    BY DEF PartyPaid, PaidFor
  <2>2. f \in Fight /\ p \in Pc /\ f \in Share(x, p) /\ Belongs(f, a)
    BY <1>2, <1>4, <1>7 DEF Share
  <2>3. CASE p \in sweeper[x].rows
    <3>1. award[a][p] # {}
      BY <1>1, <2>3 DEF Informed
    <3>2. PaidFor(f, p)
      BY <1>2, <2>1, <2>2, <3>1 DEF Loose, AwardsCover
    <3>3. QED
      BY <1>6, <2>2, <3>2
  <2>4. CASE p \notin sweeper[x].rows
    <3>1. p \in Awarded(x)
      BY <2>2, <2>4 DEF Awarded
    <3>2. f \in award'[a][p]
      BY <1>3, <2>2, <3>1
    <3>3. QED
      BY <1>2, <3>2 DEF PaidFor
  <2>5. QED
    BY <2>3, <2>4
<1>10. ASSUME NEW f \in Fight, fight[f].credited
       PROVE  PartyPaid(f)'
  BY <1>8, <1>10 DEF Loose, NobodyUnpaid
<1>11. Rightful'
  <2>1. SUFFICES ASSUME NEW b \in Arc, NEW p \in Pc, NEW f \in award'[b][p]
                 PROVE  Belongs(f, b)' /\ p \in Party[f]
    BY DEF Rightful
  <2>2. CASE b = a /\ p \in Awarded(x)
    <3>1. f \in sweeper[x].fights /\ p \in Party[f]
      BY <1>3, <2>1, <2>2 DEF Share
    <3>2. QED
      BY <1>2, <1>4, <1>5, <2>2, <3>1
  <2>3. CASE b # a \/ p \notin Awarded(x)
    <3>1. f \in award[b][p]
      BY <1>3, <2>1, <2>3
    <3>2. f \in Fight /\ Done(b) /\ Belongs(f, b) /\ p \in Party[f]
      BY <1>1, <3>1 DEF Loose, Staged, Rightful, TypeOK
    <3>3. QED
      BY <1>5, <3>2
  <2>4. QED
    BY <2>2, <2>3
<1>12. NobodyUnpaid'
  <2>1. \A f \in Fight : fight'[f].credited => PartyPaid(f)'
    BY <1>4, <1>9, <1>10
  <2>2. ASSUME NEW b \in Arc, NEW f \in Fight, arc'[b].closing = "succeeded", Belongs(f, b)'
        PROVE  PartyPaid(f)'
    <3>1. CASE b = a
      <4>1. Belongs(f, a)
        BY <1>2, <1>5, <2>2, <3>1
      <4>2. QED
        BY <1>2, <1>9, <1>10, <4>1
    <3>2. CASE b # a
      <4>1. arc[b].closing = "succeeded"
        BY <1>1, <1>2, <2>2, <3>2 DEF CommitFollowups, TypeOK
      <4>2. Done(b)
        BY <4>1 DEF Loose, Staged
      <4>3. PartyPaid(f)
        BY <1>5, <2>2, <4>1, <4>2 DEF Loose, NobodyUnpaid
      <4>4. QED
        BY <1>8, <4>3
    <3>3. QED
      BY <3>1, <3>2
  <2>3. QED
    BY <2>1, <2>2 DEF NobodyUnpaid
<1>13. AwardsCover'
  <2>1. SUFFICES ASSUME NEW b \in Arc, NEW p \in Pc, NEW f \in Fight,
                        award'[b][p] # {}, Belongs(f, b)', p \in Party[f]
                 PROVE  PaidFor(f, p)'
    BY DEF AwardsCover
  <2>2. CASE b = a /\ p \in Awarded(x)
    <3>1. f \in sweeper[x].fights \/ fight[f].credited
      BY <1>2, <1>5, <2>1, <2>2
    <3>2. PartyPaid(f)'
      BY <1>9, <1>10, <3>1
    <3>3. QED
      BY <2>1, <3>2 DEF PartyPaid, PaidFor
  <2>3. CASE b # a \/ p \notin Awarded(x)
    <3>1. award[b][p] # {}
      BY <1>3, <2>1, <2>3
    <3>2. Done(b)
      BY <3>1 DEF Loose, Staged
    <3>3. Belongs(f, b)
      BY <1>5, <2>1, <3>2
    <3>4. PaidFor(f, p)
      BY <2>1, <3>1, <3>3 DEF Loose, AwardsCover
    <3>5. QED
      BY <1>6, <3>4
  <2>4. QED
    BY <2>2, <2>3
<1>14. SheetsBacked'
  <2>1. SheetsBacked /\ \A p \in Pc, b \in Arc : AtMost(sweeper[x].sheets[p][b], b, p)
    BY <1>1 DEF Loose, Informed
  <2>2. QED
    BY <1>1, <1>2, <2>1, CommitSheets
<1>15. QED
  BY <1>11, <1>12, <1>13, <1>14

LEMMA LooseStep ==
  ASSUME Loose, [Next]_vars
  PROVE  Loose'
<1>1. TypeOK /\ Events /\ Staged
  BY DEF Loose
<1>2. TypeOK'
  BY <1>1, NextTyped
<1>3. Grows
  BY <1>1, Growing
<1>4. Events' /\ Past' /\ Staged' /\ \A x \in Sweeper : Informed(x)'
  BY <1>1, <1>3, PastKept, StagedKept, InformedKept
<1>5. Rightful' /\ NobodyUnpaid' /\ AwardsCover' /\ SheetsBacked'
  <2>1. ASSUME NEW x \in Sweeper, CommitFollowups(x)
        PROVE  Rightful' /\ NobodyUnpaid' /\ AwardsCover' /\ SheetsBacked'
    BY <1>3, <2>1, CommitAccounts
  <2>2. CASE ~\E x \in Sweeper : CommitFollowups(x)
    <3>1. \A f \in Fight : fight'[f].credited => fight[f].credited
      BY <1>1, <2>2, HooksTaken
    <3>2. ASSUME NEW a \in Arc, StartAdventure(a) \/ CompleteAdventure(a)
          PROVE  /\ award' = award /\ sheet' = sheet
                 /\ \A b \in Arc : arc'[b].closing = "succeeded" => arc[b].closing = "succeeded"
      BY <1>1, <3>2, TableKeepsClosing
    <3>3. ASSUME NEW x \in Sweeper, FollowupsFail(x)
          PROVE  /\ award' = award /\ sheet' = sheet
                 /\ \A b \in Arc : arc'[b].closing = "succeeded" => arc[b].closing = "succeeded"
      BY <1>1, <3>3 DEF FollowupsFail, table, TypeOK, Adventure
    <3>4. /\ award' = award /\ sheet' = sheet
          /\ \A b \in Arc : arc'[b].closing = "succeeded" => arc[b].closing = "succeeded"
      BY <2>2, <3>2, <3>3, Kinds DEF FightEnds, Quiet, table
    <3>5. QED
      BY <1>3, <3>1, <3>4, IdleAccounts
  <2>3. QED
    BY <2>1, <2>2
<1>6. QED
  BY <1>2, <1>4, <1>5 DEF Loose

LEMMA InitLoose == Init => Loose
<1> SUFFICES ASSUME Init PROVE Loose
  OBVIOUS
<1>1. /\ \A a \in Arc : arc[a].status # "completed" /\ arc[a].closing = "pending"
      /\ \A f \in Fight : fight[f].seq = 0 /\ fight[f].during = NoArc /\ ~fight[f].credited
      /\ \A a \in Arc, p \in Pc : award[a][p] = {} /\ sheet[p][a] = 0
  BY DEF Init, NoXp
<1>2. Events /\ Past /\ Staged
  BY <1>1, InitInv DEF Past, Done, Inv, Timeline
<1>3. Rightful /\ NobodyUnpaid /\ AwardsCover /\ SheetsBacked
  BY <1>1 DEF Rightful, NobodyUnpaid, AwardsCover, SheetsBacked
<1>4. \A x \in Sweeper : Informed(x)
  BY InitInv DEF Init, Inv, Reading, Read, Informed, Planning, Idle
<1>5. QED
  BY <1>2, <1>3, <1>4, InitTyped DEF Loose

-----------------------------------------------------------------------------
(* The two together.                                                       *)

\* That an owner chose where an arc starts is not forgotten.
LEMMA ChoiceStands ==
  ASSUME TypeOK, [Next]_vars, DefaultStarts'
  PROVE  DefaultStarts
<1> SUFFICES ASSUME NEW a \in Arc, arc[a].chosen PROVE arc'[a].chosen
  BY DEF DefaultStarts
<1>1. arc \in [Arc -> Adventure] /\ arc[a] \in Adventure
  BY DEF TypeOK
<1>2. ASSUME NEW b \in Arc, StartAdventure(b)
      PROVE  arc'[a].chosen
  BY <1>2, Opens
<1>3. ASSUME NEW b \in Arc, CompleteAdventure(b)
      PROVE  arc'[a].chosen
  BY <1>1, <1>3 DEF CompleteAdventure, Adventure
<1>4. ASSUME NEW x \in Sweeper, CommitFollowups(x) \/ FollowupsFail(x)
      PROVE  arc'[a].chosen
  BY <1>1, <1>4 DEF CommitFollowups, FollowupsFail, Adventure
<1>5. QED
  BY <1>2, <1>3, <1>4, Kinds DEF FightEnds, Quiet

\* However many sweepers deliver a closing, die or are overtaken: an award credits
\* only fights of its arc's range that its character fought, no hook is taken and
\* no arc closed before everybody who fought has been paid, and no award is in a
\* sheet twice; and as long as no owner has chosen where an arc starts, an award
\* credits exactly the fights its character fought during the arc, and everyone is
\* paid once the arc is closed (adventures/rewards.py award_adventure_xp,
\* adventures/service.py).
THEOREM Accounted == Spec => []XpAccounted
<1> DEFINE Accounts == Loose /\ (DefaultStarts => Inv)
<1>1. Init => Accounts
  BY InitInv, InitLoose
<1>2. Accounts /\ [Next]_vars => Accounts'
  <2> SUFFICES ASSUME Accounts, [Next]_vars PROVE Accounts'
    OBVIOUS
  <2>1. Loose'
    BY LooseStep
  <2>2. ASSUME DefaultStarts' PROVE Inv'
    <3>1. Inv
      BY <2>2, ChoiceStands DEF Loose
    <3>2. QED
      BY <2>2, <3>1, NextInv
  <2>3. QED
    BY <2>1, <2>2
<1>3. Accounts => XpAccounted
  BY DEF Loose, Inv, Exact, XpAccounted
<1>4. QED
  BY <1>1, <1>2, <1>3, PTL DEF Spec
=============================================================================
