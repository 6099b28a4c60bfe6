-------------------------- MODULE LockOrderProofs --------------------------
(***************************************************************************)
(* The boundaries of the DM pipeline, encounter commands and the lifecycle *)
(* take their rows in one order, so a ring of waiting transactions, of any *)
(* number of processes, has one in it that started from the campaign row.  *)
(***************************************************************************)
EXTENDS LockOrder, TLAPS

Rank == [roll |-> 1, turn |-> 2, attempt |-> 3, encounter |-> 4, campaign |-> 5]

\* The part of TypeOK that the order needs.
Typed ==
  /\ kind \in [Process -> Kinds \cup {"idle"}]
  /\ got \in [Process -> Nat]
  /\ \A p \in Process : got[p] <= Len(Rows(p))

Exclusive == \A p, q \in Process : p # q => Held(p) \cap Held(q) = {}

\* Every plan is a sequence of rows.
LEMMA PlanType == ASSUME NEW k \in DOMAIN Plan PROVE Plan[k] \in Seq(Row)
<1>1. "roll" \in Row /\ "turn" \in Row /\ "attempt" \in Row /\ "encounter" \in Row /\ "campaign" \in Row
  BY DEF Row
<1>2. <<"campaign", "turn", "attempt">> \in Seq(Row)
  BY <1>1
<1>3. <<"roll", "campaign", "turn", "attempt">> \in Seq(Row)
  BY <1>1
<1>4. <<"turn", "attempt", "campaign">> \in Seq(Row)
  BY <1>1
<1>5. <<"turn", "attempt", "encounter", "campaign">> \in Seq(Row)
  BY <1>1
<1>6. <<"encounter", "campaign">> \in Seq(Row) /\ <<"campaign">> \in Seq(Row)
  BY <1>1
<1>7. Plan[k] \in {<<"campaign", "turn", "attempt">>, <<"roll", "campaign", "turn", "attempt">>,
                   <<"turn", "attempt", "campaign">>,
                   <<"turn", "attempt", "encounter", "campaign">>,
                   <<"encounter", "campaign">>, <<"campaign">>}
  BY DEF Plan, CoordinateTurn, RetryFailed, FulfillRoll, StartStreaming, RequestRolls, CommitTurn,
         EndTurn, Lifecycle
<1> QED BY <1>2, <1>3, <1>4, <1>5, <1>6, <1>7

LEMMA RowsType == ASSUME Typed, NEW p \in Process PROVE Rows(p) \in Seq(Row)
BY PlanType, KindsAssumption DEF Rows, Typed

LEMMA RankType == \A r \in Row : Rank[r] \in 1 .. 5
BY DEF Row, Rank

\* The other transactions lock in rank order.
LEMMA PlansOrdered ==
  ASSUME NEW k \in DOMAIN Plan \ CampaignFirst,
         NEW i \in 1 .. Len(Plan[k]), NEW j \in 1 .. Len(Plan[k]), i < j
  PROVE  Rank[Plan[k][i]] < Rank[Plan[k][j]]
<1>1. CASE k \in {"mark_streaming_started", "request_rolls"}
  <2>1. Plan[k] = <<"turn", "attempt", "campaign">>
    BY <1>1 DEF Plan, StartStreaming, RequestRolls
  <2>2. Len(<<"turn", "attempt", "campaign">>) = 3
    OBVIOUS
  <2>3. i \in 1 .. 3 /\ j \in 1 .. 3
    BY <2>1, <2>2
  <2> QED BY <2>1, <2>3 DEF Rank
<1>2. CASE k = "commit_turn"
  <2>1. Plan[k] = <<"turn", "attempt", "encounter", "campaign">>
    BY <1>2 DEF Plan, CommitTurn
  <2>2. Len(<<"turn", "attempt", "encounter", "campaign">>) = 4
    OBVIOUS
  <2>3. i \in 1 .. 4 /\ j \in 1 .. 4
    BY <2>1, <2>2
  <2> QED BY <2>1, <2>3 DEF Rank
<1>3. CASE k = "end_turn"
  <2>1. Plan[k] = <<"encounter", "campaign">>
    BY <1>3 DEF Plan, EndTurn
  <2>2. Len(<<"encounter", "campaign">>) = 2
    OBVIOUS
  <2>3. i \in 1 .. 2 /\ j \in 1 .. 2
    BY <2>1, <2>2
  <2> QED BY <2>1, <2>3 DEF Rank
<1>4. CASE k = "transition_lifecycle"
  <2>1. Plan[k] = <<"campaign">>
    BY <1>4 DEF Plan, Lifecycle
  <2>2. Len(<<"campaign">>) = 1
    OBVIOUS
  <2>3. i \in 1 .. 1 /\ j \in 1 .. 1
    BY <2>1, <2>2
  <2> QED BY <2>3
<1> QED BY <1>1, <1>2, <1>3, <1>4 DEF Plan, CampaignFirst

\* Five ranks: one climbs at most four times.
LEMMA Highest == ASSUME NEW T, T # {}, NEW f \in [T -> 1 .. 5]
                 PROVE \E p \in T : \A q \in T : f[q] <= f[p]
<1> SUFFICES ASSUME \A p \in T : \E q \in T : f[p] + 1 <= f[q] PROVE FALSE
  <2>1. \A p, q \in T : f[p] \in Nat /\ (~ (f[q] <= f[p]) <=> f[p] + 1 <= f[q])
    OBVIOUS
  <2> QED BY <2>1
<1>1. PICK a \in T : f[a] >= 1
  OBVIOUS
<1>2. PICK b \in T : f[b] >= 2
  BY <1>1
<1>3. PICK c \in T : f[c] >= 3
  BY <1>2
<1>4. PICK d \in T : f[d] >= 4
  BY <1>3
<1>5. PICK e \in T : f[e] >= 5
  BY <1>4
<1> QED BY <1>5

\* In a ring, whoever wants the row of highest rank waits for somebody who
\* holds it and so wants a row of higher rank still.
LEMMA NoRing ==
  ASSUME Typed, NEW S \in SUBSET Process, Deadlocked(S), \A p \in S : kind[p] \notin CampaignFirst
  PROVE  FALSE
<1>1. ASSUME NEW p \in S PROVE /\ got[p] \in Nat /\ got[p] + 1 \in 1 .. Len(Rows(p))
                               /\ Wanted(p) \in Row
  <2>1. Rows(p) \in Seq(Row)
    BY RowsType
  <2>2. Len(Rows(p)) \in Nat
    BY <2>1
  <2>3. got[p] \in Nat /\ got[p] < Len(Rows(p))
    BY DEF Deadlocked, Wanting, Typed
  <2>4. got[p] + 1 \in 1 .. Len(Rows(p))
    BY <2>2, <2>3
  <2>5. Rows(p)[got[p] + 1] \in Row
    BY <2>1, <2>4
  <2> QED BY <2>3, <2>4, <2>5 DEF Wanted
<1>2. \A p \in S : Rank[Wanted(p)] \in 1 .. 5
  BY <1>1, RankType
<1>3. PICK p \in S : \A q \in S : Rank[Wanted(q)] <= Rank[Wanted(p)]
  <2> DEFINE rank == [p \in S |-> Rank[Wanted(p)]]
  <2>1. rank \in [S -> 1 .. 5] /\ S # {}
    BY <1>2 DEF Deadlocked
  <2> HIDE DEF rank
  <2>2. \E p \in S : \A q \in S : rank[q] <= rank[p]
    BY <2>1, Highest
  <2> QED BY <2>2 DEF rank
<1>4. PICK q \in S \ {p} : Wanted(p) \in Held(q)
  BY DEF Deadlocked
<1>5. PICK i \in 1 .. got[q] : Wanted(p) = Rows(q)[i]
  BY <1>4 DEF Held
<1>6. kind[q] \in DOMAIN Plan \ CampaignFirst /\ Rows(q) = Plan[kind[q]]
  <2>1. Len(Rows(q)) # 0
    BY <1>1, RowsType DEF Typed
  <2>2. kind[q] # "idle"
    BY <2>1 DEF Rows
  <2> QED BY <1>4, <2>2, KindsAssumption DEF Typed, Rows
<1>7. Rank[Wanted(p)] < Rank[Wanted(q)]
  <2>1. i \in 1 .. Len(Rows(q)) /\ got[q] + 1 \in 1 .. Len(Rows(q)) /\ i < got[q] + 1
    BY <1>1, <1>4, RowsType DEF Typed
  <2>2. i \in 1 .. Len(Plan[kind[q]]) /\ got[q] + 1 \in 1 .. Len(Plan[kind[q]])
    BY <1>6, <2>1
  <2>3. Rank[Plan[kind[q]][i]] < Rank[Plan[kind[q]][got[q] + 1]]
    BY <1>6, <2>1, <2>2, PlansOrdered
  <2> QED BY <1>5, <1>6, <2>3 DEF Wanted
<1>8. Rank[Wanted(q)] <= Rank[Wanted(p)]
  BY <1>3, <1>4
<1> QED BY <1>2, <1>4, <1>7, <1>8

\* Only Lock moves a process, and only while it wants a row.
LEMMA TypedStep == ASSUME Typed, [Next]_vars PROVE Typed'
<1>1. ASSUME NEW p \in Process, NEW k \in Kinds, Begin(p, k) PROVE Typed'
  <2>1. got[p] = 0
    <3>1. Rows(p) = <<>> /\ got[p] \in Nat /\ got[p] <= Len(Rows(p))
      BY <1>1 DEF Begin, Rows, Typed
    <3>2. Len(Rows(p)) = 0
      BY <3>1
    <3> QED BY <3>1, <3>2
  <2>2. kind' \in [Process -> Kinds \cup {"idle"}] /\ got' = got
    BY <1>1 DEF Begin, Typed
  <2>3. ASSUME NEW q \in Process PROVE got'[q] <= Len(Rows(q)')
    <3>1. CASE q = p
      <4>1. Rows(q)' \in Seq(Row)
        BY <2>2, PlanType, KindsAssumption DEF Rows
      <4> QED BY <3>1, <4>1, <2>1, <2>2
    <3>2. CASE q # p
      <4>1. Rows(q)' = Rows(q)
        BY <1>1, <3>2 DEF Begin, Rows, Typed
      <4> QED BY <4>1, <2>2 DEF Typed
    <3> QED BY <3>1, <3>2
  <2> QED BY <2>2, <2>3 DEF Typed
<1>2. ASSUME NEW p \in Process, Lock(p) PROVE Typed'
  <2>1. Rows(p) \in Seq(Row) /\ Len(Rows(p)) \in Nat /\ got[p] \in Nat /\ got[p] < Len(Rows(p))
    BY <1>2, RowsType DEF Lock, Wanting, Typed
  <2>2. kind' = kind /\ got' = [got EXCEPT ![p] = got[p] + 1] /\ got' \in [Process -> Nat]
    BY <1>2, <2>1 DEF Lock, Typed
  <2>3. \A q \in Process : Rows(q)' = Rows(q)
    BY <2>2 DEF Rows
  <2>4. \A q \in Process : got'[q] <= Len(Rows(q))
    BY <2>1, <2>2 DEF Typed
  <2> QED BY <2>2, <2>3, <2>4 DEF Typed
<1>3. ASSUME NEW p \in Process, Release(p) PROVE Typed'
  <2>1. /\ kind' = [kind EXCEPT ![p] = "idle"] /\ kind' \in [Process -> Kinds \cup {"idle"}]
        /\ got' = [got EXCEPT ![p] = 0] /\ got' \in [Process -> Nat]
    BY <1>3 DEF Release, Typed
  <2>2. ASSUME NEW q \in Process PROVE got'[q] <= Len(Rows(q)')
    <3>1. CASE q = p
      <4>1. Rows(q)' = <<>> /\ got'[q] = 0
        BY <3>1, <2>1 DEF Rows, Typed
      <4>2. Len(<<>>) = 0
        OBVIOUS
      <4> QED BY <4>1, <4>2
    <3>2. CASE q # p
      <4>1. Rows(q)' = Rows(q) /\ got'[q] = got[q]
        BY <2>1, <3>2 DEF Rows, Typed
      <4> QED BY <4>1 DEF Typed
    <3> QED BY <3>1, <3>2
  <2> QED BY <2>1, <2>2 DEF Typed
<1>4. CASE UNCHANGED vars
  BY <1>4 DEF vars, Typed, Rows
<1> QED BY <1>1, <1>2, <1>3, <1>4 DEF Next, Commit, Abort, Fail

LEMMA TypedInit == Init => Typed
<1> SUFFICES ASSUME Init PROVE Typed
  OBVIOUS
<1>1. ASSUME NEW p \in Process PROVE got[p] <= Len(Rows(p))
  <2>1. got[p] = 0 /\ Rows(p) = <<>>
    BY DEF Init, Rows
  <2>2. Len(<<>>) = 0
    OBVIOUS
  <2> QED BY <2>1, <2>2
<1> QED BY <1>1 DEF Init, Typed

LEMMA TypedAlways == Spec => []Typed
BY TypedInit, TypedStep, PTL DEF Spec

\* A lock is granted only when nobody else holds the row.
LEMMA ExclusiveStep == ASSUME Typed, Exclusive, [Next]_vars PROVE Exclusive'
<1>1. ASSUME NEW p \in Process, NEW k \in Kinds, Begin(p, k) PROVE \A q \in Process : Held(q)' = Held(q)
  <2>1. got[p] = 0
    <3>1. Rows(p) = <<>> /\ got[p] \in Nat /\ got[p] <= Len(Rows(p))
      BY <1>1 DEF Begin, Rows, Typed
    <3>2. Len(Rows(p)) = 0
      BY <3>1
    <3> QED BY <3>1, <3>2
  <2>2. Held(p) = {} /\ Held(p)' = {}
    BY <1>1, <2>1 DEF Begin, Held
  <2>3. \A q \in Process \ {p} : Rows(q)' = Rows(q) /\ got'[q] = got[q]
    BY <1>1 DEF Begin, Rows, Typed
  <2>4. \A q \in Process \ {p} : Held(q)' = Held(q)
    BY <2>3 DEF Held
  <2> QED BY <2>2, <2>4
<1>2. ASSUME NEW p \in Process, Lock(p)
      PROVE Held(p)' = Held(p) \cup {Wanted(p)} /\ \A q \in Process \ {p} : Held(q)' = Held(q)
  <2>1. got[p] \in Nat /\ got'[p] = got[p] + 1 /\ \A q \in Process : Rows(q)' = Rows(q)
    BY <1>2 DEF Lock, Rows, Typed
  <2>2. \A q \in Process \ {p} : got'[q] = got[q]
    BY <1>2 DEF Lock, Typed
  <2>3. 1 .. got'[p] = (1 .. got[p]) \cup {got[p] + 1}
    BY <2>1
  <2>4. Held(p)' = {Rows(p)[i] : i \in 1 .. got'[p]}
    BY <2>1 DEF Held
  <2>5. Held(p)' = Held(p) \cup {Wanted(p)}
    BY <2>3, <2>4 DEF Held, Wanted
  <2>6. \A q \in Process \ {p} : Held(q)' = Held(q)
    BY <2>1, <2>2 DEF Held
  <2> QED BY <2>5, <2>6
<1>3. ASSUME NEW p \in Process, Release(p)
      PROVE Held(p)' = {} /\ \A q \in Process \ {p} : Held(q)' = Held(q)
  <2>1. got'[p] = 0 /\ \A q \in Process \ {p} : Rows(q)' = Rows(q) /\ got'[q] = got[q]
    BY <1>3 DEF Release, Rows, Typed
  <2> QED BY <2>1 DEF Held
<1>4. ASSUME NEW p \in Process, NEW k \in Kinds, Begin(p, k) PROVE Exclusive'
  BY <1>1, <1>4 DEF Exclusive
<1>5. ASSUME NEW p \in Process, Lock(p) PROVE Exclusive'
  <2>1. \A q \in Process \ {p} : Wanted(p) \notin Held(q)
    BY <1>5 DEF Lock, Free
  <2> QED BY <1>2, <1>5, <2>1 DEF Exclusive
<1>6. ASSUME NEW p \in Process, Release(p) PROVE Exclusive'
  BY <1>3, <1>6 DEF Exclusive
<1>7. CASE UNCHANGED vars
  <2>1. \A p \in Process : Held(p)' = Held(p)
    BY <1>7 DEF vars, Held, Rows
  <2> QED BY <2>1 DEF Exclusive
<1> QED BY <1>4, <1>5, <1>6, <1>7 DEF Next, Commit, Abort, Fail

\* Row locks are exclusive and held along the plan, for any processes and
\* any transactions (Postgres' FOR UPDATE as the code uses it).
THEOREM TypeCorrect == Spec => []TypeOK
<1>1. Init => Exclusive
  <2> SUFFICES ASSUME Init PROVE Exclusive
    OBVIOUS
  <2>1. \A p \in Process : Held(p) = {}
    <3> SUFFICES ASSUME NEW p \in Process PROVE Held(p) = {}
      OBVIOUS
    <3>1. got[p] = 0
      BY DEF Init
    <3>2. 1 .. got[p] = {}
      BY <3>1
    <3> QED BY <3>2 DEF Held
  <2> QED BY <2>1 DEF Exclusive
<1>2. Typed /\ Exclusive => TypeOK
  BY DEF Typed, Exclusive, TypeOK
<1> QED BY <1>1, <1>2, TypedInit, TypedStep, ExclusiveStep, PTL DEF Spec

\* Whatever transactions run, and however many: a ring has a transaction in it
\* that locked the campaign first.
THEOREM RingsHaveACause == Spec => []RingsStartFromCampaign
<1>1. Typed => RingsStartFromCampaign
  BY NoRing DEF RingsStartFromCampaign
<1> QED BY <1>1, TypedAlways, PTL

\* Were those transactions to lock in the others' order, or not to run, no
\* table would ever see a deadlock.
THEOREM NoCauseNoRing == ASSUME Kinds \cap CampaignFirst = {} PROVE Spec => []NoDeadlock
<1>1. Typed => NoDeadlock
  <2> SUFFICES ASSUME Typed, NEW S \in SUBSET Process, Deadlocked(S) PROVE FALSE
    BY DEF NoDeadlock
  <2>1. \A p \in S : kind[p] \notin CampaignFirst
    BY DEF Typed, CampaignFirst
  <2> QED BY <2>1, NoRing
<1> QED BY <1>1, TypedAlways, PTL
=============================================================================
