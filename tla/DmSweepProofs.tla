--------------------------- MODULE DmSweepProofs ---------------------------
(***************************************************************************)
(* Proofs about DmSweep for any number of tables, any limits and bounds:   *)
(* the queue and the log fit the turns, and nobody pushes in.              *)
(***************************************************************************)
EXTENDS DmSweep, FiniteSetTheorems, FunctionTheorems, SequenceTheorems, TLAPS

-----------------------------------------------------------------------------
(* What ordering and sifting return.  A rank, the number of elements that  *)
(* are at most as old, stands in for an induction.                         *)

\* age tells the elements of the finite set S apart.
Ages(S, age) ==
  /\ IsFiniteSet(S)
  /\ \A x \in S : age[x] \in Nat
  /\ \A x, y \in S : age[x] = age[y] => x = y

\* InOrder lists every element once, the oldest first.
LEMMA InOrderFacts ==
  ASSUME NEW S, NEW age, Ages(S, age)
  PROVE  /\ Cardinality(S) \in Nat
         /\ InOrder(S, age) \in Bijection(1 .. Cardinality(S), S)
         /\ \A k, l \in 1 .. Cardinality(S) :
              k < l => age[InOrder(S, age)[k]] < age[InOrder(S, age)[l]]
<1> DEFINE n == Cardinality(S)
           Low(x) == {y \in S : age[y] <= age[x]}
           Rank(x) == Cardinality(Low(x))
           rank == [x \in S |-> Rank(x)]
           Choice(k) == CHOOSE x \in S : Rank(x) = k
           order == InOrder(S, age)
<1> USE DEF Ages
<1>0. n \in Nat /\ IsFiniteSet(1 .. n) /\ Cardinality(1 .. n) = n
  BY FS_CardinalityType, FS_Interval
<1>1. ASSUME NEW x \in S PROVE IsFiniteSet(Low(x)) /\ Rank(x) \in 1 .. n
  <2>1. IsFiniteSet(Low(x)) /\ Rank(x) <= n
    BY FS_Subset
  <2>2. Rank(x) \in Nat
    BY <2>1, FS_CardinalityType
  <2>3. x \in Low(x)
    OBVIOUS
  <2>4. Rank(x) # 0
    BY <2>1, <2>3, FS_EmptySet
  <2>5. QED
    BY <1>0, <2>1, <2>2, <2>4
<1>2. ASSUME NEW x \in S, NEW y \in S, age[x] < age[y] PROVE Rank(x) < Rank(y)
  <2>1. Low(x) \in SUBSET Low(y)
    BY <1>2
  <2>2. y \in Low(y) /\ y \notin Low(x)
    BY <1>2
  <2>3. Rank(x) <= Rank(y) /\ Rank(x) # Rank(y)
    BY <1>1, <2>1, <2>2, FS_Subset
  <2>4. Rank(x) \in Nat /\ Rank(y) \in Nat
    BY <1>1, FS_CardinalityType
  <2> HIDE DEF Rank
  <2>5. QED
    BY <2>3, <2>4
<1>3. order = [k \in 1 .. n |-> Choice(k)]
  BY DEF InOrder
<1>4. \A k \in 1 .. n : (\E x \in S : Rank(x) = k) => Choice(k) \in S /\ Rank(Choice(k)) = k
  OBVIOUS
<1> HIDE DEF Low, Rank, Choice, order, n
<1>5. \A x, y \in S : Rank(x) = Rank(y) => x = y
  <2>1. SUFFICES ASSUME NEW x \in S, NEW y \in S, Rank(x) = Rank(y) PROVE age[x] = age[y]
    OBVIOUS
  <2>2. ~(age[x] < age[y]) /\ ~(age[y] < age[x])
    BY <1>0, <1>1, <1>2, <2>1
  <2>3. QED
    BY <2>2
<1>6. rank \in Injection(S, 1 .. n)
  <2>1. rank \in [S -> 1 .. n] /\ \A x, y \in S : rank[x] = rank[y] => x = y
    BY <1>1, <1>5
  <2>2. QED
    BY <2>1, Fun_IsInj
<1>7. rank \in Surjection(S, 1 .. n)
  <2>1. IsFiniteSet(S) /\ Cardinality(S) = Cardinality(1 .. n)
    BY <1>0 DEF n
  <2>2. QED
    BY <1>0, <1>6, <2>1, FS_Injection
<1>8. \A k \in 1 .. n : order[k] \in S /\ Rank(order[k]) = k
  <2>1. \A k \in 1 .. n : \E x \in S : rank[x] = k
    BY <1>7 DEF Surjection
  <2>2. QED
    BY <1>3, <1>4, <2>1
<1>9. order \in Bijection(1 .. n, S)
  <2>1. order \in [1 .. n -> S]
    BY <1>3, <1>8
  <2>2. \A k, l \in 1 .. n : order[k] = order[l] => k = l
    BY <1>8
  <2>3. \A x \in S : order[Rank(x)] = x
    BY <1>1, <1>5, <1>8
  <2>4. \A x \in S : \E k \in 1 .. n : order[k] = x
    BY <1>1, <2>3
  <2>5. QED
    BY <2>1, <2>2, <2>4, Fun_IsBij
<1>10. ASSUME NEW k \in 1 .. n, NEW l \in 1 .. n, k < l PROVE age[order[k]] < age[order[l]]
  <2>1. /\ order[k] \in S /\ Rank(order[k]) = k
        /\ order[l] \in S /\ Rank(order[l]) = l
    BY <1>8
  <2>2. ~(age[order[l]] < age[order[k]])
    BY <1>0, <1>2, <1>10, <2>1
  <2>3. age[order[k]] # age[order[l]]
    BY <1>0, <1>10, <2>1
  <2>4. age[order[k]] \in Nat /\ age[order[l]] \in Nat
    BY <2>1
  <2>5. QED
    BY <2>2, <2>3, <2>4
<1>11. QED
  BY <1>0, <1>9, <1>10 DEF n, order

\* Sift keeps the entries at the places in I, and only those, in their order.
LEMMA SiftFacts ==
  ASSUME NEW T, NEW s \in Seq(T), NEW I \in SUBSET DOMAIN s
  PROVE  /\ Sift(s, I) \in Seq(T)
         /\ \E place \in [DOMAIN Sift(s, I) -> I] :
              /\ \A k \in DOMAIN Sift(s, I) : Sift(s, I)[k] = s[place[k]]
              /\ \A i \in I : \E k \in DOMAIN Sift(s, I) : place[k] = i
              /\ \A k, l \in DOMAIN Sift(s, I) : k < l <=> place[k] < place[l]
<1> DEFINE n == Cardinality(I)
           place == InOrder(I, [i \in I |-> i])
<1>1. Ages(I, [i \in I |-> i])
  <2>1. IsFiniteSet(1 .. Len(s)) /\ I \in SUBSET (1 .. Len(s))
    BY FS_Interval
  <2>2. IsFiniteSet(I) /\ I \subseteq Nat
    BY <2>1, FS_Subset
  <2>3. QED
    BY <2>2 DEF Ages
<1>2. n \in Nat /\ place \in Bijection(1 .. n, I)
  BY <1>1, InOrderFacts
<1>3. place \in [1 .. n -> I] /\ \A i \in I : \E k \in 1 .. n : place[k] = i
  BY <1>2 DEF Bijection, Injection, Surjection
<1>4. \A k, l \in 1 .. n : k < l => place[k] < place[l]
  <2>1. \A k \in 1 .. n : place[k] \in I
    BY <1>3
  <2>2. QED
    BY <1>1, <2>1, InOrderFacts
<1>5. Sift(s, I) = [k \in 1 .. n |-> s[place[k]]]
  BY <1>3 DEF Sift
<1>6. Sift(s, I) \in Seq(T) /\ DOMAIN Sift(s, I) = 1 .. n
  <2>1. \A k \in 1 .. n : s[place[k]] \in T
    BY <1>3
  <2>2. QED
    BY <1>2, <1>5, <2>1, IsASeq
<1>7. \A k, l \in 1 .. n : k < l <=> place[k] < place[l]
  <2>1. \A k \in 1 .. n : place[k] \in Nat
    BY <1>3
  <2>2. ASSUME NEW k \in 1 .. n, NEW l \in 1 .. n, place[k] < place[l] PROVE k < l
    <3>1. CASE k = l
      BY <2>1, <2>2, <3>1
    <3>2. CASE l < k
      BY <1>4, <2>1, <2>2, <3>2
    <3>3. QED
      BY <1>2, <3>1, <3>2
  <2>3. QED
    BY <1>4, <2>2
<1>8. /\ \A k \in 1 .. n : Sift(s, I)[k] = s[place[k]]
      /\ place \in [1 .. n -> I]
  BY <1>3, <1>5
<1> HIDE DEF place, n
<1>9. QED
  BY <1>3, <1>6, <1>7, <1>8
-----------------------------------------------------------------------------
(* Queues that hold each element once.                                     *)

OneEach(s) == \A i, j \in DOMAIN s : s[i] = s[j] => i = j

LEMMA OneEachCounts ==
  ASSUME NEW T, NEW s \in Seq(T)
  PROVE  OneEach(s) <=> Len(s) = Cardinality(Range(s))
<1>1. s \in [1 .. Len(s) -> T] /\ Len(s) \in Nat /\ DOMAIN s = 1 .. Len(s)
  OBVIOUS
<1>2. s \in Surjection(1 .. Len(s), Range(s))
  BY <1>1, Fun_RangeProperties
<1>3. IsFiniteSet(1 .. Len(s)) /\ Cardinality(1 .. Len(s)) = Len(s)
  <2>1. \A n \in Nat : IsFiniteSet(1 .. n) /\ Cardinality(1 .. n) = n
    BY FS_Interval
  <2>2. QED
    BY <1>1, <2>1
<1>4. Len(s) = Cardinality(Range(s)) <=> s \in Injection(1 .. Len(s), Range(s))
  BY <1>2, <1>3, FS_Surjection
<1>5. s \in [1 .. Len(s) -> Range(s)]
  BY <1>2 DEF Surjection
<1>6. QED
  BY <1>1, <1>4, <1>5 DEF OneEach, Injection, IsInjective

LEMMA UnqueueFacts ==
  ASSUME NEW T, NEW s \in Seq(T), OneEach(s), NEW c
  PROVE  /\ Unqueue(s, c) \in Seq(T) /\ OneEach(Unqueue(s, c))
         /\ Range(Unqueue(s, c)) = Range(s) \ {c}
<1> DEFINE I == {i \in DOMAIN s : s[i] # c}
           u == Unqueue(s, c)
<1>1. u = Sift(s, I) /\ I \in SUBSET DOMAIN s /\ I \subseteq Nat
  BY DEF Unqueue
<1>2. u \in Seq(T) /\ \A i \in DOMAIN s : i \in I <=> s[i] # c
  BY <1>1, SiftFacts
<1> HIDE DEF I, u
<1>3. PICK place \in [DOMAIN u -> I] :
        /\ \A k \in DOMAIN u : u[k] = s[place[k]]
        /\ \A i \in I : \E k \in DOMAIN u : place[k] = i
        /\ \A k, l \in DOMAIN u : k < l <=> place[k] < place[l]
  <2>1. I \in SUBSET DOMAIN s
    BY <1>1
  <2>2. \E place \in [DOMAIN Sift(s, I) -> I] :
          /\ \A k \in DOMAIN Sift(s, I) : Sift(s, I)[k] = s[place[k]]
          /\ \A i \in I : \E k \in DOMAIN Sift(s, I) : place[k] = i
          /\ \A k, l \in DOMAIN Sift(s, I) : k < l <=> place[k] < place[l]
    BY <2>1, SiftFacts
  <2>3. QED
    BY <1>1, <2>2
<1>4. \A k \in DOMAIN u : k \in Nat /\ place[k] \in Nat
  BY <1>1, <1>2, <1>3
<1>5. OneEach(u)
  <2>1. ASSUME NEW k \in DOMAIN u, NEW l \in DOMAIN u, u[k] = u[l] PROVE k = l
    <3>1. place[k] = place[l]
      BY <1>1, <1>3, <2>1 DEF OneEach
    <3>2. ~(k < l) /\ ~(l < k)
      BY <1>3, <1>4, <3>1
    <3>3. QED
      BY <1>4, <3>2
  <2>2. QED
    BY <2>1 DEF OneEach
<1>6. Range(u) = Range(s) \ {c}
  <2>1. ASSUME NEW x \in Range(u) PROVE x \in Range(s) \ {c}
    BY <1>1, <1>2, <1>3, <2>1 DEF Range
  <2>2. ASSUME NEW x \in Range(s) \ {c} PROVE x \in Range(u)
    <3>1. PICK i \in I : s[i] = x
      BY <1>1, <1>2, <2>2 DEF Range
    <3>2. PICK k \in DOMAIN u : place[k] = i
      BY <1>3
    <3>3. QED
      BY <1>3, <3>1, <3>2 DEF Range
  <2>3. QED
    BY <2>1, <2>2
<1>7. QED
  BY <1>2, <1>5, <1>6 DEF u

LEMMA ConcatFresh ==
  ASSUME NEW T, NEW s \in Seq(T), OneEach(s), NEW S \in SUBSET T, S \cap Range(s) = {},
         NEW n \in Nat, NEW o \in Bijection(1 .. n, S)
  PROVE  /\ s \o o \in Seq(T) /\ OneEach(s \o o) /\ Range(s \o o) = Range(s) \cup S
<1>1. o \in [1 .. n -> S] /\ \A k, l \in 1 .. n : o[k] = o[l] => k = l
  BY Fun_BijectionProperties
<1>2. Range(o) = S
  BY Fun_BijectionProperties, Fun_SurjectionProperties
<1>3. o \in Seq(T) /\ Len(o) = n
  BY <1>1
<1>4. s \o o \in Seq(T) /\ Len(s \o o) = Len(s) + n
  BY <1>3
<1>5. Range(s \o o) = Range(s) \cup S
  BY <1>2, <1>3, RangeConcatenation
<1>6. \A i \in DOMAIN (s \o o) :
        (s \o o)[i] = IF i <= Len(s) THEN s[i] ELSE o[i - Len(s)]
  BY <1>3
<1>7. ASSUME NEW i \in DOMAIN (s \o o), NEW j \in DOMAIN (s \o o), (s \o o)[i] = (s \o o)[j]
      PROVE  i = j
  <2>1. i \in 1 .. Len(s) + n /\ j \in 1 .. Len(s) + n /\ Len(s) \in Nat
    BY <1>4
  <2>2. ASSUME NEW k \in 1 .. Len(s) + n, k <= Len(s)
        PROVE  k \in DOMAIN s /\ s[k] \in Range(s)
    BY <2>1, <2>2 DEF Range
  <2>3. ASSUME NEW k \in 1 .. Len(s) + n, ~(k <= Len(s))
        PROVE  k - Len(s) \in 1 .. n /\ o[k - Len(s)] \in S
    BY <1>1, <2>1, <2>3
  <2>4. CASE i <= Len(s) /\ j <= Len(s)
    BY <1>6, <1>7, <2>1, <2>2, <2>4 DEF OneEach
  <2>5. CASE ~(i <= Len(s)) /\ ~(j <= Len(s))
    <3>1. o[i - Len(s)] = o[j - Len(s)]
      BY <1>6, <1>7, <2>5
    <3>2. i - Len(s) = j - Len(s)
      BY <1>1, <2>1, <2>3, <2>5, <3>1
    <3>3. QED
      BY <2>1, <3>2
  <2>6. CASE i <= Len(s) /\ ~(j <= Len(s))
    BY <1>6, <1>7, <2>1, <2>2, <2>3, <2>6
  <2>7. CASE ~(i <= Len(s)) /\ j <= Len(s)
    BY <1>6, <1>7, <2>1, <2>2, <2>3, <2>7
  <2>8. QED
    BY <2>4, <2>5, <2>6, <2>7
<1>8. QED
  BY <1>4, <1>5, <1>7 DEF OneEach

LEMMA AppendFresh ==
  ASSUME NEW T, NEW s \in Seq(T), OneEach(s), NEW c \in T, c \notin Range(s)
  PROVE  /\ Append(s, c) \in Seq(T) /\ OneEach(Append(s, c))
         /\ Range(Append(s, c)) = Range(s) \cup {c}
<1> DEFINE n == 1
           S == {c}
           o == <<c>>
<1>1. o \in Bijection(1 .. n, S)
  <2>1. o \in [1 .. n -> S]
    OBVIOUS
  <2>2. QED
    BY <2>1, Fun_IsBij
<1>2. Append(s, c) = s \o o
  OBVIOUS
<1>3. S \in SUBSET T /\ S \cap Range(s) = {} /\ n \in Nat
  OBVIOUS
<1> HIDE DEF n, S, o
<1>4. s \o o \in Seq(T) /\ OneEach(s \o o) /\ Range(s \o o) = Range(s) \cup S
  BY <1>1, <1>3, ConcatFresh
<1>5. QED
  BY <1>2, <1>4 DEF S

\* A finite set in some order.
LEMMA SetToSeqFacts ==
  ASSUME NEW S, IsFiniteSet(S)
  PROVE  Cardinality(S) \in Nat /\ SetToSeq(S) \in Bijection(1 .. Cardinality(S), S)
<1>1. Cardinality(S) \in Nat /\ ExistsBijection(1 .. Cardinality(S), S)
  BY FS_CardinalityType
<1>2. PICK f \in Bijection(1 .. Cardinality(S), S) : TRUE
  BY <1>1 DEF ExistsBijection
<1>3. f \in [1 .. Cardinality(S) -> S] /\ IsInjective(f)
  BY <1>2 DEF Bijection, Injection
<1>4. SetToSeq(S) \in Injection(1 .. Cardinality(S), S)
  BY <1>3 DEF SetToSeq, Injection
<1>5. SetToSeq(S) \in Surjection(1 .. Cardinality(S), S)
  BY <1>1, <1>4, FS_Injection, FS_Interval
<1>6. QED
  BY <1>1, <1>4, <1>5 DEF Bijection
-----------------------------------------------------------------------------
(* The inductive invariant.                                                *)

Queued == {c \in Campaign : turn[c] \in {"prepared", "running", "dead"}}
\* The queue holds each table with an unfinished attempt, once.
Queue(q) == q \in Seq(Campaign) /\ OneEach(q) /\ Range(q) = Queued

Entry == [table : Campaign, taken : BOOLEAN]
Untaken(log, c) == \A i \in DOMAIN log : log[i].table = c => ~log[i].taken
\* A table has a turn as long as the log holds input that a turn has taken.
Log(log) == /\ log \in Seq(Entry)
            /\ \A c \in Campaign : turn[c] = "none" <=> Untaken(log, c)

Timed == delay \in [Campaign -> Nat] /\ retries \in [Campaign -> 0 .. MaxRetries]
Framed ==
  /\ turn \in [Campaign -> TurnState]
  /\ autoRetried \in SUBSET Campaign /\ archived \in SUBSET Archivable /\ lagging \in SUBSET Laggable
  /\ due \in 0 .. Period /\ step \in SweepStep

Inv == Framed /\ Timed /\ Queue(created) /\ Log(accepted)

LEMMA InvIsTypeOK == Inv <=> TypeOK
<1>1. ASSUME created \in Seq(Campaign)
      PROVE  OneEach(created) <=> Len(created) = Cardinality(Range(created))
  BY <1>1, OneEachCounts
<1>2. QED
  BY <1>1 DEF Inv, Framed, Timed, Queue, Queued, Log, Untaken, Entry, TypeOK

LEMMA InitInv == Init => Inv
<1> SUFFICES ASSUME Init PROVE Inv
  OBVIOUS
<1> USE SweepAssumption DEF Init
<1>1. Framed /\ Timed
  BY DEF Framed, Timed, TurnState, SweepStep
<1>2. Queue(created)
  BY DEF Queue, Queued, OneEach, Range
<1>3. accepted \in Seq(Entry) /\ \A c \in Campaign : turn[c] = "none" /\ Untaken(accepted, c)
  BY DEF Untaken
<1>4. Log(accepted)
  BY <1>3 DEF Log
<1>5. QED
  BY <1>1, <1>2, <1>4 DEF Inv

LEMMA BackoffType == ASSUME NEW n \in Nat \ {0} PROVE Backoff(n) \in Nat
<1>1. IsFiniteSet(1 .. n - 1) /\ Cardinality(1 .. n - 1) = n - 1
  BY FS_Interval
<1>2. 2 ^ (n - 1) \in Nat
  BY <1>1, FS_SUBSET, FS_CardinalityType
<1>3. BackoffCap \in Nat
  BY SweepAssumption
<1>4. QED
  BY <1>2, <1>3 DEF Backoff

\* A fresh attempt is queued once, behind the others.
LEMMA PrepareStep ==
  ASSUME Inv, NEW c \in Campaign, NEW dispatched \in BOOLEAN, Prepare(c, dispatched)
  PROVE  /\ turn' \in [Campaign -> TurnState] /\ turn'[c] \in {"prepared", "running"}
         /\ \A d \in Campaign \ {c} : turn'[d] = turn[d]
         /\ Timed' /\ Queue(created)'
<1>1. /\ turn' \in [Campaign -> TurnState] /\ turn'[c] \in {"prepared", "running"}
      /\ \A d \in Campaign \ {c} : turn'[d] = turn[d]
  BY DEF Inv, Framed, Prepare, TurnState
<1>2. Timed'
  <2>1. /\ delay' = [delay EXCEPT ![c] = IF dispatched /\ c \in lagging \ archived
                                     THEN Backoff(1) ELSE 0]
        /\ retries' = [retries EXCEPT ![c] = 0]
    BY DEF Prepare
  <2>2. QED
    BY <2>1, BackoffType, SweepAssumption DEF Inv, Timed
<1>3. Queued' = Queued \cup {c}
  BY <1>1 DEF Queued
<1>4. Queue(created)'
  <2>1. /\ Unqueue(created, c) \in Seq(Campaign) /\ OneEach(Unqueue(created, c))
        /\ Range(Unqueue(created, c)) = Queued \ {c}
    BY UnqueueFacts DEF Inv, Queue
  <2>2. created' = Append(Unqueue(created, c), c)
    BY DEF Prepare
  <2>3. created' \in Seq(Campaign) /\ OneEach(created') /\ Range(created') = Queued \cup {c}
    BY <2>1, <2>2, AppendFresh
  <2>4. QED
    BY <1>3, <2>3 DEF Queue
<1>5. QED
  BY <1>1, <1>2, <1>4

\* A turn that ends or waits leaves the queue.
LEMMA UnqueueStep ==
  ASSUME Inv, NEW c \in Campaign, NEW s \in {"none", "awaiting_roll", "failed_visible"},
         turn' = [turn EXCEPT ![c] = s], created' = Unqueue(created, c)
  PROVE  turn' \in [Campaign -> TurnState] /\ Queue(created)'
<1>1. turn' \in [Campaign -> TurnState] /\ Queued' = Queued \ {c}
  BY DEF Inv, Framed, TurnState, Queued
<1>2. QED
  BY <1>1, UnqueueFacts DEF Inv, Queue

\* An attempt that changes hands keeps its place.
LEMMA QueueStays ==
  ASSUME Inv, created' = created, Queued' = Queued
  PROVE  Queue(created)'
  BY DEF Inv, Queue

LEMMA LogStays ==
  ASSUME Inv, accepted' = accepted,
         \A c \in Campaign : turn'[c] = "none" <=> turn[c] = "none"
  PROVE  Log(accepted)'
  BY DEF Inv, Log, Untaken
-----------------------------------------------------------------------------
(* The players and the executions.                                         *)

LEMMA AcceptInv ==
  ASSUME Inv, NEW c \in Campaign, Accept(c)
  PROVE  Inv'
<1> DEFINE entry == [table |-> c, taken |-> FALSE]
           log == Append(accepted, entry)
<1>1. /\ accepted \in Seq(Entry) /\ entry \in Entry
      /\ log \in Seq(Entry) /\ DOMAIN log = 1 .. Len(accepted) + 1 /\ Len(accepted) \in Nat
      /\ \A i \in DOMAIN log : log[i] = IF i <= Len(accepted) THEN accepted[i] ELSE entry
  BY DEF Inv, Log, Entry
<1> HIDE DEF log
<1>2. \A d \in Campaign \ {c} : Untaken(log, d) <=> Untaken(accepted, d)
  <2>1. DOMAIN accepted \subseteq DOMAIN log /\ \A i \in DOMAIN accepted : log[i] = accepted[i]
    BY <1>1
  <2>2. \A i \in DOMAIN log \ DOMAIN accepted : log[i].table = c
    BY <1>1
  <2>3. QED
    BY <2>1, <2>2 DEF Untaken
<1>3. CASE /\ accepted' = Cover(log, c)
           /\ \E dispatched \in BOOLEAN : Prepare(c, dispatched)
           /\ autoRetried' = IF turn[c] = "none" THEN autoRetried \ {c} ELSE autoRetried
  <2>1. /\ turn' \in [Campaign -> TurnState] /\ turn'[c] \in {"prepared", "running"}
        /\ \A d \in Campaign \ {c} : turn'[d] = turn[d]
        /\ Timed' /\ Queue(created)'
    BY <1>3, PrepareStep
  <2>2. /\ accepted' \in Seq(Entry) /\ DOMAIN accepted' = DOMAIN log
        /\ \A i \in DOMAIN log : /\ accepted'[i].table = log[i].table
                                  /\ accepted'[i].taken = (log[i].taken \/ log[i].table = c)
    <3>1. \A i \in DOMAIN log : log[i] \in Entry
      BY <1>1
    <3>2. \A e \in Entry : /\ [e EXCEPT !.taken = TRUE] \in Entry
                           /\ [e EXCEPT !.taken = TRUE].table = e.table
                           /\ [e EXCEPT !.taken = TRUE].taken = TRUE
                           /\ e.taken \in BOOLEAN
      BY DEF Entry
    <3>3. accepted' = [i \in DOMAIN log |-> IF log[i].table = c THEN [log[i] EXCEPT !.taken = TRUE] ELSE log[i]]
      BY <1>3 DEF Cover
    <3>4. \A i \in DOMAIN log : accepted'[i] \in Entry
      BY <3>1, <3>2, <3>3
    <3>5. accepted' \in [1 .. Len(accepted) + 1 -> Entry] /\ Len(accepted) + 1 \in Nat
      BY <1>1, <3>3, <3>4
    <3>6. accepted' \in Seq(Entry)
      BY <3>5
    <3>7. QED
      BY <3>1, <3>2, <3>3, <3>6
  <2>3. \A d \in Campaign \ {c} : Untaken(accepted', d) <=> Untaken(log, d)
    BY <2>2 DEF Untaken
  <2>4. ~Untaken(accepted', c)
    <3>1. Len(accepted) + 1 \in DOMAIN log /\ log[Len(accepted) + 1].table = c
      BY <1>1
    <3>2. QED
      BY <2>2, <3>1 DEF Untaken
  <2>5. Log(accepted)'
    BY <1>2, <2>1, <2>2, <2>3, <2>4 DEF Inv, Log
  <2>6. Framed'
    BY <1>3, <2>1 DEF Accept, Inv, Framed, world
  <2>7. QED
    BY <2>1, <2>5, <2>6 DEF Inv
<1>4. CASE /\ turn[c] \in {"running", "dead", "awaiting_roll"}
           /\ accepted' = log
           /\ UNCHANGED <<turn, created, delay, retries, autoRetried>>
  <2>1. ~Untaken(accepted, c)
    BY <1>4 DEF Inv, Log
  <2>2. ~Untaken(log, c)
    BY <1>1, <2>1 DEF Untaken
  <2>3. Log(accepted)'
    BY <1>1, <1>2, <1>4, <2>1, <2>2 DEF Inv, Log
  <2>4. Framed' /\ Timed' /\ Queue(created)'
    BY <1>4 DEF Accept, Inv, Framed, Timed, world, Queue, Queued
  <2>5. QED
    BY <2>3, <2>4 DEF Inv
<1>5. QED
  BY <1>3, <1>4 DEF Accept, log

LEMMA ResumeInv ==
  ASSUME Inv, NEW c \in Campaign, Resume(c)
  PROVE  Inv'
<1>1. /\ turn' \in [Campaign -> TurnState] /\ turn'[c] \in {"prepared", "running"}
      /\ \A d \in Campaign \ {c} : turn'[d] = turn[d]
      /\ Timed' /\ Queue(created)'
  BY PrepareStep DEF Resume
<1>2. Log(accepted)'
  BY <1>1, LogStays DEF Resume
<1>3. Framed'
  BY <1>1 DEF Resume, Inv, Framed, world
<1>4. QED
  BY <1>1, <1>2, <1>3 DEF Inv

LEMMA CommitInv ==
  ASSUME Inv, NEW c \in Campaign, turn[c] = "running", Commit(c),
         UNCHANGED <<autoRetried, world, due, step>>
  PROVE  Inv'
<1> DEFINE I == {i \in DOMAIN accepted : ~(accepted[i].table = c /\ accepted[i].taken)}
<1>1. turn' \in [Campaign -> TurnState] /\ Queue(created)'
  BY UnqueueStep DEF Commit
<1>2. Timed' /\ Framed'
  BY <1>1 DEF Commit, Inv, Framed, Timed, world
<1>3. I \in SUBSET DOMAIN accepted /\ accepted \in Seq(Entry) /\ accepted' = Sift(accepted, I)
  BY DEF Commit, Inv, Log
<1>4. \A i \in DOMAIN accepted : i \in I <=> ~(accepted[i].table = c /\ accepted[i].taken)
  OBVIOUS
<1> HIDE DEF I
<1>5. /\ Sift(accepted, I) \in Seq(Entry)
      /\ \E place \in [DOMAIN Sift(accepted, I) -> I] :
           /\ \A k \in DOMAIN Sift(accepted, I) : Sift(accepted, I)[k] = accepted[place[k]]
           /\ \A i \in I : \E k \in DOMAIN Sift(accepted, I) : place[k] = i
  BY <1>3, SiftFacts
<1>6. PICK place \in [DOMAIN accepted' -> I] :
        /\ \A k \in DOMAIN accepted' : accepted'[k] = accepted[place[k]]
        /\ \A i \in I : \E k \in DOMAIN accepted' : place[k] = i
  BY <1>3, <1>5
<1>7. Untaken(accepted', c)
  BY <1>3, <1>4, <1>6 DEF Untaken
<1>8. \A d \in Campaign \ {c} : Untaken(accepted', d) <=> Untaken(accepted, d)
  <2>1. SUFFICES ASSUME NEW d \in Campaign \ {c} PROVE Untaken(accepted', d) <=> Untaken(accepted, d)
    OBVIOUS
  <2>2. ASSUME Untaken(accepted, d) PROVE Untaken(accepted', d)
    BY <1>3, <1>6, <2>2 DEF Untaken
  <2>3. ASSUME Untaken(accepted', d), NEW i \in DOMAIN accepted, accepted[i].table = d
        PROVE  ~accepted[i].taken
    <3>1. i \in I
      BY <1>4, <2>1, <2>3
    <3>2. PICK k \in DOMAIN accepted' : place[k] = i
      BY <1>6, <3>1
    <3>3. QED
      BY <1>6, <2>3, <3>2 DEF Untaken
  <2>4. QED
    BY <2>2, <2>3 DEF Untaken
<1>9. turn'[c] = "none" /\ \A d \in Campaign \ {c} : turn'[d] = turn[d]
  BY DEF Commit, Inv, Framed
<1>10. Log(accepted)'
  BY <1>3, <1>5, <1>7, <1>8, <1>9 DEF Inv, Log
<1>11. QED
  BY <1>1, <1>2, <1>10 DEF Inv

LEMMA FinishInv ==
  ASSUME Inv, NEW c \in Campaign, Finish(c)
  PROVE  Inv'
<1> USE DEF world
<1>1. turn[c] = "running" /\ UNCHANGED <<autoRetried, world, due, step>>
  BY DEF Finish
<1>2. CASE Commit(c)
  BY <1>1, <1>2, CommitInv
<1>3. ASSUME NEW s \in {"awaiting_roll", "failed_visible"}, Stop(c, s) PROVE Inv'
  <2>1. turn' \in [Campaign -> TurnState] /\ Queue(created)'
    BY <1>3, UnqueueStep DEF Stop
  <2>2. Framed' /\ Timed'
    BY <1>1, <1>3, <2>1 DEF Stop, Inv, Framed, Timed
  <2>3. \A d \in Campaign : turn'[d] = "none" <=> turn[d] = "none"
    BY <1>1, <1>3 DEF Stop, Inv, Framed
  <2>4. Log(accepted)'
    BY <1>3, <2>3, LogStays DEF Stop
  <2>5. QED
    BY <2>1, <2>2, <2>4 DEF Inv
<1>4. CASE Requeue(c) \/ Die(c)
  <2>1. PICK s \in {"prepared", "dead"} : turn' = [turn EXCEPT ![c] = s]
    BY <1>4 DEF Requeue, Die
  <2>2. /\ turn' \in [Campaign -> TurnState] /\ Queued' = Queued
        /\ \A d \in Campaign : turn'[d] = "none" <=> turn[d] = "none"
    BY <1>1, <2>1 DEF Inv, Framed, TurnState, Queued
  <2>3. Timed'
    <3>1. Counted(retries[c] + 1) \in Nat \ {0} /\ Counted(retries[c] + 1) <= MaxRetries
      BY SweepAssumption DEF Inv, Timed, Counted
    <3>2. Backoff(Counted(retries[c] + 1)) \in Nat /\ Lease \in Nat
      BY <3>1, BackoffType, SweepAssumption
    <3>3. QED
      BY <1>4, <3>1, <3>2, SweepAssumption DEF Requeue, Die, Inv, Timed
  <2>4. UNCHANGED <<accepted, created>>
    BY <1>4 DEF Requeue, Die
  <2>5. Queue(created)' /\ Log(accepted)'
    BY <2>2, <2>4, QueueStays, LogStays
  <2>6. Framed'
    BY <1>1, <2>2 DEF Inv, Framed
  <2>7. QED
    BY <2>3, <2>5, <2>6 DEF Inv
<1>5. QED
  BY <1>2, <1>3, <1>4 DEF Finish
-----------------------------------------------------------------------------
(* The sweep.                                                              *)

\* Every thread has an oldest input, and it is of that thread.
LEMMA OldestInputFacts ==
  ASSUME Inv, NEW c \in Threads
  PROVE  OldestInput[c] \in DOMAIN accepted /\ accepted[OldestInput[c]].table = c
<1> DEFINE I == {i \in DOMAIN accepted : accepted[i].table = c}
           age == [i \in I |-> i]
           n == Cardinality(I)
           order == InOrder(I, age)
<1>1. DOMAIN accepted = 1 .. Len(accepted) /\ Len(accepted) \in Nat
  BY DEF Inv, Log
<1>2. \A i : i \in I <=> i \in DOMAIN accepted /\ accepted[i].table = c
  OBVIOUS
<1>3. \E i \in I : TRUE
  BY DEF Threads
<1> HIDE DEF I
<1>4. Ages(I, age)
  <2>1. \A m \in Nat : IsFiniteSet(1 .. m)
    BY FS_Interval
  <2>2. I \in SUBSET (1 .. Len(accepted)) /\ IsFiniteSet(1 .. Len(accepted))
    BY <1>1, <1>2, <2>1
  <2>3. IsFiniteSet(I)
    BY <2>2, FS_Subset
  <2>4. \A i \in I : i \in Nat
    BY <2>2
  <2>5. QED
    BY <2>3, <2>4 DEF Ages
<1>5. n \in Nat /\ order \in Bijection(1 .. n, I) /\ \A k, l \in 1 .. n : k < l => age[order[k]] < age[order[l]]
  BY <1>4, InOrderFacts
<1>6. order \in [1 .. n -> I] /\ \A i \in I : \E k \in 1 .. n : order[k] = i
  BY <1>5, Fun_BijectionProperties
<1> HIDE DEF n, order
<1>7. 1 \in 1 .. n
  BY <1>3, <1>5, <1>6
<1>8. ASSUME NEW i \in I PROVE order[1] <= i
  <2>1. PICK k \in 1 .. n : order[k] = i
    BY <1>6
  <2>2. \A j \in 1 .. n : order[j] \in I /\ order[j] \in Nat
    BY <1>1, <1>2, <1>6
  <2>3. CASE k = 1
    BY <1>7, <2>1, <2>2, <2>3
  <2>4. CASE 1 < k
    <3>1. age[order[1]] < age[order[k]]
      BY <1>5, <1>7, <2>4
    <3>2. QED
      BY <1>7, <2>1, <2>2, <3>1
  <2>5. QED
    BY <1>5, <2>3, <2>4
<1>9. order[1] \in DOMAIN accepted /\ accepted[order[1]].table = c
  BY <1>2, <1>6, <1>7
<1>10. ASSUME NEW j \in 1 .. order[1] - 1 PROVE accepted[j].table # c
  <2>1. j \in DOMAIN accepted /\ j < order[1]
    BY <1>1, <1>9
  <2>2. j \notin I
    BY <1>1, <1>8, <1>9, <2>1
  <2>3. QED
    BY <1>2, <2>1, <2>2
<1>11. \E i \in DOMAIN accepted : accepted[i].table = c /\ \A j \in 1 .. i - 1 : accepted[j].table # c
  BY <1>9, <1>10
<1>12. QED
  BY <1>11 DEF OldestInput

LEMMA StrandedFacts ==
  ASSUME Inv
  PROVE  /\ Stranded \in SUBSET Campaign /\ Ages(Stranded, OldestInput)
         /\ \A c \in Stranded :
              turn[c] = "none" /\ \E i \in DOMAIN accepted : accepted[i].table = c
<1>1. Stranded \subseteq Threads /\ \A c \in Stranded : turn[c] = "none"
  BY DEF Stranded, Oldest, Idle
<1>2. Threads \subseteq Campaign
  <2>1. \A i \in DOMAIN accepted : accepted[i] \in Entry
    BY DEF Inv, Log
  <2>2. QED
    BY <2>1 DEF Threads, Entry
<1>3. IsFiniteSet(Stranded)
  BY <1>1, <1>2, SweepAssumption, FS_Subset
<1>4. \A c \in Threads : OldestInput[c] \in Nat
  BY OldestInputFacts DEF Inv, Log
<1>5. Ages(Stranded, OldestInput)
  BY <1>1, <1>3, <1>4, OldestInputFacts DEF Ages
<1>6. QED
  BY <1>1, <1>2, <1>5, OldestInputFacts

LEMMA CoordinateInv ==
  ASSUME Inv, CoordinateStranded
  PROVE  Inv'
<1> DEFINE found == Stranded
<1>0. /\ turn' = [c \in Campaign |-> IF c \in found THEN "prepared" ELSE turn[c]]
      /\ delay' = [c \in Campaign |-> IF c \in found THEN 0 ELSE delay[c]]
      /\ retries' = [c \in Campaign |-> IF c \in found THEN 0 ELSE retries[c]]
      /\ created' = created \o InOrder(found, OldestInput)
      /\ accepted' = [i \in DOMAIN accepted |->
                        IF accepted[i].table \in found THEN [accepted[i] EXCEPT !.taken = TRUE]
                        ELSE accepted[i]]
      /\ autoRetried' = autoRetried \ found
      /\ UNCHANGED <<world, due>> /\ step' = "retry"
  BY DEF CoordinateStranded
<1>1. /\ found \in SUBSET Campaign /\ Ages(found, OldestInput)
      /\ \A c \in found : turn[c] = "none" /\ \E i \in DOMAIN accepted : accepted[i].table = c
  BY StrandedFacts
<1> HIDE DEF found
<1>2. Framed' /\ Timed'
  <2>1. /\ turn' \in [Campaign -> TurnState] /\ delay' \in [Campaign -> Nat]
        /\ retries' \in [Campaign -> 0 .. MaxRetries]
    BY <1>0, <1>1, SweepAssumption DEF Inv, Framed, Timed, TurnState
  <2>2. autoRetried' \in SUBSET Campaign /\ step' \in SweepStep
    BY <1>0 DEF Inv, Framed, SweepStep
  <2>3. archived' = archived /\ lagging' = lagging /\ due' = due
    BY <1>0 DEF world
  <2>4. QED
    BY <2>1, <2>2, <2>3 DEF Inv, Framed, Timed
<1>3. Queue(created)'
  <2>1. Queued' = Queued \cup found /\ found \cap Queued = {}
    BY <1>0, <1>1 DEF Queued
  <2>2. /\ Cardinality(found) \in Nat
        /\ InOrder(found, OldestInput) \in Bijection(1 .. Cardinality(found), found)
    BY <1>1, InOrderFacts
  <2>3. created' \in Seq(Campaign) /\ OneEach(created') /\ Range(created') = Queued \cup found
    <3>1. /\ created \in Seq(Campaign) /\ OneEach(created) /\ Range(created) = Queued
          /\ found \in SUBSET Campaign /\ found \cap Range(created) = {}
      BY <1>1, <2>1 DEF Inv, Queue
    <3>2. created' = created \o InOrder(found, OldestInput)
      BY <1>0
    <3>3. QED
      BY <2>1, <2>2, <3>1, <3>2, ConcatFresh
  <2>4. QED
    BY <2>1, <2>3 DEF Queue
<1>4. /\ accepted' \in Seq(Entry) /\ DOMAIN accepted' = DOMAIN accepted
      /\ \A i \in DOMAIN accepted :
           /\ accepted'[i].table = accepted[i].table
           /\ accepted'[i].taken = (accepted[i].taken \/ accepted[i].table \in found)
  <2>1. accepted \in Seq(Entry) /\ \A i \in DOMAIN accepted : accepted[i] \in Entry
    BY DEF Inv, Log
  <2>2. \A e \in Entry : /\ [e EXCEPT !.taken = TRUE] \in Entry
                         /\ [e EXCEPT !.taken = TRUE].table = e.table
                         /\ [e EXCEPT !.taken = TRUE].taken = TRUE
                         /\ e.taken \in BOOLEAN
    BY DEF Entry
  <2>3. accepted' \in [1 .. Len(accepted) -> Entry] /\ Len(accepted) \in Nat
    BY <1>0, <2>1, <2>2
  <2>4. accepted' \in Seq(Entry)
    BY <2>3
  <2>5. QED
    BY <1>0, <2>1, <2>2, <2>4
<1>5. Log(accepted)'
  <2>1. ASSUME NEW c \in Campaign PROVE turn'[c] = "none" <=> Untaken(accepted', c)
    <3>1. turn[c] = "none" <=> Untaken(accepted, c)
      BY DEF Inv, Log
    <3>2. CASE c \in found
      <4>1. turn'[c] # "none"
        BY <1>0, <3>2
      <4>2. ~Untaken(accepted', c)
        <5>1. PICK i \in DOMAIN accepted : accepted[i].table = c
          BY <1>1, <3>2
        <5>2. accepted'[i].table = c /\ accepted'[i].taken
          BY <1>4, <3>2, <5>1
        <5>3. QED
          BY <1>4, <5>2 DEF Untaken
      <4>3. QED
        BY <4>1, <4>2
    <3>3. CASE c \notin found
      <4>1. turn'[c] = turn[c]
        BY <1>0, <3>3
      <4>2. Untaken(accepted', c) <=> Untaken(accepted, c)
        BY <1>4, <3>3 DEF Untaken
      <4>3. QED
        BY <3>1, <4>1, <4>2
    <3>4. QED
      BY <3>2, <3>3
  <2>2. QED
    BY <1>4, <2>1 DEF Log
<1>6. QED
  BY <1>2, <1>3, <1>5 DEF Inv

LEMMA AutoRetryInv ==
  ASSUME Inv, AutoRetry
  PROVE  Inv'
<1>1. PICK chosen \in SUBSET {c \in Campaign : turn[c] = "failed_visible" /\ c \notin autoRetried} :
        /\ turn' = [c \in Campaign |-> IF c \in chosen THEN "prepared" ELSE turn[c]]
        /\ delay' = [c \in Campaign |-> IF c \in chosen THEN 0 ELSE delay[c]]
        /\ retries' = [c \in Campaign |-> IF c \in chosen THEN 0 ELSE retries[c]]
        /\ created' = created \o SetToSeq(chosen)
        /\ autoRetried' = autoRetried \cup chosen
  BY DEF AutoRetry
<1>2. UNCHANGED <<accepted, archived, lagging, due>> /\ step' = "execute"
  BY DEF AutoRetry, world
<1>3. chosen \in SUBSET Campaign /\ \A c \in chosen : turn[c] = "failed_visible"
  OBVIOUS
<1>4. Framed' /\ Timed'
  <2>1. /\ turn' \in [Campaign -> TurnState] /\ delay' \in [Campaign -> Nat]
        /\ retries' \in [Campaign -> 0 .. MaxRetries]
    BY <1>1, <1>3, SweepAssumption DEF Inv, Framed, Timed, TurnState
  <2>2. autoRetried' \in SUBSET Campaign /\ step' \in SweepStep
    BY <1>1, <1>2, <1>3 DEF Inv, Framed, SweepStep
  <2>3. QED
    BY <1>2, <2>1, <2>2 DEF Inv, Framed, Timed
<1>5. Queue(created)'
  <2>1. Queued' = Queued \cup chosen /\ chosen \cap Queued = {}
    BY <1>1, <1>3 DEF Queued
  <2>2. /\ Cardinality(chosen) \in Nat
        /\ SetToSeq(chosen) \in Bijection(1 .. Cardinality(chosen), chosen)
    BY <1>3, SweepAssumption, FS_Subset, SetToSeqFacts
  <2>3. created' \in Seq(Campaign) /\ OneEach(created') /\ Range(created') = Queued \cup chosen
    <3>1. /\ created \in Seq(Campaign) /\ OneEach(created) /\ Range(created) = Queued
          /\ chosen \in SUBSET Campaign /\ chosen \cap Range(created) = {}
      BY <1>3, <2>1 DEF Inv, Queue
    <3>2. created' = created \o SetToSeq(chosen)
      BY <1>1
    <3>3. QED
      BY <2>1, <2>2, <3>1, <3>2, ConcatFresh
  <2>4. QED
    BY <2>1, <2>3 DEF Queue
<1>6. \A c \in Campaign : turn'[c] = "none" <=> turn[c] = "none"
  BY <1>1, <1>3
<1>7. Log(accepted)'
  BY <1>2, <1>6, LogStays
<1>8. QED
  BY <1>4, <1>5, <1>7 DEF Inv

LEMMA RecoverInv ==
  ASSUME Inv, RecoverStuck
  PROVE  Inv'
<1>1. \A c \in Campaign : turn'[c] = turn[c] \/ (turn[c] = "dead" /\ turn'[c] = "prepared")
  BY DEF RecoverStuck
<1>2. Queued' = Queued /\ \A c \in Campaign : turn'[c] = "none" <=> turn[c] = "none"
  BY <1>1 DEF Queued
<1>3. Queue(created)' /\ Log(accepted)'
  BY <1>2, QueueStays, LogStays DEF RecoverStuck
<1>4. Framed' /\ Timed'
  BY DEF RecoverStuck, Inv, Framed, Timed, world, TurnState, SweepStep
<1>5. QED
  BY <1>3, <1>4 DEF Inv

LEMMA ExecuteInv ==
  ASSUME Inv, ExecutePrepared
  PROVE  Inv'
<1> DEFINE C == FindPreparedAttempts
<1>1. \A c \in C : c \in Campaign => turn[c] = "prepared"
  BY DEF FindPreparedAttempts, Oldest, Eligible
<1>2. Claim(C) /\ step' = "rest" /\ due' = Period /\ UNCHANGED <<created, accepted, retries, autoRetried, world>>
  BY DEF ExecutePrepared
<1> HIDE DEF C
<1>3. \A c \in Campaign : turn'[c] = turn[c] \/ (turn[c] = "prepared" /\ turn'[c] = "running")
  BY <1>1, <1>2 DEF Claim
<1>4. Queued' = Queued /\ \A c \in Campaign : turn'[c] = "none" <=> turn[c] = "none"
  BY <1>3 DEF Queued
<1>5. Queue(created)' /\ Log(accepted)'
  BY <1>2, <1>4, QueueStays, LogStays
<1>6. Timed'
  <2>1. \A c \in Campaign : Backoff(retries[c] + 1) \in Nat
    BY BackoffType, SweepAssumption DEF Inv, Timed
  <2>2. QED
    BY <1>2, <2>1 DEF Claim, Inv, Timed
<1>7. Framed'
  BY <1>2, SweepAssumption DEF Claim, Inv, Framed, world, TurnState, SweepStep
<1>8. QED
  BY <1>5, <1>6, <1>7 DEF Inv

LEMMA AroundInv ==
  ASSUME Inv,
         \/ SweepBegins \/ Tick
         \/ \E c \in Archivable : Archive(c) \/ Restore(c)
         \/ \E c \in Laggable : FallBehind(c) \/ CatchUp(c)
  PROVE  Inv'
<1> USE DEF SweepBegins, Tick, Archive, Restore, FallBehind, CatchUp, tables
<1>1. UNCHANGED <<turn, created, accepted, retries, autoRetried>>
  OBVIOUS
<1>2. Queue(created)' /\ Log(accepted)'
  BY <1>1, QueueStays, LogStays DEF Queued
<1>3. Timed'
  BY DEF Inv, Timed
<1>4. Framed'
  BY SweepAssumption DEF Inv, Framed, world, SweepStep
<1>5. QED
  BY <1>2, <1>3, <1>4 DEF Inv

LEMMA InvStep == Inv /\ [Next]_vars => Inv'
<1> SUFFICES ASSUME Inv, [Next]_vars PROVE Inv'
  OBVIOUS
<1>1. CASE UNCHANGED vars
  BY <1>1 DEF vars, tables, world, Inv, Framed, Timed, Queue, Queued, Log
<1>2. CASE Sweep \/ Tick
  BY <1>2, AroundInv, RecoverInv, CoordinateInv, AutoRetryInv, ExecuteInv DEF Sweep
<1>3. CASE \E c \in Campaign : Accept(c) \/ Resume(c) \/ Finish(c)
  BY <1>3, AcceptInv, ResumeInv, FinishInv
<1>4. CASE \/ \E c \in Archivable : Archive(c) \/ Restore(c)
           \/ \E c \in Laggable : FallBehind(c) \/ CatchUp(c)
  BY <1>4, AroundInv
<1>5. QED
  BY <1>1, <1>2, <1>3, <1>4 DEF Next

\* The queue of the sweep and the log of accepted input fit the turns, for any
\* tables and however executions end, tables go dormant or fall behind.
THEOREM QueueFitsTurns == Spec => []TypeOK
<1>1. Spec => []Inv
  BY InitInv, InvStep, PTL DEF Spec
<1>2. QED
  BY <1>1, InvIsTypeOK, PTL
-----------------------------------------------------------------------------
(* First come, first served.                                               *)

Precedes(q, d, c) == \E i, j \in DOMAIN q : i < j /\ q[i] = d /\ q[j] = c

\* The players of c have just written.
OwnInput(c) ==
  Len(accepted') = Len(accepted) + 1 /\ accepted'[Len(accepted')].table = c

\* No table gets in before an attempt that waits in the queue, unless its own
\* players write, which supersedes it: neither retries nor fresh turns of the
\* others, nor their failures, ever put it back (find_prepared_attempts).
KeepsItsPlace(c) == {d \in Campaign : Precedes(created, d, c)}'
                      \subseteq {d \in Campaign : Precedes(created, d, c)}
NobodyPushesIn ==
  [][\A c \in Queued : OwnInput(c) \/ c \notin Queued' \/ KeepsItsPlace(c)]_vars

LEMMA UnqueuePrecedes ==
  ASSUME NEW T, NEW s \in Seq(T), NEW e, NEW c, NEW d, Precedes(Unqueue(s, e), d, c)
  PROVE  Precedes(s, d, c)
<1> DEFINE I == {i \in DOMAIN s : s[i] # e}
<1>1. Unqueue(s, e) = Sift(s, I) /\ I \in SUBSET DOMAIN s
  BY DEF Unqueue
<1> HIDE DEF I
<1>2. PICK place \in [DOMAIN Sift(s, I) -> I] :
        /\ \A k \in DOMAIN Sift(s, I) : Sift(s, I)[k] = s[place[k]]
        /\ \A k, l \in DOMAIN Sift(s, I) : k < l <=> place[k] < place[l]
  BY <1>1, SiftFacts
<1>3. PICK k, l \in DOMAIN Sift(s, I) : k < l /\ Sift(s, I)[k] = d /\ Sift(s, I)[l] = c
  BY <1>1 DEF Precedes
<1>4. place[k] \in DOMAIN s /\ place[l] \in DOMAIN s /\ place[k] < place[l]
  BY <1>1, <1>2, <1>3
<1>5. QED
  BY <1>2, <1>3, <1>4 DEF Precedes

LEMMA ConcatPrecedes ==
  ASSUME NEW T, NEW s \in Seq(T), NEW o \in Seq(T), OneEach(s \o o),
         NEW c \in Range(s), NEW d, Precedes(s \o o, d, c)
  PROVE  Precedes(s, d, c)
<1>1. /\ DOMAIN s = 1 .. Len(s) /\ Len(s) \in Nat /\ DOMAIN s \subseteq DOMAIN (s \o o)
      /\ \A i \in DOMAIN s : (s \o o)[i] = s[i]
      /\ \A i \in DOMAIN (s \o o) : i \in Nat \ {0}
  OBVIOUS
<1>2. PICK m \in DOMAIN s : s[m] = c
  BY DEF Range
<1>3. PICK i, j \in DOMAIN (s \o o) : i < j /\ (s \o o)[i] = d /\ (s \o o)[j] = c
  BY DEF Precedes
<1>4. j = m
  BY <1>1, <1>2, <1>3 DEF OneEach
<1>5. i \in DOMAIN s
  BY <1>1, <1>3, <1>4
<1>6. QED
  BY <1>1, <1>2, <1>3, <1>4, <1>5 DEF Precedes

\* The steps, by what they do to the queue.
Keeps == created' = created
Leaves == \E c \in Campaign : created' = Unqueue(created, c)
Joins == \E o \in Seq(Campaign) : created' = created \o o
Renews(c) == /\ created' = Append(Unqueue(created, c), c)
             /\ OwnInput(c) \/ c \notin Queued

LEMMA QueueSteps ==
  ASSUME Inv, [Next]_vars
  PROVE  Keeps \/ Leaves \/ Joins \/ \E c \in Campaign : Renews(c)
<1>1. CASE UNCHANGED vars
  BY <1>1 DEF vars, tables, Keeps
<1>2. CASE SweepBegins \/ RecoverStuck \/ ExecutePrepared \/ Tick
  BY <1>2 DEF SweepBegins, RecoverStuck, ExecutePrepared, Tick, tables, Keeps
<1>3. CASE CoordinateStranded
  <2>1. /\ Stranded \in SUBSET Campaign /\ Cardinality(Stranded) \in Nat
        /\ InOrder(Stranded, OldestInput) \in [1 .. Cardinality(Stranded) -> Stranded]
    BY StrandedFacts, InOrderFacts, Fun_BijectionProperties
  <2>2. InOrder(Stranded, OldestInput) \in Seq(Campaign)
    BY <2>1
  <2>3. QED
    BY <1>3, <2>2 DEF CoordinateStranded, Joins
<1>4. CASE AutoRetry
  <2>1. PICK chosen \in SUBSET Campaign : created' = created \o SetToSeq(chosen)
    BY <1>4 DEF AutoRetry
  <2>2. /\ Cardinality(chosen) \in Nat
        /\ SetToSeq(chosen) \in [1 .. Cardinality(chosen) -> chosen]
    BY SweepAssumption, FS_Subset, SetToSeqFacts, Fun_BijectionProperties
  <2>3. SetToSeq(chosen) \in Seq(Campaign)
    BY <2>2
  <2>4. QED
    BY <2>1, <2>3 DEF Joins
<1>5. ASSUME NEW c \in Campaign, Accept(c) PROVE Keeps \/ Renews(c)
  <2>1. CASE UNCHANGED created
    BY <2>1 DEF Keeps
  <2>2. CASE /\ accepted' = Cover(Append(accepted, [table |-> c, taken |-> FALSE]), c)
             /\ \E dispatched \in BOOLEAN : Prepare(c, dispatched)
    <3>1. created' = Append(Unqueue(created, c), c)
      BY <2>2 DEF Prepare
    <3>2. PICK entry \in Entry : entry = [table |-> c, taken |-> FALSE]
      BY DEF Entry
    <3> DEFINE log == Append(accepted, entry)
    <3>3. /\ log \in Seq(Entry)
          /\ Len(log) = Len(accepted) + 1 /\ Len(accepted) \in Nat
          /\ log[Len(log)] = entry /\ entry.table = c
          /\ accepted' = Cover(log, c)
      BY <2>2, <3>2 DEF Inv, Log
    <3> HIDE DEF log
    <3>4. accepted' = [i \in 1 .. Len(log) |->
                         IF log[i].table = c THEN [log[i] EXCEPT !.taken = TRUE] ELSE log[i]]
      BY <3>3 DEF Cover
    <3>5. Len(log) \in 1 .. Len(log) /\ Len(log) \in Nat
      BY <3>3
    <3>6. Len(accepted') = Len(log)
      BY <3>4, <3>5
    <3>7. accepted'[Len(log)].table = c
      <4>1. accepted'[Len(log)] = [entry EXCEPT !.taken = TRUE]
        BY <3>3, <3>4, <3>5
      <4>2. QED
        BY <3>3, <4>1 DEF Entry
    <3>8. QED
      BY <3>1, <3>3, <3>6, <3>7 DEF Renews, OwnInput
  <2>3. QED
    BY <1>5, <2>1, <2>2 DEF Accept
<1>6. ASSUME NEW c \in Campaign, Resume(c) PROVE Renews(c)
  BY <1>6 DEF Resume, Prepare, Renews, Queued
<1>7. ASSUME NEW c \in Campaign, Finish(c) PROVE Keeps \/ Leaves
  BY <1>7 DEF Finish, Commit, Stop, Requeue, Die, Keeps, Leaves
<1>8. CASE \/ \E c \in Archivable : Archive(c) \/ Restore(c)
           \/ \E c \in Laggable : FallBehind(c) \/ CatchUp(c)
  BY <1>8 DEF Archive, Restore, FallBehind, CatchUp, tables, Keeps
<1>9. QED
  BY <1>1, <1>2, <1>3, <1>4, <1>5, <1>6, <1>7, <1>8 DEF Next, Sweep

LEMMA OrderStep ==
  ASSUME Inv, Inv', Keeps \/ Leaves \/ Joins \/ (\E e \in Campaign : Renews(e)),
         NEW c \in Queued, ~OwnInput(c), c \in Queued', NEW d, Precedes(created, d, c)'
  PROVE  Precedes(created, d, c)
<1>1. /\ created \in Seq(Campaign) /\ OneEach(created) /\ c \in Range(created)
      /\ created' \in Seq(Campaign) /\ OneEach(created')
  BY DEF Inv, Queue
<1>2. CASE Keeps
  BY <1>2 DEF Keeps, Precedes
<1>3. CASE Leaves
  BY <1>1, <1>3, UnqueuePrecedes DEF Leaves
<1>4. CASE Joins
  BY <1>1, <1>4, ConcatPrecedes DEF Joins
<1>5. ASSUME NEW e \in Campaign, Renews(e) PROVE Precedes(created, d, c)
  <2> DEFINE u == Unqueue(created, e)
             o == <<e>>
  <2>1. c # e
    BY <1>5 DEF Renews
  <2>2. u \in Seq(Campaign) /\ c \in Range(u) /\ o \in Seq(Campaign)
    BY <1>1, <2>1, UnqueueFacts
  <2>3. created' = u \o o
    BY <1>5, <2>2 DEF Renews
  <2> HIDE DEF u, o
  <2>4. Precedes(u, d, c)
    BY <1>1, <2>2, <2>3, ConcatPrecedes
  <2>5. QED
    BY <1>1, <2>4, UnqueuePrecedes DEF u
<1>6. QED
  BY <1>2, <1>3, <1>4, <1>5

\* Nobody pushes in, for any tables, limits and bounds.
THEOREM FirstComeFirstServed == Spec => NobodyPushesIn
<1> DEFINE Fair == \A c \in Queued : OwnInput(c) \/ c \notin Queued' \/ KeepsItsPlace(c)
<1>1. Inv /\ [Next]_vars => Fair
  BY InvStep, QueueSteps, OrderStep DEF KeepsItsPlace
<1>2. Inv /\ [Next]_vars => [Fair]_vars
  BY <1>1
<1>3. Spec => [][Fair]_vars
  BY InitInv, InvStep, <1>2, PTL DEF Spec
<1>4. QED
  BY <1>3 DEF NobodyPushesIn
====
