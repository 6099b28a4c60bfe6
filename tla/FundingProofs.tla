--------------------------- MODULE FundingProofs ---------------------------
(***************************************************************************)
(* Proofs about Funding for any operations, keys, servers and upsets.       *)
(***************************************************************************)
EXTENDS Funding, TLAPS

USE FundingAssumption

-----------------------------------------------------------------------------
\* A request that opens a checkout, and one that works on an operation on record.
Opening(p) == at[p] # "rest" /\ work[p].kind = "create"
Judging(p) == at[p] # "rest" /\ work[p].kind # "create"
Opened(o) == \E p \in Server : Opening(p) /\ work[p].op = o
Claimed(o) == row[o] # "none" \/ Opened(o)

\* An operation may be closed without a credit: a failure signal said so or its
\* session can never be paid.
Closed(o) == FailureTold(o) \/ session[o] \in {"expired", "canceled"}

\* An event tells the truth for ever, about a checkout that has been opened.
Sound(e) ==
  /\ e.kind \in {"completed", "succeeded", "refund"} => session[e.op] = "paid"
  /\ e.kind # "refund" => e.moved = {}
  /\ e.moved \subseteq refunded /\ \A r \in e.moved : r[1] = e.op
  /\ keyOf[e.op] # NoKey /\ ~Opened(e.op)
Truthful == \A e \in events : Sound(e)

\* What a request has read may be out of date, but not wrong about what is final.
Read(p) ==
  /\ work[p] \in events \/ (work[p] \in {Poll(o) : o \in Op} /\ seen[p] = "pending")
  /\ seen[p] = "none" <=> row[work[p].op] = "none"
  /\ seen[p] = "confirmed" => work[p].op \in credits
  /\ seen[p] \in {"failed", "canceled"} => Closed(work[p].op)
  /\ found[p] \in {"paid", "expired", "canceled"} => session[work[p].op] = found[p]
  /\ at[p] = "looked" /\ work[p].kind = "refund" => found[p] = "paid"
Reading == \A p \in Server : Judging(p) => Read(p)

\* A checkout is opened once, by one request, and for a key nobody else holds.
Minting ==
  /\ \A p \in Server : at[p] = "rest" => work[p] = Idle
  /\ \A p \in Server : Opening(p) =>
       /\ work[p] \in {Create(o) : o \in Op} /\ keyOf[work[p].op] # NoKey
       /\ row[work[p].op] = "none"
       /\ session[work[p].op] = IF at[p] = "read" THEN "none" ELSE "open"
  /\ \A p, q \in Server : Opening(p) /\ Opening(q) /\ work[p].op = work[q].op => p = q
  /\ \A o, other \in Op : Claimed(o) /\ Claimed(other) /\ keyOf[o] = keyOf[other] => o = other

\* A row stands for an opened checkout, and says why it is closed.
Recorded ==
  /\ \A o \in Op : keyOf[o] = NoKey => session[o] = "none"
  /\ \A o \in Op : row[o] # "none" => keyOf[o] # NoKey
  /\ \A o \in Op : row[o] \in {"failed", "canceled"} => Closed(o)
  /\ \A o \in handed : row[o] # "none"

\* Nobody has looked who has not asked.
Fallow == \A p \in Server : at[p] # "looked" => found[p] = "none"

Inv == TypeOK /\ Fallow /\ Truthful /\ Reading /\ Minting /\ Recorded /\ LedgerBacked /\ AnsweredIsApplied

-----------------------------------------------------------------------------
(* What every step does.                                                   *)

\* What is final stays so.
Grows ==
  /\ \A o \in Op : row[o] # "none" => row'[o] # "none"
  /\ \A o \in Op : row[o] = "none" /\ keyOf[o] # NoKey /\ ~Opened(o) => row'[o] = "none"
  /\ \A o \in Op : keyOf[o] # NoKey => keyOf'[o] = keyOf[o] /\ (Opened(o)' => Opened(o))
  /\ \A o \in Op : session[o] \in {"paid", "expired", "canceled"} => session'[o] = session[o]
  /\ receipts \subseteq receipts' /\ credits \subseteq credits'
  /\ mirrored \subseteq mirrored' /\ refunded \subseteq refunded' /\ events \subseteq events'

Answered(e) ==
  \/ row[e.op] = "none" \/ FailureTold(e.op)
  \/ e.op \in credits /\ e.moved \subseteq mirrored
  \/ e.kind = "completed_unpaid"

SameRequest(p) == at'[p] = at[p] /\ work'[p] = work[p] /\ seen'[p] = seen[p] /\ found'[p] = found[p]

\* What is new is as the invariant says.
Step ==
  /\ TypeOK' /\ Grows /\ Minting' /\ Fallow'
  /\ \A e \in events' : e \in events \/ Sound(e)'
  /\ \A p \in Server : Judging(p)' => SameRequest(p) \/ Read(p)'
  /\ \A e \in receipts' : e \in receipts \/ Answered(e)'
  /\ \A o \in Op : keyOf'[o] = NoKey => keyOf[o] = NoKey /\ session'[o] = session[o]
  /\ \A o \in Op : row'[o] # "none" => row[o] # "none" \/ keyOf'[o] # NoKey
  /\ \A o \in Op : row'[o] \in {"failed", "canceled"} => row'[o] = row[o] \/ Closed(o)'
  /\ \A o \in handed' : o \in handed \/ row'[o] # "none"
  /\ \A o \in credits' : o \in credits \/ session'[o] = "paid"
  /\ \A r \in mirrored' : r \in mirrored \/ (r \in refunded' /\ r[1] \in credits')
  /\ \A o \in Op : row'[o] = "confirmed" => row[o] = "confirmed" \/ o \in credits'

LEMMA EventElement ==
  ASSUME NEW e \in Event
  PROVE  e.kind \in EventKind /\ e.op \in Op /\ e.moved \subseteq Refund
BY DEF Event

LEMMA EventsTyped ==
  ASSUME TypeOK
  PROVE  events \subseteq Event /\ receipts \subseteq Event
BY DEF TypeOK

LEMMA ToldStays ==
  ASSUME Grows, NEW o
  PROVE  FailureTold(o) => FailureTold(o)'
BY DEF Grows, FailureTold

LEMMA ClosedStays ==
  ASSUME Grows, NEW o \in Op, Closed(o)
  PROVE  Closed(o)'
BY ToldStays DEF Grows, Closed

LEMMA ReadOp ==
  ASSUME TypeOK, NEW p \in Server, Read(p)
  PROVE  work[p].op \in Op
<1>1. CASE work[p] \in events
  BY <1>1, EventsTyped, EventElement
<1>2. CASE work[p] \in {Poll(o) : o \in Op}
  BY <1>2 DEF Poll
<1>3. QED
  BY <1>1, <1>2 DEF Read

LEMMA SoundStays ==
  ASSUME Inv, TypeOK', Grows, NEW e \in events
  PROVE  Sound(e)'
<1>1. e.op \in Op /\ Sound(e)
  BY EventsTyped, EventElement DEF Inv, Truthful
<1>2. keyOf'[e.op] # NoKey /\ ~Opened(e.op)'
  BY <1>1 DEF Grows, Sound
<1>3. e.kind \in {"completed", "succeeded", "refund"} => session'[e.op] = "paid"
  BY <1>1 DEF Grows, Sound
<1>4. e.moved \subseteq refunded'
  BY <1>1 DEF Grows, Sound
<1>5. QED
  BY <1>1, <1>2, <1>3, <1>4 DEF Sound

\* The row of an operation that events tell of is there or never will be.
LEMMA NoneStays ==
  ASSUME Inv, Grows, NEW e \in events, row[e.op] = "none"
  PROVE  row'[e.op] = "none"
BY EventsTyped, EventElement DEF Inv, Truthful, Sound, Grows

LEMMA ReadStays ==
  ASSUME Inv, Grows, NEW p \in Server, Read(p), SameRequest(p)
  PROVE  Read(p)'
<1> DEFINE o == work[p].op
<1>1. o \in Op /\ work'[p] = work[p] /\ seen'[p] = seen[p] /\ found'[p] = found[p] /\ at'[p] = at[p]
  BY ReadOp DEF Inv, SameRequest
<1>2. work'[p] \in events' \/ (work'[p] \in {Poll(x) : x \in Op} /\ seen'[p] = "pending")
  BY <1>1 DEF Read, Grows
<1>3. seen'[p] = "none" <=> row'[o] = "none"
  <2>1. CASE row[o] # "none"
    BY <1>1, <2>1 DEF Read, Grows
  <2>2. CASE row[o] = "none"
    <3>1. seen[p] = "none" /\ work[p] \in events
      BY <2>2 DEF Read
    <3>2. QED
      BY <1>1, <2>2, <3>1, NoneStays
  <2>3. QED
    BY <2>1, <2>2
<1>4. seen'[p] = "confirmed" => o \in credits'
  BY <1>1 DEF Read, Grows
<1>5. seen'[p] \in {"failed", "canceled"} => Closed(o)'
  BY <1>1, ClosedStays DEF Read
<1>6. found'[p] \in {"paid", "expired", "canceled"} => session'[o] = found'[p]
  BY <1>1 DEF Read, Grows
<1>7. at'[p] = "looked" /\ work'[p].kind = "refund" => found'[p] = "paid"
  BY <1>1 DEF Read
<1>8. Closed(work[p].op)' <=> Closed(o)'
  BY <1>1 DEF Closed, FailureTold
<1>9. QED
  BY <1>1, <1>2, <1>3, <1>4, <1>5, <1>6, <1>7, <1>8 DEF Read

LEMMA AnsweredStays ==
  ASSUME Inv, Grows, NEW e \in receipts
  PROVE  Answered(e)'
<1>1. e \in events /\ Answered(e)
  BY DEF Inv, AnsweredIsApplied, Answered, TypeOK
<1>2. CASE row[e.op] = "none"
  BY <1>1, <1>2, NoneStays DEF Answered
<1>3. CASE FailureTold(e.op)
  BY <1>3, ToldStays DEF Answered
<1>4. CASE (e.op \in credits /\ e.moved \subseteq mirrored) \/ e.kind = "completed_unpaid"
  BY <1>4 DEF Answered, Grows
<1>5. QED
  BY <1>1, <1>2, <1>3, <1>4 DEF Answered

LEMMA StepInv == Inv /\ Step => Inv'
<1> SUFFICES ASSUME Inv, Step PROVE Inv'
  OBVIOUS
<1>1. TypeOK' /\ Grows /\ Minting' /\ Fallow'
  BY DEF Step
<1>2. Truthful'
  <2>1. SUFFICES ASSUME NEW e \in events' PROVE Sound(e)'
    BY DEF Truthful
  <2>2. QED
    BY <1>1, <2>1, SoundStays DEF Step
<1>3. Reading'
  <2>1. SUFFICES ASSUME NEW p \in Server, Judging(p)' PROVE Read(p)'
    BY DEF Reading
  <2>2. CASE SameRequest(p)
    <3>1. Judging(p)
      BY <2>1, <2>2 DEF Judging, SameRequest
    <3>2. QED
      BY <1>1, <2>2, <3>1, ReadStays DEF Inv, Reading
  <2>3. QED
    BY <2>1, <2>2 DEF Step
<1>4. Recorded'
  <2>1. \A o \in Op : keyOf'[o] = NoKey => session'[o] = "none"
    BY DEF Step, Inv, Recorded
  <2>2. \A o \in Op : row'[o] # "none" => keyOf'[o] # NoKey
    BY DEF Step, Inv, Recorded, Grows
  <2>3. ASSUME NEW o \in Op, row'[o] \in {"failed", "canceled"} PROVE Closed(o)'
    BY <1>1, <2>3, ClosedStays DEF Step, Inv, Recorded
  <2>4. \A o \in handed' : row'[o] # "none"
    BY DEF Step, Inv, Recorded, Grows, TypeOK
  <2>5. QED
    BY <2>1, <2>2, <2>3, <2>4 DEF Recorded
<1>5. LedgerBacked'
  <2>1. \A o \in credits' : session'[o] = "paid"
    BY DEF Step, Inv, LedgerBacked, Grows, TypeOK
  <2>2. \A r \in mirrored' : r \in refunded' /\ r[1] \in credits'
    BY DEF Step, Inv, LedgerBacked, Grows
  <2>3. \A o \in Op : row'[o] = "confirmed" => o \in credits'
    BY DEF Step, Inv, LedgerBacked, Grows
  <2>4. QED
    BY <2>1, <2>2, <2>3 DEF LedgerBacked
<1>6. AnsweredIsApplied'
  <2>1. SUFFICES ASSUME NEW e \in receipts' PROVE Answered(e)'
    BY DEF AnsweredIsApplied, Answered
  <2>2. QED
    BY <1>1, <2>1, AnsweredStays DEF Step
<1>7. QED
  BY <1>1, <1>2, <1>3, <1>4, <1>5, <1>6 DEF Inv

-----------------------------------------------------------------------------
(* Stripe and the payer.                                                   *)

\* Openings that go on as they were leave the minting as it was.
LEMMA MintingStep ==
  ASSUME Inv, UNCHANGED keyOf,
         \A p \in Server : at'[p] = "rest" => work'[p] = Idle,
         \A p \in Server : Opening(p)' =>
            /\ Opening(p) /\ at'[p] = at[p] /\ work'[p] = work[p]
            /\ row'[work[p].op] = "none" /\ session'[work[p].op] = session[work[p].op],
         \A o \in Op : row'[o] # "none" => Claimed(o)
  PROVE  Minting'
<1>1. Minting
  BY DEF Inv
<1>2. \A p \in Server : Opening(p)' =>
        /\ work'[p] \in {Create(o) : o \in Op} /\ keyOf'[work'[p].op] # NoKey
        /\ row'[work'[p].op] = "none"
        /\ session'[work'[p].op] = IF at'[p] = "read" THEN "none" ELSE "open"
  BY <1>1 DEF Minting
<1>3. \A p, q \in Server : Opening(p)' /\ Opening(q)' /\ work'[p].op = work'[q].op => p = q
  BY <1>1 DEF Minting
<1>4. \A o \in Op : Claimed(o)' => Claimed(o)
  BY DEF Claimed, Opened
<1>5. \A o, other \in Op : Claimed(o)' /\ Claimed(other)' /\ keyOf'[o] = keyOf'[other] => o = other
  BY <1>1, <1>4 DEF Minting
<1>6. QED
  BY <1>2, <1>3, <1>5 DEF Minting

LEMMA OpenedOp == ASSUME Inv, NEW p \in Server, Opening(p) PROVE work[p].op \in Op /\ row[work[p].op] = "none"
BY DEF Inv, Minting, Create

\* What Stripe does of its own accord: it settles sessions that are open to a payer,
\* returns money and tells the truth about it.
StripeMoves ==
  /\ UNCHANGED <<row, keyOf, handed, receipts, ledger, servers>>
  /\ session' \in [Op -> SessionState] /\ upsets' \in 0..MaxUpsets
  /\ \A o \in Op : session'[o] = session[o] \/ (session[o] \in {"open", "processing"} /\ ~Opened(o))
  /\ refunded \subseteq refunded' /\ refunded' \subseteq Refund
  /\ events \subseteq events'
  /\ \A e \in events' : e \in events \/ (e \in Event /\ Sound(e)')

LEMMA StripeStep == Inv /\ StripeMoves => Step
<1> SUFFICES ASSUME Inv, StripeMoves PROVE Step
  OBVIOUS
<1>0. UNCHANGED <<row, keyOf, handed, receipts, credits, mirrored, at, work, seen, found>>
  BY DEF StripeMoves, ledger, servers
<1>1. TypeOK'
  BY <1>0, EventsTyped DEF StripeMoves, Inv, TypeOK
<1>2. \A o \in Op : Opened(o)' <=> Opened(o)
  BY <1>0 DEF Opened, Opening
<1>3. Grows
  BY <1>0, <1>2 DEF StripeMoves, Grows
<1>4. Minting'
  <2>1. \A p \in Server : Opening(p)' =>
            /\ Opening(p) /\ at'[p] = at[p] /\ work'[p] = work[p]
            /\ row'[work[p].op] = "none" /\ session'[work[p].op] = session[work[p].op]
    <3>1. SUFFICES ASSUME NEW p \in Server, Opening(p)
                   PROVE  row[work[p].op] = "none" /\ session'[work[p].op] = session[work[p].op]
      BY <1>0 DEF Opening
    <3>2. QED
      BY <3>1, OpenedOp DEF StripeMoves, Opened
  <2>2. \A p \in Server : at'[p] = "rest" => work'[p] = Idle
    BY <1>0 DEF Inv, Minting
  <2>3. QED
    BY <1>0, <2>1, <2>2, MintingStep DEF Claimed
<1>5. \A p \in Server : SameRequest(p)
  BY <1>0 DEF SameRequest
<1>6. \A o \in Op : keyOf'[o] = NoKey => keyOf[o] = NoKey /\ session'[o] = session[o]
  BY <1>0 DEF StripeMoves, Inv, Recorded
<1>7. \A e \in events' : e \in events \/ Sound(e)'
  BY DEF StripeMoves
<1>8. Fallow'
  BY <1>0 DEF Inv, Fallow
<1>9. QED
  BY <1>0, <1>1, <1>3, <1>4, <1>5, <1>6, <1>7, <1>8 DEF Step

\* A client that was shown a checkout has been shown one that is on record.
LEMMA HandedOpened ==
  ASSUME Inv, NEW o \in Op, o \in handed
  PROVE  keyOf[o] # NoKey /\ ~Opened(o)
BY OpenedOp DEF Inv, Recorded, Opened

LEMMA PaidOpened ==
  ASSUME Inv, NEW o \in Op, session[o] = "paid"
  PROVE  keyOf[o] # NoKey /\ ~Opened(o)
BY DEF Inv, Recorded, Opened, Minting

\* An event that Stripe sends about the state it has put a session in.
LEMMA Emitting ==
  ASSUME Inv, NEW o \in Op, NEW kinds \in SUBSET EventKind, Emit(kinds, o),
         keyOf[o] # NoKey, ~Opened(o), UNCHANGED <<keyOf, at, work>>,
         kinds \cap {"completed", "succeeded", "refund"} # {} => session'[o] = "paid"
  PROVE  /\ events \subseteq events'
         /\ \A e \in events' : e \in events \/ (e \in Event /\ Sound(e)')
<1>1. events' = events \cup {[kind |-> k, op |-> o, moved |-> {}] : k \in kinds}
  BY DEF Emit
<1>2. ~Opened(o)'
  BY DEF Opened, Opening
<1>3. ASSUME NEW k \in kinds, NEW e, e = [kind |-> k, op |-> o, moved |-> {}]
      PROVE  e \in Event /\ Sound(e)'
  <2>1. e.kind = k /\ e.op = o /\ e.moved = {}
    BY <1>3
  <2>2. e \in Event
    BY <1>3 DEF Event
  <2>3. QED
    BY <1>2, <2>1, <2>2 DEF Sound
<1>4. QED
  BY <1>1, <1>3

\* One of the payer's or Stripe's steps on operation o.
Payer(o) == Decline(o) \/ Complete(o) \/ Pay(o) \/ GiveUp(o) \/ AskRefund(o)

LEMMA UpsetTyped == ASSUME TypeOK, Upset PROVE upsets' \in 0..MaxUpsets
BY DEF TypeOK, Upset

LEMMA PayerMoves == \A o \in Op : Inv /\ Payer(o) => StripeMoves
<1> SUFFICES ASSUME NEW o \in Op, Inv, Payer(o) PROVE StripeMoves
  OBVIOUS
<1>1. UNCHANGED <<row, keyOf, refunded, handed, receipts, ledger, servers>>
  BY DEF Payer, Decline, Complete, Pay, GiveUp, AskRefund
<1>2. upsets' \in 0..MaxUpsets
  BY UpsetTyped DEF Payer, Decline, Complete, Pay, GiveUp, AskRefund, Inv, TypeOK
<1>3. keyOf[o] # NoKey /\ ~Opened(o)
  <2>1. CASE o \in handed
    BY <2>1, HandedOpened
  <2>2. CASE session[o] = "paid"
    BY <2>2, PaidOpened
  <2>3. CASE GiveUp(o)
    <3>1. session[o] \in {"open", "processing"}
      BY <2>3 DEF GiveUp
    <3>2. keyOf[o] # NoKey
      BY <3>1 DEF Inv, Recorded
    <3>3. ~Opened(o)
      <4>1. ASSUME NEW p \in Server, Opening(p), work[p].op = o PROVE work[p] = Create(o)
        <5>1. PICK x \in Op : work[p] = Create(x)
          BY <4>1 DEF Inv, Minting
        <5>2. x = o
          BY <4>1, <5>1 DEF Create
        <5>3. QED
          BY <5>1, <5>2
      <4>2. QED
        BY <2>3, <4>1 DEF GiveUp, Opened
    <3>4. QED
      BY <3>2, <3>3
  <2>4. QED
    BY <2>1, <2>2, <2>3 DEF Payer, Decline, Complete, Pay, AskRefund
<1>4. /\ session' \in [Op -> SessionState]
      /\ \A x \in Op : session'[x] = session[x] \/ (session[x] \in {"open", "processing"} /\ ~Opened(x))
  <2>1. session \in [Op -> SessionState]
    BY DEF Inv, TypeOK
  <2>2. CASE session' = session
    BY <2>1, <2>2
  <2>3. CASE session' # session
    <3>1. PICK state \in SessionState : Becomes(o, state)
      BY <2>3 DEF Payer, Decline, Complete, Pay, GiveUp, AskRefund, SessionState
    <3>2. session[o] \in {"open", "processing"}
      BY <2>3 DEF Payer, Decline, Complete, Pay, GiveUp, AskRefund
    <3>3. QED
      BY <1>3, <2>1, <3>1, <3>2 DEF Becomes
  <2>4. QED
    BY <2>2, <2>3
<1>5. /\ events \subseteq events'
      /\ \A e \in events' : e \in events \/ (e \in Event /\ Sound(e)')
  <2>1. session \in [Op -> SessionState]
    BY DEF Inv, TypeOK
  <2>2. \E kinds \in SUBSET EventKind :
          /\ Emit(kinds, o)
          /\ kinds \cap {"completed", "succeeded", "refund"} # {} => session'[o] = "paid"
    <3>1. CASE Decline(o) \/ Complete(o) \/ GiveUp(o)
      <4>1. Emit({"declined"}, o) \/ Emit({"completed_unpaid"}, o) \/ Emit({"expired"}, o)
            \/ Emit({"async_failed"}, o) \/ Emit({"canceled"}, o)
        BY <3>1 DEF Decline, Complete, GiveUp
      <4>2. \A k \in {"declined", "completed_unpaid", "expired", "async_failed", "canceled"} :
              {k} \in SUBSET EventKind /\ {k} \cap {"completed", "succeeded", "refund"} = {}
        BY DEF EventKind
      <4>3. QED
        BY <4>1, <4>2
    <3>2. CASE Pay(o)
      <4>1. session'[o] = "paid"
        BY <2>1, <3>2 DEF Pay, Becomes
      <4>2. Emit({"completed", "succeeded"}, o) \/ Emit({"succeeded"}, o)
        BY <3>2 DEF Pay
      <4>3. {"completed", "succeeded"} \in SUBSET EventKind /\ {"succeeded"} \in SUBSET EventKind
        BY DEF EventKind
      <4>4. QED
        BY <4>1, <4>2, <4>3
    <3>3. CASE AskRefund(o)
      <4>1. session'[o] = "paid" /\ Emit({"refund"}, o)
        BY <3>3 DEF AskRefund
      <4>2. {"refund"} \in SUBSET EventKind
        BY DEF EventKind
      <4>3. QED
        BY <4>1, <4>2
    <3>4. QED
      BY <3>1, <3>2, <3>3 DEF Payer
  <2>3. UNCHANGED <<keyOf, at, work>>
    BY <1>1 DEF servers
  <2>4. QED
    BY <1>3, <2>2, <2>3, Emitting
<1>6. refunded \subseteq refunded' /\ refunded' \subseteq Refund
  BY <1>1 DEF Inv, TypeOK
<1>7. QED
  BY <1>1, <1>2, <1>4, <1>5, <1>6 DEF StripeMoves

LEMMA PayBackMoves == \A r \in Refund : Inv /\ PayBack(r) => StripeMoves
<1> SUFFICES ASSUME NEW r \in Refund, Inv, PayBack(r) PROVE StripeMoves
  OBVIOUS
<1> DEFINE o == r[1]
           News == {[kind |-> "refund", op |-> o, moved |-> moved] :
                      moved \in {{r}, {s \in refunded' : s[1] = o}}}
<1>1. /\ session[o] = "paid" /\ refunded' = refunded \cup {r} /\ events' = events \cup News
      /\ UNCHANGED <<row, keyOf, session, handed, receipts, ledger, servers, upsets>>
  BY DEF PayBack
<1>2. o \in Op /\ keyOf[o] # NoKey /\ ~Opened(o)
  BY <1>1, PaidOpened DEF Refund
<1>3. ~Opened(o)'
  BY <1>1, <1>2 DEF Opened, Opening, servers
<1>4. refunded \subseteq refunded' /\ refunded' \subseteq Refund
  BY <1>1 DEF Inv, TypeOK
<1>5. ASSUME NEW e \in News PROVE e \in Event /\ Sound(e)'
  <2>1. PICK moved \in {{r}, {s \in refunded' : s[1] = o}} :
          e = [kind |-> "refund", op |-> o, moved |-> moved]
    OBVIOUS
  <2>2. moved \subseteq refunded' /\ \A s \in moved : s[1] = o
    BY <1>1, <2>1
  <2>3. e.kind = "refund" /\ e.op = o /\ e.moved = moved
    BY <2>1
  <2>4. e \in Event
    BY <1>2, <1>4, <2>1, <2>2 DEF Event, EventKind
  <2>5. QED
    BY <1>1, <1>2, <1>3, <2>2, <2>3, <2>4 DEF Sound
<1>6. QED
  BY <1>1, <1>4, <1>5 DEF StripeMoves, Inv, TypeOK

-----------------------------------------------------------------------------
(* Checkout.                                                               *)

LEMMA BeginStep == \A p \in Server, k \in Key : Inv /\ Begin(p, k) => Step
<1> SUFFICES ASSUME NEW p \in Server, NEW k \in Key, Inv, Begin(p, k) PROVE Step
  OBVIOUS
<1> DEFINE o == Fresh
<1>1. /\ at[p] = "rest" /\ Holds(k) = {} /\ ~Creating(k)
      /\ keyOf' = [keyOf EXCEPT ![o] = k]
      /\ at' = [at EXCEPT ![p] = "read"] /\ work' = [work EXCEPT ![p] = Create(o)]
      /\ UNCHANGED <<row, session, refunded, events, handed, receipts, credits, mirrored, seen, found, upsets>>
  BY DEF Begin, stripe, ledger
<1>2. o \in Op /\ keyOf[o] = NoKey
  BY DEF Begin, Fresh, Unused
<1>3. TypeOK
  BY DEF Inv
<1>4. TypeOK'
  BY <1>1, <1>2, <1>3 DEF TypeOK, Work
<1>5. /\ Opening(p)' /\ work'[p].op = o /\ at'[p] = "read" /\ work'[p] = Create(o)
      /\ \A q \in Server : q # p => at'[q] = at[q] /\ work'[q] = work[q]
  BY <1>1, <1>3 DEF TypeOK, Opening, Create
<1>6. \A q \in Server : q # p => (Opening(q)' <=> Opening(q))
  BY <1>5 DEF Opening
<1>7. \A x \in Op : x # o => keyOf'[x] = keyOf[x]
  BY <1>1, <1>3 DEF TypeOK
<1>8. keyOf'[o] = k /\ k # NoKey
  BY <1>1, <1>2, <1>3 DEF TypeOK
<1>9. \A x \in Op : Opened(x)' => Opened(x) \/ x = o
  BY <1>5, <1>6 DEF Opened
<1>10. Grows
  BY <1>1, <1>2, <1>7, <1>9 DEF Grows
<1>11. row[o] = "none" /\ session[o] = "none" /\ ~Opened(o)
  BY <1>2 DEF Inv, Recorded, Minting, Opened
<1>12. Minting'
  <2>1. \A q \in Server : at'[q] = "rest" => work'[q] = Idle
    BY <1>5 DEF Inv, Minting
  <2>2. ASSUME NEW q \in Server, Opening(q)'
        PROVE  /\ work'[q] \in {Create(x) : x \in Op} /\ keyOf'[work'[q].op] # NoKey
               /\ row'[work'[q].op] = "none"
               /\ session'[work'[q].op] = IF at'[q] = "read" THEN "none" ELSE "open"
    <3>1. CASE q = p
      BY <1>1, <1>2, <1>5, <1>8, <1>11, <3>1
    <3>2. CASE q # p
      <4>1. Opening(q) /\ at'[q] = at[q] /\ work'[q] = work[q]
        BY <1>5, <1>6, <2>2, <3>2
      <4>2. work[q].op # o /\ work[q].op \in Op
        BY <1>11, <4>1, OpenedOp DEF Opened
      <4>3. QED
        BY <1>1, <1>7, <4>1, <4>2 DEF Inv, Minting
    <3>3. QED
      BY <3>1, <3>2
  <2>3. ASSUME NEW q \in Server, NEW r \in Server, Opening(q)', Opening(r)', work'[q].op = work'[r].op
        PROVE  q = r
    <3>1. CASE q = p \/ r = p
      BY <1>5, <1>6, <1>11, <2>3, <3>1 DEF Opened
    <3>2. CASE q # p /\ r # p
      BY <1>5, <1>6, <2>3, <3>2 DEF Inv, Minting
    <3>3. QED
      BY <3>1, <3>2
  <2>4. ASSUME NEW x \in Op, Claimed(x), keyOf[x] = k PROVE FALSE
    <3>1. CASE row[x] # "none"
      BY <1>1, <2>4, <3>1 DEF Holds
    <3>2. CASE Opened(x)
      BY <1>1, <2>4, <3>2 DEF Opened, Opening, Creating
    <3>3. QED
      BY <2>4, <3>1, <3>2 DEF Claimed
  <2>5. \A x \in Op : Claimed(x)' => x = o \/ Claimed(x)
    BY <1>1, <1>9 DEF Claimed
  <2>6. \A x, y \in Op : Claimed(x)' /\ Claimed(y)' /\ keyOf'[x] = keyOf'[y] => x = y
    BY <1>7, <1>8, <2>4, <2>5 DEF Inv, Minting
  <2>7. QED
    BY <2>1, <2>2, <2>3, <2>6 DEF Minting
<1>13. \A q \in Server : Judging(q)' => SameRequest(q)
  BY <1>1, <1>5 DEF Judging, Opening, SameRequest
<1>14. \A x \in Op : keyOf'[x] = NoKey => keyOf[x] = NoKey /\ session'[x] = session[x]
  BY <1>1, <1>7, <1>8
<1>15. Fallow'
  BY <1>1, <1>5 DEF Inv, Fallow
<1>16. QED
  BY <1>1, <1>4, <1>10, <1>12, <1>13, <1>14, <1>15 DEF Step

LEMMA AttachStep == \A p \in Server : Inv /\ Attach(p) => Step
<1> SUFFICES ASSUME NEW p \in Server, Inv, Attach(p) PROVE Step
  OBVIOUS
<1> DEFINE o == work[p].op
<1>1. /\ at[p] = "read" /\ work[p].kind = "create" /\ session' = [session EXCEPT ![o] = "open"]
      /\ at' = [at EXCEPT ![p] = "looked"]
      /\ UNCHANGED <<row, keyOf, refunded, events, handed, receipts, credits, mirrored, work, seen, found, upsets>>
  BY DEF Attach, Becomes, ledger
<1>2. Opening(p)
  BY <1>1 DEF Opening
<1>3. o \in Op /\ session[o] = "none" /\ keyOf[o] # NoKey
  BY <1>1, <1>2, OpenedOp DEF Inv, Minting
<1>4. TypeOK'
  BY <1>1, <1>3 DEF Inv, TypeOK, SessionState
<1>5. at'[p] = "looked" /\ \A q \in Server : q # p => at'[q] = at[q]
  BY <1>1 DEF Inv, TypeOK
<1>6. \A q \in Server : Opening(q)' <=> Opening(q)
  BY <1>1, <1>2, <1>5 DEF Opening
<1>7. \A x \in Op : Opened(x)' <=> Opened(x)
  BY <1>1, <1>6 DEF Opened
<1>8. session'[o] = "open" /\ \A x \in Op : x # o => session'[x] = session[x]
  BY <1>1, <1>3 DEF Inv, TypeOK
<1>9. Grows
  BY <1>1, <1>3, <1>7, <1>8 DEF Grows
<1>10. Minting'
  <2>1. \A q \in Server : at'[q] = "rest" => work'[q] = Idle
    BY <1>1, <1>5 DEF Inv, Minting
  <2>2. ASSUME NEW q \in Server, Opening(q)'
        PROVE  /\ work'[q] \in {Create(x) : x \in Op} /\ keyOf'[work'[q].op] # NoKey
               /\ row'[work'[q].op] = "none"
               /\ session'[work'[q].op] = IF at'[q] = "read" THEN "none" ELSE "open"
    <3>1. CASE q = p
      BY <1>1, <1>2, <1>5, <1>8, <3>1 DEF Inv, Minting
    <3>2. CASE q # p
      <4>1. Opening(q) /\ work[q].op # o /\ work[q].op \in Op
        BY <1>2, <1>6, <2>2, <3>2, OpenedOp DEF Inv, Minting
      <4>2. QED
        BY <1>1, <1>5, <1>8, <3>2, <4>1 DEF Inv, Minting
    <3>3. QED
      BY <3>1, <3>2
  <2>3. \A q, r \in Server : Opening(q)' /\ Opening(r)' /\ work'[q].op = work'[r].op => q = r
    BY <1>1, <1>6 DEF Inv, Minting
  <2>4. \A x, y \in Op : Claimed(x)' /\ Claimed(y)' /\ keyOf'[x] = keyOf'[y] => x = y
    BY <1>1, <1>7 DEF Inv, Minting, Claimed
  <2>5. QED
    BY <2>1, <2>2, <2>3, <2>4 DEF Minting
<1>11. \A q \in Server : Judging(q)' => SameRequest(q)
  BY <1>1, <1>5 DEF Judging, SameRequest
<1>12. \A x \in Op : keyOf'[x] = NoKey => keyOf[x] = NoKey /\ session'[x] = session[x]
  BY <1>1, <1>3, <1>8
<1>13. Fallow'
  BY <1>1, <1>5 DEF Inv, Fallow
<1>14. QED
  BY <1>1, <1>4, <1>9, <1>10, <1>11, <1>12, <1>13 DEF Step

\* A request that ends leaves the others alone.
LEMMA Resting ==
  ASSUME TypeOK, NEW p \in Server, Rest(p)
  PROVE  /\ at' \in [Server -> {"rest", "read", "looked"}] /\ work' \in [Server -> Work \cup {Idle}]
         /\ seen' \in [Server -> Status] /\ found' \in [Server -> SessionState]
         /\ at'[p] = "rest" /\ work'[p] = Idle /\ found'[p] = "none" /\ ~Opening(p)' /\ ~Judging(p)'
         /\ \A q \in Server : q # p => SameRequest(q) /\ (Opening(q)' <=> Opening(q))
         /\ \A q \in Server : Opening(q)' => Opening(q) /\ SameRequest(q) /\ q # p
<1>1. /\ at' = [at EXCEPT ![p] = "rest"] /\ work' = [work EXCEPT ![p] = Idle]
      /\ seen' = [seen EXCEPT ![p] = "none"] /\ found' = [found EXCEPT ![p] = "none"]
  BY DEF Rest
<1>2. at \in [Server -> {"rest", "read", "looked"}] /\ work \in [Server -> Work \cup {Idle}]
      /\ seen \in [Server -> Status] /\ found \in [Server -> SessionState]
  BY DEF TypeOK
<1>3. at' \in [Server -> {"rest", "read", "looked"}] /\ work' \in [Server -> Work \cup {Idle}]
      /\ seen' \in [Server -> Status] /\ found' \in [Server -> SessionState]
  BY <1>1, <1>2 DEF Status, SessionState
<1>4. at'[p] = "rest" /\ work'[p] = Idle /\ found'[p] = "none"
  BY <1>1, <1>2
<1>5. \A q \in Server : q # p => SameRequest(q)
  BY <1>1, <1>2 DEF SameRequest
<1>6. ~Opening(p)' /\ ~Judging(p)' /\ \A q \in Server : q # p => (Opening(q)' <=> Opening(q))
  BY <1>4, <1>5 DEF Opening, Judging, SameRequest
<1>7. QED
  BY <1>3, <1>4, <1>5, <1>6

LEMMA OfferStep == \A p \in Server : Inv /\ Offer(p) => Step
<1> SUFFICES ASSUME NEW p \in Server, Inv, Offer(p) PROVE Step
  OBVIOUS
<1> DEFINE o == work[p].op
<1>1. /\ Opening(p) /\ row' = [row EXCEPT ![o] = "pending"] /\ Rest(p)
      /\ handed' = handed \/ handed' = handed \cup {o}
      /\ UNCHANGED <<keyOf, session, refunded, events, receipts, credits, mirrored>>
  BY DEF Offer, Opening, stripe, ledger
<1>2. upsets' \in 0..MaxUpsets
  BY UpsetTyped DEF Offer, Inv, TypeOK
<1>3. o \in Op /\ row[o] = "none" /\ keyOf[o] # NoKey /\ Opened(o) /\ TypeOK
  BY <1>1, OpenedOp DEF Inv, Minting, Opened
<1>4. row'[o] = "pending" /\ \A x \in Op : x # o => row'[x] = row[x]
  BY <1>1, <1>3 DEF TypeOK
<1>5. /\ at' \in [Server -> {"rest", "read", "looked"}] /\ work' \in [Server -> Work \cup {Idle}]
      /\ seen' \in [Server -> Status] /\ found' \in [Server -> SessionState]
      /\ at'[p] = "rest" /\ work'[p] = Idle /\ found'[p] = "none" /\ ~Opening(p)' /\ ~Judging(p)'
      /\ \A q \in Server : q # p => SameRequest(q) /\ (Opening(q)' <=> Opening(q))
      /\ \A q \in Server : Opening(q)' => Opening(q) /\ SameRequest(q) /\ q # p
  BY <1>1, <1>3, Resting
<1>6. TypeOK'
  BY <1>1, <1>2, <1>3, <1>5, EventsTyped DEF TypeOK, Status
<1>7. \A x \in Op : Opened(x)' => Opened(x)
  BY <1>5 DEF Opened, SameRequest
<1>8. Grows
  BY <1>1, <1>3, <1>4, <1>7 DEF Grows
<1>9. Minting'
  <2>1. \A q \in Server : at'[q] = "rest" => work'[q] = Idle
    BY <1>5 DEF Inv, Minting, SameRequest
  <2>2. ASSUME NEW q \in Server, Opening(q)'
        PROVE  /\ Opening(q) /\ at'[q] = at[q] /\ work'[q] = work[q]
               /\ row'[work[q].op] = "none" /\ session'[work[q].op] = session[work[q].op]
    <3>1. Opening(q) /\ SameRequest(q) /\ q # p
      BY <1>5, <2>2
    <3>2. work[q].op \in Op /\ row[work[q].op] = "none" /\ work[q].op # o
      BY <1>1, <3>1, OpenedOp DEF Inv, Minting
    <3>3. QED
      BY <1>1, <1>4, <3>1, <3>2 DEF SameRequest
  <2>3. \A x \in Op : row'[x] # "none" => Claimed(x)
    BY <1>3, <1>4 DEF Claimed
  <2>4. QED
    BY <1>1, <2>1, <2>2, <2>3, MintingStep
<1>10. \A q \in Server : Judging(q)' => SameRequest(q)
  BY <1>5
<1>11. Fallow'
  BY <1>3, <1>5 DEF Inv, Fallow, SameRequest
<1>12. QED
  BY <1>1, <1>3, <1>4, <1>6, <1>8, <1>9, <1>10, <1>11 DEF Step

LEMMA OfferAgainStep == \A o \in Op : Inv /\ OfferAgain(o) => Step
<1> SUFFICES ASSUME NEW o \in Op, Inv, OfferAgain(o) PROVE Step
  OBVIOUS
<1>1. /\ row[o] # "none" /\ handed' = handed \cup {o}
      /\ UNCHANGED <<row, keyOf, session, refunded, events, receipts, credits, mirrored,
                     at, work, seen, found, upsets>>
  BY DEF OfferAgain, stripe, ledger, servers
<1>2. TypeOK'
  BY <1>1, EventsTyped DEF Inv, TypeOK
<1>3. \A x \in Op : Opened(x)' <=> Opened(x)
  BY <1>1 DEF Opened, Opening
<1>4. Grows
  BY <1>1, <1>3 DEF Grows
<1>5. Minting'
  BY <1>1 DEF Inv, Minting, Claimed, Opened, Opening
<1>6. \A p \in Server : SameRequest(p)
  BY <1>1 DEF SameRequest
<1>7. Fallow'
  BY <1>1 DEF Inv, Fallow
<1>8. QED
  BY <1>1, <1>2, <1>4, <1>5, <1>6, <1>7 DEF Step

-----------------------------------------------------------------------------
(* Webhook and status poll.                                                *)

\* A request that takes up an event or a poll judges by the row as it is.
LEMMA TakingUp ==
  ASSUME Inv, NEW p \in Server, NEW job \in Work, at[p] = "rest",
         job \in events \/ (job \in {Poll(o) : o \in Op} /\ row[job.op] = "pending"),
         at' = [at EXCEPT ![p] = "read"], work' = [work EXCEPT ![p] = job],
         seen' = [seen EXCEPT ![p] = row[job.op]],
         UNCHANGED <<row, keyOf, stripe, handed, receipts, ledger, found, upsets>>
  PROVE  Step
<1>1. UNCHANGED <<row, keyOf, session, refunded, events, handed, receipts, credits, mirrored, found, upsets>>
  BY DEF stripe, ledger
<1>2. job.op \in Op /\ job.kind # "create"
  BY EventsTyped, EventElement DEF Inv, Poll, EventKind
<1>3. TypeOK /\ row[job.op] \in Status
  BY <1>2 DEF Inv, TypeOK
<1>4. TypeOK'
  BY <1>1, <1>3 DEF TypeOK
<1>5. /\ at'[p] = "read" /\ work'[p] = job /\ seen'[p] = row[job.op] /\ found'[p] = found[p]
      /\ \A q \in Server : q # p => SameRequest(q)
  BY <1>1, <1>3 DEF TypeOK, SameRequest
<1>6. ~Opening(p) /\ ~Opening(p)'
  BY <1>2, <1>5 DEF Opening
<1>7. \A q \in Server : Opening(q)' => Opening(q) /\ SameRequest(q)
  BY <1>5, <1>6 DEF Opening, SameRequest
<1>8. \A o \in Op : Opened(o)' => Opened(o)
  BY <1>7 DEF Opened, SameRequest
<1>9. Grows
  BY <1>1, <1>8 DEF Grows
<1>10. Minting'
  <2>1. \A q \in Server : at'[q] = "rest" => work'[q] = Idle
    BY <1>5 DEF Inv, Minting, SameRequest
  <2>2. \A q \in Server : Opening(q)' =>
            /\ Opening(q) /\ at'[q] = at[q] /\ work'[q] = work[q]
            /\ row'[work[q].op] = "none" /\ session'[work[q].op] = session[work[q].op]
    BY <1>1, <1>7, OpenedOp DEF SameRequest
  <2>3. QED
    BY <1>1, <2>1, <2>2, MintingStep DEF Claimed
<1>11. Read(p)'
  <2>1. work'[p].op = job.op /\ row'[job.op] = row[job.op] /\ session' = session /\ credits' = credits
    BY <1>1, <1>5
  <2>2. work'[p] \in events' \/ (work'[p] \in {Poll(o) : o \in Op} /\ seen'[p] = "pending")
    BY <1>1, <1>5
  <2>3. seen'[p] = "confirmed" => job.op \in credits'
    BY <1>1, <1>2, <1>5 DEF Inv, LedgerBacked
  <2>4. seen'[p] \in {"failed", "canceled"} => Closed(job.op)'
    <3>1. row[job.op] \in {"failed", "canceled"} => Closed(job.op)
      BY <1>2 DEF Inv, Recorded
    <3>2. Closed(job.op)' <=> Closed(job.op)
      BY <1>1 DEF Closed, FailureTold
    <3>3. QED
      BY <1>5, <3>1, <3>2
  <2>5. found'[p] \notin {"paid", "expired", "canceled"}
    BY <1>1, <1>5 DEF Inv, Fallow
  <2>6. at'[p] # "looked"
    BY <1>5
  <2>7. Closed(work[p].op)' <=> Closed(job.op)'
    BY <1>5 DEF Closed, FailureTold
  <2>8. QED
    BY <1>5, <2>1, <2>2, <2>3, <2>4, <2>5, <2>6, <2>7 DEF Read
<1>12. Fallow'
  BY <1>1, <1>5 DEF Inv, Fallow, SameRequest
<1>13. QED
  BY <1>1, <1>4, <1>5, <1>9, <1>10, <1>11, <1>12 DEF Step

LEMMA ReceiveStep == \A p \in Server : \A e \in events : Inv /\ Receive(p, e) => Step
<1> SUFFICES ASSUME NEW p \in Server, NEW e \in events, Inv, Receive(p, e) PROVE Step
  OBVIOUS
<1>1. e \in Work
  BY EventsTyped DEF Inv, Work
<1>2. QED
  BY <1>1, TakingUp DEF Receive

LEMMA PollStatusStep == \A p \in Server, o \in Op : Inv /\ PollStatus(p, o) => Step
<1> SUFFICES ASSUME NEW p \in Server, NEW o \in Op, Inv, PollStatus(p, o) PROVE Step
  OBVIOUS
<1>1. Poll(o) \in Work /\ Poll(o).op = o /\ Poll(o) \in {Poll(x) : x \in Op}
  BY DEF Work, Poll
<1>2. QED
  BY <1>1, TakingUp DEF PollStatus

\* What a request that judges works on.
LEMMA JudgingRead ==
  ASSUME Inv, NEW p \in Server, at[p] # "rest", work[p].kind # "create"
  PROVE  Judging(p) /\ Read(p) /\ work[p].op \in Op
BY ReadOp DEF Inv, Reading, Judging

LEMMA AskStep == \A p \in Server : Inv /\ Ask(p) => Step
<1> SUFFICES ASSUME NEW p \in Server, Inv, Ask(p) PROVE Step
  OBVIOUS
<1> DEFINE o == work[p].op
<1>1. /\ at[p] = "read" /\ work[p].kind \in {"poll", "refund"} /\ seen[p] = "pending"
      /\ found' = [found EXCEPT ![p] = session[o]] /\ at' = [at EXCEPT ![p] = "looked"]
      /\ UNCHANGED <<row, keyOf, session, refunded, events, handed, receipts, credits, mirrored, work, seen, upsets>>
  BY DEF Ask, MustAsk, stripe, ledger
<1>2. Judging(p) /\ Read(p) /\ o \in Op
  BY <1>1, JudgingRead
<1>3. TypeOK
  BY DEF Inv
<1>4. TypeOK'
  BY <1>1, <1>2, <1>3 DEF TypeOK
<1>5. /\ at'[p] = "looked" /\ found'[p] = session[o] /\ work' = work /\ seen' = seen
      /\ \A q \in Server : q # p => SameRequest(q)
  BY <1>1, <1>3 DEF TypeOK, SameRequest
<1>6. \A q \in Server : Opening(q)' => Opening(q) /\ SameRequest(q)
  BY <1>1, <1>5 DEF Opening, SameRequest
<1>7. \A x \in Op : Opened(x)' => Opened(x)
  BY <1>5, <1>6 DEF Opened
<1>8. Grows
  BY <1>1, <1>7 DEF Grows
<1>9. Minting'
  <2>1. \A q \in Server : at'[q] = "rest" => work'[q] = Idle
    BY <1>5 DEF Inv, Minting, SameRequest
  <2>2. \A q \in Server : Opening(q)' =>
            /\ Opening(q) /\ at'[q] = at[q] /\ work'[q] = work[q]
            /\ row'[work[q].op] = "none" /\ session'[work[q].op] = session[work[q].op]
    BY <1>1, <1>6, OpenedOp DEF SameRequest
  <2>3. QED
    BY <1>1, <2>1, <2>2, MintingStep DEF Claimed
<1>10. Read(p)'
  <2>1. work[p].kind = "refund" => session[o] = "paid"
    <3>1. work[p] \in {Poll(x) : x \in Op} => work[p].kind = "poll"
      BY DEF Poll
    <3>2. work[p].kind = "refund" => work[p] \in events
      BY <1>2, <3>1 DEF Read
    <3>3. QED
      BY <3>2 DEF Inv, Truthful, Sound
  <2>2. Closed(o)' <=> Closed(o)
    BY <1>1 DEF Closed, FailureTold
  <2>3. QED
    BY <1>1, <1>2, <1>5, <2>1, <2>2 DEF Read
<1>11. Fallow'
  BY <1>5 DEF Inv, Fallow, SameRequest
<1>12. QED
  BY <1>1, <1>4, <1>5, <1>8, <1>9, <1>10, <1>11 DEF Step

\* A request that ends, with the row of its operation at most settled.
LEMMA Ending ==
  ASSUME Inv, NEW p \in Server, Rest(p), UNCHANGED <<keyOf, session>>,
         \A x \in Op : row[x] = "none" <=> row'[x] = "none"
  PROVE  /\ \A x \in Op : Opened(x)' => Opened(x)
         /\ Minting' /\ Fallow'
         /\ \A q \in Server : Judging(q)' => SameRequest(q)
<1>1. /\ at'[p] = "rest" /\ work'[p] = Idle /\ found'[p] = "none" /\ ~Judging(p)'
      /\ \A q \in Server : q # p => SameRequest(q)
      /\ \A q \in Server : Opening(q)' => Opening(q) /\ SameRequest(q)
  BY Resting DEF Inv
<1>2. \A q \in Server : at'[q] = "rest" => work'[q] = Idle
  BY <1>1 DEF Inv, Minting, SameRequest
<1>3. \A q \in Server : Opening(q)' =>
          /\ Opening(q) /\ at'[q] = at[q] /\ work'[q] = work[q]
          /\ row'[work[q].op] = "none" /\ session'[work[q].op] = session[work[q].op]
  BY <1>1, OpenedOp DEF SameRequest
<1>4. Minting'
  BY <1>2, <1>3, MintingStep DEF Claimed
<1>5. Fallow'
  BY <1>1 DEF Inv, Fallow, SameRequest
<1>6. \A x \in Op : Opened(x)' => Opened(x)
  BY <1>1 DEF Opened, SameRequest
<1>7. QED
  BY <1>1, <1>4, <1>5, <1>6

LEMMA RollBackStep == \A p \in Server : Inv /\ RollBack(p) => Step
<1> SUFFICES ASSUME NEW p \in Server, Inv, RollBack(p) PROVE Step
  OBVIOUS
<1>1. /\ Rest(p)
      /\ UNCHANGED <<row, keyOf, session, refunded, events, handed, receipts, credits, mirrored>>
  BY DEF RollBack, stripe, ledger
<1>2. upsets' \in 0..MaxUpsets
  BY UpsetTyped DEF RollBack, Inv
<1>3. /\ \A x \in Op : Opened(x)' => Opened(x)
      /\ Minting' /\ Fallow'
      /\ \A q \in Server : Judging(q)' => SameRequest(q)
  BY <1>1, Ending
<1>4. TypeOK'
  BY <1>1, <1>2, Resting, EventsTyped DEF Inv, TypeOK
<1>5. Grows
  BY <1>1, <1>3 DEF Grows
<1>6. QED
  BY <1>1, <1>3, <1>4, <1>5 DEF Step

-----------------------------------------------------------------------------
(* The verdict.                                                            *)

\* What a request makes of its operation has a reason at Stripe.
LEMMA Verdict ==
  ASSUME Inv, NEW p \in Server, Judging(p), at[p] = (IF MustAsk(p) THEN "looked" ELSE "read")
  PROVE  /\ Outcome(p) \in Status
         /\ seen[p] = "pending" => Outcome(p) # "none"
         /\ Outcome(p) = "confirmed" => work[p].op \in credits \/ session[work[p].op] = "paid"
         /\ seen[p] = "pending" /\ Outcome(p) \in {"failed", "canceled"} =>
              \/ session[work[p].op] \in {"expired", "canceled"}
              \/ work[p] \in events /\ work[p].kind \in {"declined", "async_failed", "expired", "canceled"}
<1> DEFINE o == work[p].op
<1>1. Read(p) /\ o \in Op
  BY JudgingRead DEF Judging
<1>2. seen[p] \in Status /\ found[p] \in SessionState
  BY DEF Inv, TypeOK
<1>3. CASE seen[p] # "pending"
  <2>1. Outcome(p) = seen[p]
    BY <1>3 DEF Outcome
  <2>2. seen[p] = "confirmed" => o \in credits
    BY <1>1 DEF Read
  <2>3. QED
    BY <1>2, <1>3, <2>1, <2>2
<1>4. CASE seen[p] = "pending" /\ work[p].kind \in {"poll", "refund"}
  <2>1. Outcome(p) = ByStripe(found[p])
    BY <1>4 DEF Outcome
  <2>2. CASE found[p] = "paid"
    <3>1. Outcome(p) = "confirmed"
      BY <2>1, <2>2 DEF ByStripe
    <3>2. QED
      BY <1>1, <2>2, <3>1 DEF Read, Status, Terminal
  <2>3. CASE found[p] \in {"expired", "canceled"}
    <3>1. Outcome(p) = "canceled"
      BY <2>1, <2>3 DEF ByStripe
    <3>2. QED
      BY <1>1, <2>3, <3>1 DEF Read, Status, Terminal
  <2>4. CASE found[p] \notin {"paid", "expired", "canceled"}
    <3>1. Outcome(p) = "pending"
      BY <2>1, <2>4 DEF ByStripe
    <3>2. QED
      BY <3>1 DEF Status
  <2>5. QED
    BY <2>2, <2>3, <2>4
<1>5. CASE seen[p] = "pending" /\ work[p].kind \notin {"poll", "refund"}
  <2>1. work[p] \in events
    <3>1. work[p] \in {Poll(x) : x \in Op} => work[p].kind = "poll"
      BY DEF Poll
    <3>2. QED
      BY <1>1, <1>5, <3>1 DEF Read
  <2>2. Sound(work[p]) /\ work[p].kind \in EventKind
    BY <2>1, EventsTyped, EventElement DEF Inv, Truthful
  <2>3. Outcome(p) = ByEvent(work[p].kind)
    BY <1>5 DEF Outcome
  <2>4. CASE work[p].kind \in {"completed", "succeeded"}
    <3>1. Outcome(p) = "confirmed"
      BY <2>3, <2>4 DEF ByEvent
    <3>2. QED
      BY <2>2, <2>4, <3>1 DEF Sound, Status, Terminal
  <2>5. CASE work[p].kind \in {"expired", "canceled"}
    <3>1. Outcome(p) = "canceled"
      BY <2>3, <2>5 DEF ByEvent
    <3>2. QED
      BY <2>1, <2>5, <3>1 DEF Status, Terminal
  <2>6. CASE work[p].kind \in {"declined", "async_failed"}
    <3>1. Outcome(p) = "failed"
      BY <2>3, <2>6 DEF ByEvent
    <3>2. QED
      BY <2>1, <2>6, <3>1 DEF Status, Terminal
  <2>7. CASE work[p].kind = "completed_unpaid"
    <3>1. Outcome(p) = "pending"
      BY <2>3, <2>7 DEF ByEvent
    <3>2. QED
      BY <3>1 DEF Status
  <2>8. QED
    BY <1>5, <2>2, <2>4, <2>5, <2>6, <2>7 DEF EventKind
<1>6. QED
  BY <1>3, <1>4, <1>5

LEMMA FinishStep == \A p \in Server : Inv /\ Finish(p) => Step
<1> SUFFICES ASSUME NEW p \in Server, Inv, Finish(p) PROVE Step
  OBVIOUS
<1>0. PICK o \in Op : o = work[p].op
  BY JudgingRead DEF Finish, MustAsk
<1> DEFINE credited == Outcome(p) = "confirmed" /\ seen[p] = "pending"
           corrected == IF Outcome(p) = "confirmed" THEN Returned(p) ELSE {}
<1>1. /\ at[p] = (IF MustAsk(p) THEN "looked" ELSE "read") /\ work[p].kind # "create"
      /\ IF seen[p] = "pending" /\ Outcome(p) # "pending"
         THEN row' = [row EXCEPT ![o] = Outcome(p)]
         ELSE UNCHANGED row
      /\ credits' = IF credited THEN credits \cup {o} ELSE credits
      /\ mirrored' = mirrored \cup corrected
      /\ receipts' = IF work[p] \in Event THEN receipts \cup {work[p]} ELSE receipts
      /\ Rest(p)
      /\ UNCHANGED <<keyOf, session, refunded, events, handed, upsets>>
  BY <1>0 DEF Finish, stripe
<1>2. TypeOK /\ Judging(p) /\ Read(p) /\ o = work[p].op
  BY <1>0, <1>1, JudgingRead DEF Inv
<1>3. /\ Outcome(p) \in Status
      /\ seen[p] = "pending" => Outcome(p) # "none"
      /\ Outcome(p) = "confirmed" => o \in credits \/ session[o] = "paid"
      /\ seen[p] = "pending" /\ Outcome(p) \in {"failed", "canceled"} =>
           \/ session[o] \in {"expired", "canceled"}
           \/ work[p] \in events /\ work[p].kind \in {"declined", "async_failed", "expired", "canceled"}
  BY <1>1, <1>2, Verdict
<1>4. work[p] \in Event => work[p] \in events
  <2>1. work[p] \in {Poll(x) : x \in Op} => work[p].kind = "poll"
    BY DEF Poll
  <2>2. QED
    BY <1>2, <2>1, EventElement DEF Read, EventKind
<1>5. /\ \A x \in Op : x # o => row'[x] = row[x]
      /\ row'[o] = IF seen[p] = "pending" /\ Outcome(p) # "pending" THEN Outcome(p) ELSE row[o]
      /\ row' \in [Op -> Status]
  <2>1. row \in [Op -> Status]
    BY <1>2 DEF TypeOK
  <2>2. CASE seen[p] = "pending" /\ Outcome(p) # "pending"
    <3>1. row' = [row EXCEPT ![o] = Outcome(p)]
      BY <1>1, <2>2
    <3>2. QED
      BY <1>2, <1>3, <2>1, <2>2, <3>1
  <2>3. CASE ~(seen[p] = "pending" /\ Outcome(p) # "pending")
    BY <1>1, <2>1, <2>3
  <2>4. QED
    BY <2>2, <2>3
<1>6. \A x \in Op : row[x] = "none" <=> row'[x] = "none"
  BY <1>2, <1>3, <1>5 DEF Read
<1>7. /\ \A x \in Op : Opened(x)' => Opened(x)
      /\ Minting' /\ Fallow'
      /\ \A q \in Server : Judging(q)' => SameRequest(q)
  BY <1>1, <1>6, Ending
<1>8. credits \subseteq credits' /\ credits' \subseteq credits \cup {o}
      /\ (o \in credits' => o \in credits \/ session'[o] = "paid")
  BY <1>1, <1>3
<1>9. \A r \in Returned(p) : r \in refunded /\ r[1] = o
  <2>1. CASE work[p] \in events
    BY <1>2, <2>1 DEF Returned, Inv, Truthful, Sound
  <2>2. CASE work[p] \in {Poll(x) : x \in Op}
    BY <2>2 DEF Poll, Returned
  <2>3. QED
    BY <1>2, <2>1, <2>2 DEF Read
<1>10. Outcome(p) = "confirmed" => o \in credits'
  <2>1. CASE seen[p] = "pending"
    BY <1>1, <2>1
  <2>2. CASE seen[p] # "pending"
    <3>1. Outcome(p) = seen[p]
      BY <2>2 DEF Outcome
    <3>2. QED
      BY <1>2, <1>8, <3>1 DEF Read
  <2>3. QED
    BY <2>1, <2>2
<1>11. \A r \in mirrored' : r \in mirrored \/ (r \in refunded' /\ r[1] \in credits')
  BY <1>1, <1>9, <1>10
<1>12. TypeOK'
  <2>1. credits' \subseteq Op /\ mirrored' \subseteq Refund
    BY <1>1, <1>2, <1>8, <1>9 DEF TypeOK
  <2>2. receipts' \subseteq events'
    BY <1>1, <1>2, <1>4 DEF TypeOK
  <2>3. QED
    BY <1>1, <1>2, <1>5, <2>1, <2>2, Resting, EventsTyped DEF TypeOK
<1>13. Grows
  BY <1>1, <1>6, <1>7, <1>8 DEF Grows
<1>14. \A x \in Op : row'[x] \in {"failed", "canceled"} => row'[x] = row[x] \/ Closed(x)'
  <2>1. SUFFICES ASSUME row'[o] \in {"failed", "canceled"}, row'[o] # row[o] PROVE Closed(o)'
    BY <1>5
  <2>2. seen[p] = "pending" /\ Outcome(p) \in {"failed", "canceled"}
    BY <1>5, <2>1
  <2>3. CASE session[o] \in {"expired", "canceled"}
    BY <1>1, <2>3 DEF Closed
  <2>4. CASE work[p] \in events /\ work[p].kind \in {"declined", "async_failed", "expired", "canceled"}
    <3>1. work[p] \in receipts' /\ work[p].op = o
      BY <1>1, <1>2, <2>4, EventsTyped
    <3>2. FailureTold(o)'
      BY <2>4, <3>1 DEF FailureTold
    <3>3. QED
      BY <3>2 DEF Closed
  <2>5. QED
    BY <1>3, <2>2, <2>3, <2>4
<1>15. \A e \in receipts' : e \in receipts \/ Answered(e)'
  <2>1. SUFFICES ASSUME NEW e \in events, e = work[p] PROVE Answered(e)'
    BY <1>1, <1>4
  <2>2. Sound(e) /\ e.kind \in EventKind /\ e \in receipts' /\ e.op = o
    BY <1>1, <1>2, <2>1, EventsTyped, EventElement DEF Inv, Truthful
  <2>3. CASE seen[p] = "none"
    <3>1. row'[o] = "none"
      BY <1>2, <1>6, <2>3 DEF Read
    <3>2. QED
      BY <2>2, <3>1 DEF Answered
  <2>4. CASE Outcome(p) = "confirmed"
    <3>1. e.moved \subseteq mirrored'
      BY <1>1, <2>1, <2>4 DEF Returned
    <3>2. QED
      BY <1>10, <2>2, <2>4, <3>1 DEF Answered
  <2>5. CASE e.kind \in {"declined", "async_failed", "expired", "canceled"}
    <3>1. FailureTold(o)'
      BY <2>2, <2>5 DEF FailureTold
    <3>2. QED
      BY <2>2, <3>1 DEF Answered
  <2>6. CASE e.kind = "completed_unpaid"
    BY <2>6 DEF Answered
  <2>7. CASE seen[p] \in {"failed", "canceled"} /\ e.kind \in {"completed", "succeeded", "refund"}
    <3>1. session[o] = "paid"
      BY <2>2, <2>7 DEF Sound
    <3>2. FailureTold(o)
      BY <1>2, <2>7, <3>1 DEF Read, Closed
    <3>3. FailureTold(o)'
      BY <1>13, <3>2, ToldStays
    <3>4. QED
      BY <2>2, <3>3 DEF Answered
  <2>8. CASE seen[p] = "pending" /\ e.kind \in {"completed", "succeeded", "refund"}
    <3>1. Outcome(p) = "confirmed"
      <4>1. CASE e.kind = "refund"
        <5>1. at[p] = "looked"
          BY <1>1, <2>1, <2>8, <4>1 DEF MustAsk
        <5>2. found[p] = "paid"
          BY <1>2, <2>1, <4>1, <5>1 DEF Read
        <5>3. Outcome(p) = ByStripe(found[p])
          BY <2>1, <2>8, <4>1 DEF Outcome
        <5>4. QED
          BY <5>2, <5>3 DEF ByStripe
      <4>2. CASE e.kind \in {"completed", "succeeded"}
        <5>1. Outcome(p) = ByEvent(e.kind)
          BY <2>1, <2>8, <4>2 DEF Outcome
        <5>2. QED
          BY <4>2, <5>1 DEF ByEvent
      <4>3. QED
        BY <2>8, <4>1, <4>2
    <3>2. QED
      BY <2>4, <3>1
  <2>9. CASE seen[p] = "confirmed"
    <3>1. Outcome(p) = "confirmed"
      BY <2>9 DEF Outcome
    <3>2. QED
      BY <2>4, <3>1
  <2>10. seen[p] \in {"none", "pending", "confirmed", "failed", "canceled"}
    BY <1>2 DEF TypeOK, Status, Terminal
  <2>11. QED
    BY <2>2, <2>3, <2>5, <2>6, <2>7, <2>8, <2>9, <2>10 DEF EventKind
<1>16. \A x \in Op : row'[x] = "confirmed" => row[x] = "confirmed" \/ x \in credits'
  BY <1>5, <1>10
<1>17. \A x \in Op : keyOf'[x] = NoKey => keyOf[x] = NoKey /\ session'[x] = session[x]
  BY <1>1
<1>18. /\ \A x \in Op : row'[x] # "none" => row[x] # "none"
       /\ \A x \in credits' : x \in credits \/ session'[x] = "paid"
  BY <1>6, <1>8
<1>19. QED
  BY <1>1, <1>7, <1>11, <1>12, <1>13, <1>14, <1>15, <1>16, <1>17, <1>18 DEF Step

-----------------------------------------------------------------------------
LEMMA InitInv == Init => Inv
<1> SUFFICES ASSUME Init PROVE Inv
  OBVIOUS
<1>1. TypeOK
  <2>1. 0 \in 0..MaxUpsets
    OBVIOUS
  <2>2. QED
    BY <2>1 DEF Init, TypeOK, Status, SessionState
<1>2. Fallow /\ Truthful /\ Reading
  BY DEF Init, Fallow, Truthful, Reading, Judging
<1>3. Minting /\ Recorded
  BY DEF Init, Minting, Recorded, Opening, Claimed, Opened
<1>4. LedgerBacked /\ AnsweredIsApplied
  BY DEF Init, LedgerBacked, AnsweredIsApplied
<1>5. QED
  BY <1>1, <1>2, <1>3, <1>4 DEF Inv

LEMMA NextInv == Inv /\ [Next]_vars => Inv'
<1> SUFFICES ASSUME Inv, [Next]_vars PROVE Inv'
  OBVIOUS
<1>1. ASSUME NEW o \in Op, Payer(o) \/ OfferAgain(o) PROVE Step
  BY <1>1, PayerMoves, StripeStep, OfferAgainStep
<1>2. ASSUME NEW r \in Refund, PayBack(r) PROVE Step
  BY <1>2, PayBackMoves, StripeStep
<1>3. ASSUME NEW p \in Server, NEW k \in Key, Begin(p, k) PROVE Step
  BY <1>3, BeginStep
<1>4. ASSUME NEW p \in Server, Attach(p) \/ Offer(p) \/ Ask(p) \/ Finish(p) \/ RollBack(p) PROVE Step
  BY <1>4, AttachStep, OfferStep, AskStep, FinishStep, RollBackStep
<1>5. ASSUME NEW p \in Server, NEW e \in events, Receive(p, e) PROVE Step
  BY <1>5, ReceiveStep
<1>6. ASSUME NEW p \in Server, NEW o \in Op, PollStatus(p, o) PROVE Step
  BY <1>6, PollStatusStep
<1>7. CASE UNCHANGED vars
  <2>1. UNCHANGED <<row, keyOf, session, refunded, events, handed, receipts, credits, mirrored,
                    at, work, seen, found, upsets>>
    BY <1>7 DEF vars, stripe, ledger, servers
  <2>2. StripeMoves
    BY <2>1 DEF StripeMoves, ledger, servers, Inv, TypeOK
  <2>3. QED
    BY <2>2, StripeStep, StepInv
<1>8. QED
  BY <1>1, <1>2, <1>3, <1>4, <1>5, <1>6, <1>7, StepInv DEF Next, Payer

LEMMA InvAlways == Spec => []Inv
BY InitInv, NextInv, PTL DEF Spec

\* Every variable keeps its type; a receipt is only ever kept for an event Stripe sent.
THEOREM TypeCorrect == Spec => []TypeOK
<1>1. Inv => TypeOK
  BY DEF Inv
<1>2. QED
  BY InvAlways, <1>1, PTL

\* Whatever the order and number of Stripe's signals, polls and rollbacks, a credit has
\* a payment behind it, a correction a refund and a credit, and an operation that says
\* "confirmed" is credited (stripe_funding.py:439).
THEOREM Backed == Spec => []LedgerBacked
<1>1. Inv => LedgerBacked
  BY DEF Inv
<1>2. QED
  BY InvAlways, <1>1, PTL

\* Stripe is told an event was received only when its effect is there: the receipt and
\* the effect are one transaction (stripe_funding.py:572).
THEOREM Applied == Spec => []AnsweredIsApplied
<1>1. Inv => AnsweredIsApplied
  BY DEF Inv
<1>2. QED
  BY InvAlways, <1>1, PTL

\* A client that retries under its key is never shown a second checkout, and a payer
\* only one whose operation is on record.
THEOREM Single == Spec => []OneCheckout
<1>1. Inv => OneCheckout
  <2>1. SUFFICES ASSUME Inv, NEW o \in handed
                 PROVE  row[o] # "none" /\ \A other \in handed : keyOf[other] = keyOf[o] => other = o
    BY DEF OneCheckout
  <2>2. \A x \in handed : x \in Op /\ Claimed(x) /\ row[x] # "none"
    BY <2>1 DEF Inv, TypeOK, Recorded, Claimed
  <2>3. QED
    BY <2>1, <2>2 DEF Inv, Minting
<1>2. QED
  BY InvAlways, <1>1, PTL
=============================================================================
