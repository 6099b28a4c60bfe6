------------------------------ MODULE Funding ------------------------------
(***************************************************************************)
(* Adding funds to one campaign (app/billing/stripe_funding.py and the      *)
(* endpoints of app/billing/router.py that call it): the checkout, Stripe's *)
(* events in any order and more than once, the status poll that asks        *)
(* Stripe, refunds, and the capacity ledger they credit and correct.        *)
(*                                                                         *)
(* A server works on one request at a time, in one transaction that reads   *)
(* the operation's row without locking it and writes at its end.  Stripe is *)
(* modelled from what the code asks of it.                                  *)
(***************************************************************************)
EXTENDS Naturals, FiniteSets

CONSTANTS Op,         \* ids of funding operations
          Key,        \* idempotency keys the table's clients use
          Server,     \* transactions that may run at the same time
          Amount,     \* cents of an operation; a refund returns one of them
          MaxUpsets   \* bound: rollbacks, dropped answers and declined cards

NoKey == "no key"
ASSUME FundingAssumption == Amount \in Nat /\ MaxUpsets \in Nat /\ NoKey \notin Key

VARIABLES
  row, keyOf,          \* the campaign_funding_operations rows: status and key
  session, refunded,   \* Stripe: each operation's checkout session, its refunds
  events,              \* Stripe: the events it delivers until they are answered
  handed,              \* operations whose checkout URL reached a client
  receipts,            \* the stripe_webhook_events rows
  credits, mirrored,   \* ledger: added_funds entries, refund corrections
  at, work, seen, found,  \* of each server: place, event, and what it has read
  upsets

stripe == <<session, refunded, events>>
ledger == <<credits, mirrored>>
servers == <<at, work, seen, found>>
vars == <<row, keyOf, stripe, handed, receipts, ledger, servers, upsets>>

Terminal == {"confirmed", "failed", "canceled"}
Status == Terminal \cup {"none", "pending"}
Refund == Op \X (1..Amount)
SessionState == {"none", "open", "processing", "paid", "dead", "expired", "canceled"}
EventKind == {"completed", "completed_unpaid", "succeeded", "declined",
              "async_failed", "expired", "canceled", "refund"}
Event == [kind : EventKind, op : Op, moved : SUBSET Refund]
Idle == [kind |-> "idle"]
Poll(o) == [kind |-> "poll", op |-> o, moved |-> {}]
Create(o) == [kind |-> "create", op |-> o, moved |-> {}]
Work == Event \cup {Poll(o) : o \in Op} \cup {Create(o) : o \in Op}

TypeOK ==
  /\ row \in [Op -> Status] /\ keyOf \in [Op -> Key \cup {NoKey}]
  /\ session \in [Op -> SessionState] /\ refunded \subseteq Refund
  /\ events \subseteq Event /\ handed \subseteq Op /\ receipts \subseteq events
  /\ credits \subseteq Op /\ mirrored \subseteq Refund
  /\ at \in [Server -> {"rest", "read", "looked"}]
  /\ work \in [Server -> Work \cup {Idle}]
  /\ seen \in [Server -> Status] /\ found \in [Server -> SessionState]
  /\ upsets \in 0..MaxUpsets

Init ==
  /\ row = [o \in Op |-> "none"] /\ keyOf = [o \in Op |-> NoKey]
  /\ session = [o \in Op |-> "none"] /\ refunded = {}
  /\ events = {} /\ handed = {} /\ receipts = {}
  /\ credits = {} /\ mirrored = {}
  /\ at = [p \in Server |-> "rest"] /\ work = [p \in Server |-> Idle]
  /\ seen = [p \in Server |-> "none"] /\ found = [p \in Server |-> "none"]
  /\ upsets = 0

Upset == upsets < MaxUpsets /\ upsets' = upsets + 1

-----------------------------------------------------------------------------
(* Stripe, and the payer behind it.  An event of a kind is sent once; it is *)
(* delivered again until it is answered with success, and perhaps later.    *)

Emit(kinds, o) == events' = events \cup {[kind |-> k, op |-> o, moved |-> {}] : k \in kinds}
Becomes(o, state) == session' = [session EXCEPT ![o] = state]

Decline(o) ==  \* a card attempt fails; the payer may try another
  /\ o \in handed /\ session[o] = "open" /\ Upset
  /\ Emit({"declined"}, o)
  /\ UNCHANGED <<row, keyOf, session, refunded, handed, receipts, ledger, servers>>

Complete(o) ==  \* a slow payment method: the session completes before the money
  /\ o \in handed /\ session[o] = "open"
  /\ Becomes(o, "processing") /\ Emit({"completed_unpaid"}, o)
  /\ UNCHANGED <<row, keyOf, refunded, handed, receipts, ledger, servers, upsets>>

Pay(o) ==
  /\ o \in handed
  /\ \/ session[o] = "open" /\ Emit({"completed", "succeeded"}, o)
     \/ session[o] = "processing" /\ Emit({"succeeded"}, o)
  /\ Becomes(o, "paid")
  /\ UNCHANGED <<row, keyOf, refunded, handed, receipts, ledger, servers, upsets>>

\* Sessions expire long after the request that opened them.
GiveUp(o) ==
  /\ \A p \in Server : work[p] # Create(o)
  /\ \/ session[o] = "open" /\ Becomes(o, "expired") /\ Emit({"expired"}, o)
     \/ session[o] = "processing" /\ Becomes(o, "dead") /\ Emit({"async_failed"}, o)
     \/ session[o] \in {"open", "processing"} /\ Becomes(o, "canceled") /\ Emit({"canceled"}, o)
  /\ UNCHANGED <<row, keyOf, refunded, handed, receipts, ledger, servers, upsets>>

\* A refund is announced before it moves money; when it does, one event carries
\* it alone and one every refund of the charge.
AskRefund(o) ==
  /\ session[o] = "paid"
  /\ Emit({"refund"}, o)
  /\ UNCHANGED <<row, keyOf, session, refunded, handed, receipts, ledger, servers, upsets>>

PayBack(r) ==
  /\ session[r[1]] = "paid"
  /\ r[2] = Cardinality({s \in refunded : s[1] = r[1]}) + 1
  /\ refunded' = refunded \cup {r}
  /\ events' = events \cup
       {[kind |-> "refund", op |-> r[1], moved |-> moved] :
          moved \in {{r}, {s \in refunded' : s[1] = r[1]}}}
  /\ UNCHANGED <<row, keyOf, session, handed, receipts, ledger, servers, upsets>>

-----------------------------------------------------------------------------
(* Checkout.                                                               *)

\* The row an uncommitted creation has inserted under a key blocks the next one.
Creating(k) == \E p \in Server : at[p] # "rest" /\ work[p].kind = "create" /\ keyOf[work[p].op] = k
Holds(k) == {o \in Op : keyOf[o] = k /\ row[o] # "none"}

\* A new id; ids are interchangeable, so any one will do.
Unused == {o \in Op : keyOf[o] = NoKey}
Fresh == CHOOSE o \in Unused : TRUE

\* fault: a retry mints an operation although its key already has one
BeginAgain(p, k) ==
  /\ at[p] = "rest" /\ ~Creating(k) /\ Unused # {}
  /\ keyOf' = [keyOf EXCEPT ![Fresh] = k]
  /\ at' = [at EXCEPT ![p] = "read"] /\ work' = [work EXCEPT ![p] = Create(Fresh)]
  /\ UNCHANGED <<row, stripe, handed, receipts, ledger, seen, found, upsets>>

\* create_funding_operation finds no row under the key and mints one.
Begin(p, k) ==
  /\ at[p] = "rest" /\ Holds(k) = {} /\ ~Creating(k) /\ Unused # {}
  /\ keyOf' = [keyOf EXCEPT ![Fresh] = k]
  /\ at' = [at EXCEPT ![p] = "read"] /\ work' = [work EXCEPT ![p] = Create(Fresh)]
  /\ UNCHANGED <<row, stripe, handed, receipts, ledger, seen, found, upsets>>

\* _attach_stripe_session: Stripe's idempotency key is the id of the operation.
Attach(p) ==
  /\ at[p] = "read" /\ work[p].kind = "create"
  /\ Becomes(work[p].op, "open")
  /\ at' = [at EXCEPT ![p] = "looked"]
  /\ UNCHANGED <<row, keyOf, refunded, events, handed, receipts, ledger, work, seen, found, upsets>>

Rest(p) ==
  /\ at' = [at EXCEPT ![p] = "rest"] /\ work' = [work EXCEPT ![p] = Idle]
  /\ seen' = [seen EXCEPT ![p] = "none"] /\ found' = [found EXCEPT ![p] = "none"]

\* The endpoint commits, then answers with the URL; the answer may be lost.
Offer(p) ==
  /\ at[p] = "looked" /\ work[p].kind = "create"
  /\ row' = [row EXCEPT ![work[p].op] = "pending"]
  /\ \/ handed' = handed \cup {work[p].op} /\ UNCHANGED upsets
     \/ Upset /\ UNCHANGED handed
  /\ Rest(p)
  /\ UNCHANGED <<keyOf, stripe, receipts, ledger>>

\* A retry under the same key is answered with the operation's own URL.
OfferAgain(o) ==
  /\ row[o] # "none" /\ o \notin handed
  /\ handed' = handed \cup {o}
  /\ UNCHANGED <<row, keyOf, stripe, receipts, ledger, servers, upsets>>

-----------------------------------------------------------------------------
(* Webhook and status poll.                                                *)

\* fault: the receipt is committed before the event takes effect
ReceiveEagerly(p, e) ==
  /\ at[p] = "rest" /\ e \in events \ receipts
  /\ \A q \in Server : work[q] # e
  /\ at' = [at EXCEPT ![p] = "read"] /\ work' = [work EXCEPT ![p] = e]
  /\ seen' = [seen EXCEPT ![p] = row[e.op]]
  /\ receipts' = receipts \cup {e}
  /\ UNCHANGED <<row, keyOf, stripe, handed, ledger, found, upsets>>

\* handle_stripe_event inserts the receipt, whose unique id makes a second
\* delivery wait for the first, and resolves the operation.
Receive(p, e) ==
  /\ at[p] = "rest" /\ e \in events \ receipts
  /\ \A q \in Server : work[q] # e
  /\ at' = [at EXCEPT ![p] = "read"] /\ work' = [work EXCEPT ![p] = e]
  /\ seen' = [seen EXCEPT ![p] = row[e.op]]
  /\ UNCHANGED <<row, keyOf, stripe, handed, receipts, ledger, found, upsets>>

PollStatus(p, o) ==
  /\ at[p] = "rest" /\ row[o] = "pending"
  /\ at' = [at EXCEPT ![p] = "read"] /\ work' = [work EXCEPT ![p] = Poll(o)]
  /\ seen' = [seen EXCEPT ![p] = row[o]]
  /\ UNCHANGED <<row, keyOf, stripe, handed, receipts, ledger, found, upsets>>

\* reconcile_funding_operation is reached with a pending operation only.
MustAsk(p) ==
  /\ work[p].kind \in {"poll", "refund"}
  /\ seen[p] = "pending"

Ask(p) ==
  /\ at[p] = "read" /\ MustAsk(p)
  /\ found' = [found EXCEPT ![p] = session[work[p].op]]
  /\ at' = [at EXCEPT ![p] = "looked"]
  /\ UNCHANGED <<row, keyOf, stripe, handed, receipts, ledger, work, seen, upsets>>

\* fault: a checkout completed without its payment counts as failed
ByEventHasty(kind) ==
  CASE kind \in {"completed", "succeeded"} -> "confirmed"
    [] kind \in {"expired", "canceled"} -> "canceled"
    [] OTHER -> "failed"

\* _dispatch_event: what an event makes of an operation that is still pending.
ByEvent(kind) ==
  CASE kind \in {"completed", "succeeded"} -> "confirmed"
    [] kind \in {"expired", "canceled"} -> "canceled"
    [] kind \in {"declined", "async_failed"} -> "failed"
    [] kind = "completed_unpaid" -> "pending"

\* fault: the row takes Stripe's word for the status
ByStripeRaw(state) ==
  IF state \in {"open", "processing"} THEN "pending" ELSE state

\* fault: a session that awaits its money is taken for a paid one
ByStripeEager(state) ==
  CASE state \in {"paid", "processing"} -> "confirmed"
    [] state \in {"expired", "canceled"} -> "canceled"
    [] OTHER -> "pending"

\* reconcile_funding_operation: what the state at Stripe makes of it.
ByStripe(state) ==
  CASE state = "paid" -> "confirmed"
    [] state \in {"expired", "canceled"} -> "canceled"
    [] OTHER -> "pending"

\* confirm_funding_operation and mark_funding_terminal judge by the status the
\* request has read: a terminal one stands.
Outcome(p) ==
  IF seen[p] # "pending" THEN seen[p]
  ELSE IF work[p].kind \in {"poll", "refund"} THEN ByStripe(found[p])
  ELSE ByEvent(work[p].kind)

\* The refunds that moved money and are not mirrored yet.
Returned(p) == work[p].moved \ mirrored

Finish(p) ==
  LET o == work[p].op
      credited == Outcome(p) = "confirmed" /\ seen[p] = "pending"
      corrected == IF Outcome(p) = "confirmed" THEN Returned(p) ELSE {}
  IN /\ at[p] = (IF MustAsk(p) THEN "looked" ELSE "read") /\ work[p].kind # "create"
     /\ Cardinality({r \in mirrored \cup corrected : r[1] = o}) <= Amount
     /\ IF seen[p] = "pending" /\ Outcome(p) # "pending"
        THEN row' = [row EXCEPT ![o] = Outcome(p)]
        ELSE UNCHANGED row
     /\ credits' = IF credited THEN credits \cup {o} ELSE credits
     /\ mirrored' = mirrored \cup corrected
     /\ receipts' = IF work[p] \in Event THEN receipts \cup {work[p]} ELSE receipts
     /\ Rest(p)
     /\ UNCHANGED <<keyOf, stripe, handed, upsets>>

\* An error, a lost connection or a crash: the transaction is rolled back, and
\* the client or Stripe is told nothing or that it failed.
RollBack(p) ==
  /\ at[p] # "rest" /\ Upset
  /\ Rest(p)
  /\ UNCHANGED <<row, keyOf, stripe, handed, receipts, ledger>>

Next ==
  \/ \E o \in Op : Decline(o) \/ Complete(o) \/ Pay(o) \/ GiveUp(o) \/ AskRefund(o) \/ OfferAgain(o)
  \/ \E r \in Refund : PayBack(r)
  \/ \E p \in Server :
       \/ \E k \in Key : Begin(p, k)
       \/ Attach(p) \/ Offer(p) \/ Ask(p) \/ Finish(p) \/ RollBack(p)
       \/ \E e \in events : Receive(p, e)
       \/ \E o \in Op : PollStatus(p, o)

Spec == Init /\ [][Next]_vars

\* A server goes on with what it has begun; Stripe delivers an event again for
\* as long as it is not answered with success.
Fairness ==
  /\ \A p \in Server : WF_vars(Attach(p) \/ Offer(p) \/ Ask(p) \/ Finish(p))
  /\ \A o \in Op, k \in {"completed", "succeeded"} :
       SF_vars(\E p \in Server : Receive(p, [kind |-> k, op |-> o, moved |-> {}]))
FairSpec == Spec /\ Fairness

-----------------------------------------------------------------------------
(* Properties.                                                             *)

FailureTold(o) ==
  \E e \in receipts : e.op = o /\ e.kind \in {"declined", "async_failed", "expired", "canceled"}

\* The ledger says what happened to the money: a credit has a payment behind
\* it, a correction a refund and a credit to correct, and an operation that
\* says "confirmed" has been credited.  (No signal credits what was not paid,
\* and no refund is posted against nothing, whatever the order.)
LedgerBacked ==
  /\ \A o \in credits : session[o] = "paid"
  /\ \A r \in mirrored : r \in refunded /\ r[1] \in credits
  /\ \A o \in Op : row[o] = "confirmed" => o \in credits

\* Stripe is told that an event was received only when its effect is there: a
\* payment has been credited and its refunds corrected.  Excepted are checkouts
\* that never were on record and operations a failure signal has closed.  (The
\* receipt and the effect are one transaction, and the status the effect is
\* judged by may be out of date when it commits.)
AnsweredIsApplied ==
  \A e \in receipts :
    \/ row[e.op] = "none" \/ FailureTold(e.op)
    \/ e.op \in credits /\ e.moved \subseteq mirrored
    \/ e.kind = "completed_unpaid"

\* A client that retries is never shown two checkouts for one key, and a payer
\* is only ever shown one whose operation is on record.
OneCheckout ==
  \A o \in handed :
    /\ row[o] # "none"
    /\ \A other \in handed : keyOf[other] = keyOf[o] => other = o

\* A payment is credited in the end, unless a declined attempt closed the
\* operation before.
PaidIsCredited ==
  \A o \in Op : session[o] = "paid" ~> o \in credits \/ FailureTold(o)

\* This one does not hold (README, section 5): "a confirmed operation is never
\* un-confirmed by a late failure signal" (stripe_funding.py:513).
ConfirmedStays == [][\A o \in Op : row[o] = "confirmed" => row'[o] = "confirmed"]_vars
=============================================================================
