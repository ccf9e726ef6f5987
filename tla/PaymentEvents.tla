----------------------------- MODULE PaymentEvents -----------------------------
(***************************************************************************)
(* The webhook inbox and the payment events it applies, for one provider   *)
(* connection and one order of one_time billing whose product grants an    *)
(* entitlement.                                                            *)
(*                                                                         *)
(* A worker is one HTTP request of the provider.  It writes the inbox row, *)
(* applies the event in one transaction, and then either publishes the     *)
(* developer event or, when the transaction was rolled back, marks the row *)
(* failed; these are separate commits, so workers interleave between them. *)
(* A transaction holds the inbox row, the advisory lock of the payment and *)
(* the row locks of the order and the payment, so it is one step.          *)
(*                                                                         *)
(*   pay        payments.status ("none": no such row)                      *)
(*   paid       payments.amount_minor                                      *)
(*   bound      payments.order_id is set                                   *)
(*   order      orders.status                                              *)
(*   access     entitlement_grants.status of the order's entitlement       *)
(*   grantedBy  the event whose date that grant carries                    *)
(*   fact       refunds, by payment and provider_refund_id                 *)
(*   inbox      webhook_events.status, by provider event id                *)
(*   notice     the event itself (webhook_events.normalized_event)         *)
(*   work       what each worker is doing, and for which event             *)
(*   published  the developer events dispatched                            *)
(*   made       the provider's own books: what each refund paid back       *)
(*   faults     how many aborts and crashes there have been                *)
(***************************************************************************)
EXTENDS Totals

CONSTANTS
  Payments,       \* provider payment ids
  Events,         \* provider event ids
  Refunds,        \* provider refund ids
  Workers,        \* requests handled at the same time
  OrderTotal,     \* orders.total_amount_minor
  RefundNotices,  \* what refund events carry: the order, the id, the amount
  MaxFaults,      \* aborts and crashes, together
  Synthetic,      \* the id refund:<payment> the journal makes up
  NoEvent, NoRefund

NoAmount == -1    \* an absent amount, NULL in a row

ASSUME PaymentAssumption ==
  /\ IsFiniteSet(Events) /\ IsFiniteSet(Refunds)
  /\ OrderTotal \in 1 .. MaxAmount
  /\ RefundNotices \subseteq [order : BOOLEAN, named : BOOLEAN, amount : BOOLEAN]
  /\ MaxFaults \in Nat
  /\ NoEvent \notin Events /\ NoRefund \notin Refunds
  /\ Refunds \cap Events = {}
  /\ Synthetic \notin Refunds \cup Events

VARIABLES pay, paid, bound, order, access, grantedBy, fact,
          inbox, notice, work, published, made, faults

payment == <<pay, paid, bound>>
entitlement == <<access, grantedBy>>
commerce == <<payment, order, entitlement, fact>>
vars == <<commerce, inbox, notice, work, published, made, faults>>

PaymentStatus == {"none", "failed", "succeeded", "refunded"}
OrderStatus == {"pending", "paid", "failed", "refunded"}
FactIds == Refunds \cup Events \cup {Synthetic}
FactStatus == {"none", "pending", "succeeded", "failed", "superseded"}
Fact == [status : FactStatus, amount : Amounts \cup {NoAmount}]
NoFact == [status |-> "none", amount |-> NoAmount]

\* A normalized event.  An event without an order carries provider ids only.
Notice == [type : {"payment.succeeded", "payment.failed", "payment.refunded"},
           payment : Payments, order : BOOLEAN,
           amount : Amounts \cup {NoAmount}, refund : Refunds \cup {NoRefund}]

Idle == [at |-> "idle", event |-> NoEvent]

TypeOK ==
  /\ pay \in [Payments -> PaymentStatus]
  /\ paid \in [Payments -> Amounts]
  /\ bound \in [Payments -> BOOLEAN]
  /\ order \in OrderStatus
  /\ access \in {"none", "active", "revoked"}
  /\ grantedBy \in Events \cup {NoEvent}
  /\ fact \in [Payments -> [FactIds -> Fact]]
  /\ inbox \in [Events -> {"none", "received", "processed", "ignored", "failed"}]
  /\ notice \in [Events -> {NoEvent} \cup Notice]
  /\ \A e \in Events : inbox[e] # "none" => notice[e] \in Notice
  /\ work \in [Workers -> {Idle} \cup [at : {"apply", "rolled back", "publish"},
                                       event : Events]]
  /\ published \subseteq {"payment.succeeded", "payment.failed", "payment.refunded"}
                         \X Payments \X (FactIds \cup {NoRefund})
  /\ made \in [Payments -> [Refunds -> 0 .. OrderTotal]]
  /\ faults \in 0 .. MaxFaults

-------------------------------------------------------------------------------
(* What a payment event means for the rows it meets.                       *)

Exists(p) == pay[p] # "none"

Mut_EventOrderOnly(x) == x.order
\* The order of the event, or the one the payment is bound to.
KnowsOrder(x) == x.order \/ bound[x.payment]

Mut_SeedFromEvent(x) ==
  IF x.amount # NoAmount THEN x.amount
  ELSE IF KnowsOrder(x) THEN OrderTotal
  ELSE IF Exists(x.payment) THEN paid[x.payment] ELSE NoAmount
\* The amount of the payment the event is about.  A refund that arrives
\* first carries the amount of the refund, so the order's total comes first.
AmountFrom(x) ==
  IF x.type = "payment.refunded" /\ ~Exists(x.payment)
  THEN IF x.order THEN OrderTotal ELSE x.amount
  ELSE IF x.amount # NoAmount THEN x.amount
  ELSE IF KnowsOrder(x) THEN OrderTotal
  ELSE IF Exists(x.payment) THEN paid[x.payment] ELSE NoAmount

Mut_ByEvent(x) == NoFact
\* A refund is identified by its provider id, never by the event's.
Recorded(x) == IF x.refund = NoRefund THEN NoFact ELSE fact[x.payment][x.refund]
Upgrades(x) == Recorded(x).status = "pending"

Mut_KeepsSynthetic(x) == fact[x.payment]
\* The refund rows of the payment once the real refund id has replaced the
\* one the journal made up.
Aligned(x) ==
  LET replaces == x.refund # NoRefund /\ Recorded(x).status = "none"
                  /\ fact[x.payment][Synthetic].status = "pending" IN
  [fact[x.payment] EXCEPT
     ![Synthetic].status = IF replaces THEN "superseded" ELSE @]

\* The rows that use up what can be refunded, without the one this event
\* confirms.
Counted(x) ==
  {k \in FactIds : /\ Aligned(x)[k].status \in {"pending", "succeeded"}
                   /\ ~(Upgrades(x) /\ k = x.refund)}
Confirmed(x) == {k \in Counted(x) : Aligned(x)[k].status = "succeeded"}

Sum(rows, S) ==
  Total([k \in FactIds |-> IF rows[k].amount = NoAmount THEN 0 ELSE rows[k].amount], S)

Captured(x) == IF Exists(x.payment) THEN paid[x.payment] ELSE AmountFrom(x)

\* A row whose amount is not known counts as a full refund.
Headroom(x) ==
  IF \E k \in Counted(x) : Aligned(x)[k].amount = NoAmount THEN 0
  ELSE Captured(x) - Sum(Aligned(x), Counted(x))

\* What the event books: as reported when it confirms a pending row, capped
\* at the headroom otherwise.
Applied(x) ==
  IF Upgrades(x)
  THEN IF x.amount # NoAmount THEN x.amount
       ELSE IF Recorded(x).amount # NoAmount THEN Recorded(x).amount ELSE Headroom(x)
  ELSE IF x.amount = NoAmount THEN Headroom(x) ELSE Least(x.amount, Headroom(x))

FullyRefunds(x) == Sum(Aligned(x), Confirmed(x)) + Applied(x) >= Captured(x)

\* The refund is on record already, and the event does not contradict it.
Repeats(x) ==
  /\ Recorded(x).status = "succeeded"
  /\ Recorded(x).amount = NoAmount \/ x.amount \in {NoAmount, Recorded(x).amount}

Mut_ResurrectRefunded(x) ==
  CASE x.type = "payment.succeeded" ->
         pay[x.payment] = "succeeded" /\ (KnowsOrder(x) => order = "paid")
    [] x.type = "payment.failed" -> pay[x.payment] \in {"succeeded", "refunded"}
    [] OTHER -> Repeats(x) \/ (~Upgrades(x) /\ Headroom(x) <= 0)
Mut_GrantOnReplay(x) ==
  CASE x.type = "payment.succeeded" -> pay[x.payment] = "refunded"
    [] x.type = "payment.failed" -> pay[x.payment] \in {"succeeded", "refunded"}
    [] OTHER -> Repeats(x) \/ (~Upgrades(x) /\ Headroom(x) <= 0)
Mut_IgnoreSucceeded(x) ==
  CASE x.type = "payment.succeeded" -> pay[x.payment] \in {"succeeded", "refunded"}
    [] x.type = "payment.failed" -> pay[x.payment] \in {"succeeded", "refunded"}
    [] OTHER -> Repeats(x) \/ (~Upgrades(x) /\ Headroom(x) <= 0)
\* The events acknowledged without effect.
Ignorable(x) ==
  CASE x.type = "payment.succeeded" ->
         \/ pay[x.payment] = "refunded"
         \/ /\ pay[x.payment] = "succeeded"
            /\ KnowsOrder(x) => order \in {"paid", "refunded"}
    [] x.type = "payment.failed" -> pay[x.payment] \in {"succeeded", "refunded"}
    [] OTHER -> Repeats(x) \/ (~Upgrades(x) /\ Headroom(x) <= 0)

\* The grant of another event carries another date: grantEntitlement throws.
GrantConflict(e, x) == KnowsOrder(x) /\ grantedBy \notin {NoEvent, e}

Mut_AmountOptional(e, x) ==
  \/ Recorded(x).status = "succeeded" /\ ~Repeats(x)
  \/ x.type = "payment.succeeded" /\ ~Ignorable(x) /\ GrantConflict(e, x)
\* The events whose transaction throws, whenever it runs in this state.
Invalid(e, x) ==
  \/ AmountFrom(x) = NoAmount
  \/ Recorded(x).status = "succeeded" /\ ~Repeats(x)
  \/ x.type = "payment.refunded" /\ ~Ignorable(x) /\ Applied(x) < 0
  \/ x.type = "payment.succeeded" /\ ~Ignorable(x) /\ GrantConflict(e, x)

-------------------------------------------------------------------------------
(* The transaction of an event.                                            *)

SetPayment(x, status) ==
  /\ pay' = [pay EXCEPT ![x.payment] = status]
  /\ paid' = IF Exists(x.payment) THEN paid
             ELSE [paid EXCEPT ![x.payment] = AmountFrom(x)]
  /\ bound' = [bound EXCEPT ![x.payment] = KnowsOrder(x)]

SetOrder(x, sources, status) ==
  order' = IF KnowsOrder(x) /\ order \in sources THEN status ELSE order

Succeed(e, x) ==
  /\ x.type = "payment.succeeded"
  /\ SetPayment(x, "succeeded")
  /\ SetOrder(x, {"pending", "failed"}, "paid")
  /\ IF KnowsOrder(x) /\ grantedBy = NoEvent
     THEN access' = "active" /\ grantedBy' = e
     ELSE UNCHANGED entitlement
  /\ UNCHANGED fact

Decline(e, x) ==
  /\ x.type = "payment.failed"
  /\ SetPayment(x, "failed")
  /\ SetOrder(x, {"pending"}, "failed")
  /\ UNCHANGED <<entitlement, fact>>

\* Only a cumulative full refund closes the payment and the order.
Refund(e, x) ==
  LET full == FullyRefunds(x)
      id == IF x.refund = NoRefund THEN e ELSE x.refund IN
  /\ x.type = "payment.refunded"
  /\ SetPayment(x, IF full THEN "refunded"
                   ELSE IF Exists(x.payment) THEN pay[x.payment] ELSE "succeeded")
  /\ SetOrder(x, IF full THEN {"pending", "paid"} ELSE {}, "refunded")
  /\ fact' = [fact EXCEPT ![x.payment] =
                [Aligned(x) EXCEPT ![id] = [status |-> "succeeded", amount |-> Applied(x)]]]
  /\ access' = IF full /\ KnowsOrder(x) /\ access = "active" THEN "revoked" ELSE access
  /\ UNCHANGED grantedBy

-------------------------------------------------------------------------------
(* The workers.                                                            *)

Running(w, e) == work[w] = [at |-> "apply", event |-> e]
Goto(w, at, e) == work' = [work EXCEPT ![w] = [at |-> at, event |-> e]]
Rest(w) == work' = [work EXCEPT ![w] = Idle]

\* processProviderWebhook for an event the inbox has not seen: the row.
Receive(w, e, x) ==
  /\ work[w] = Idle
  /\ inbox[e] = "none"
  /\ inbox' = [inbox EXCEPT ![e] = "received"]
  /\ notice' = [notice EXCEPT ![e] = x]
  /\ Goto(w, "apply", e)
  /\ UNCHANGED <<commerce, published, faults>>

ReceivePayment(w, e) ==
  /\ \E p \in Payments, known \in BOOLEAN :
       \/ Receive(w, e, [type |-> "payment.succeeded", payment |-> p, order |-> known,
                         amount |-> OrderTotal, refund |-> NoRefund])
       \/ Receive(w, e, [type |-> "payment.failed", payment |-> p, order |-> known,
                         amount |-> NoAmount, refund |-> NoRefund])
  /\ UNCHANGED made

\* The refund r of payment p, made now or reported before.  The provider pays
\* back no more than it captured, and only a refund of everything goes
\* without an amount.
ReceiveRefund(w, e) ==
  \E p \in Payments, r \in Refunds, n \in 1 .. OrderTotal, shape \in RefundNotices :
    /\ made[p][r] \in {0, n}
    /\ made' = [made EXCEPT ![p][r] = n]
    /\ Total(made'[p], Refunds) <= OrderTotal
    /\ shape.amount \/ n = OrderTotal
    /\ Receive(w, e, [type |-> "payment.refunded", payment |-> p,
                      order |-> shape.order,
                      amount |-> IF shape.amount THEN n ELSE NoAmount,
                      refund |-> IF shape.named THEN r ELSE NoRefund])

\* The same event again: a retry of the provider, or a duplicate.
Redeliver(w, e) ==
  /\ work[w] = Idle
  /\ inbox[e] # "none"
  /\ Goto(w, "apply", e)
  /\ UNCHANGED <<commerce, inbox, notice, published, made, faults>>

Pending(e) == inbox[e] \in {"received", "failed"}

Mut_ReplayRests(w, e) ==
  /\ Running(w, e)
  /\ ~Pending(e)
  /\ Rest(w)
  /\ UNCHANGED <<commerce, inbox, notice, published, made, faults>>
\* The transaction finds the event done already.
Replay(w, e) ==
  /\ Running(w, e)
  /\ ~Pending(e)
  /\ IF inbox[e] = "processed" THEN Goto(w, "publish", e) ELSE Rest(w)
  /\ UNCHANGED <<commerce, inbox, notice, published, made, faults>>

Apply(w, e) ==
  /\ Running(w, e)
  /\ Pending(e)
  /\ ~Ignorable(notice[e])
  /\ ~Invalid(e, notice[e])
  /\ Succeed(e, notice[e]) \/ Decline(e, notice[e]) \/ Refund(e, notice[e])
  /\ inbox' = [inbox EXCEPT ![e] = "processed"]
  /\ Goto(w, "publish", e)
  /\ UNCHANGED <<notice, published, made, faults>>

Ignore(w, e) ==
  /\ Running(w, e)
  /\ Pending(e)
  /\ Ignorable(notice[e])
  /\ ~Invalid(e, notice[e])
  /\ fact' = [fact EXCEPT ![notice[e].payment] = Aligned(notice[e])]
  /\ inbox' = [inbox EXCEPT ![e] = "ignored"]
  /\ Rest(w)
  /\ UNCHANGED <<payment, order, entitlement, notice, published, made, faults>>

\* The transaction throws and is rolled back.
Reject(w, e) ==
  /\ Running(w, e)
  /\ Pending(e)
  /\ Invalid(e, notice[e])
  /\ Goto(w, "rolled back", e)
  /\ UNCHANGED <<commerce, inbox, notice, published, made, faults>>

\* It fails for a passing reason: contention, a deadlock, a lost connection.
Abort(w, e) ==
  /\ Running(w, e)
  /\ faults < MaxFaults
  /\ faults' = faults + 1
  /\ Goto(w, "rolled back", e)
  /\ UNCHANGED <<commerce, inbox, notice, published, made>>

\* The catch block: whatever the row says by now, it is marked failed.
MarkFailed(w, e) ==
  /\ work[w] = [at |-> "rolled back", event |-> e]
  /\ inbox' = [inbox EXCEPT ![e] = "failed"]
  /\ Rest(w)
  /\ UNCHANGED <<commerce, notice, published, made, faults>>

\* The identity of the developer event: the refund, or the payment and the
\* outcome; the inbox row when a refund has no id.
DeveloperEvent(e, x) ==
  <<x.type, x.payment,
    IF x.type # "payment.refunded" THEN NoRefund
    ELSE IF x.refund = NoRefund THEN e ELSE x.refund>>

Publish(w, e) ==
  /\ work[w] = [at |-> "publish", event |-> e]
  /\ published' = published \cup {DeveloperEvent(e, notice[e])}
  /\ Rest(w)
  /\ UNCHANGED <<commerce, inbox, notice, made, faults>>

\* The process dies; what it committed stays.
Crash(w) ==
  /\ work[w] # Idle
  /\ faults < MaxFaults
  /\ faults' = faults + 1
  /\ Rest(w)
  /\ UNCHANGED <<commerce, inbox, notice, published, made>>

Init ==
  /\ pay = [p \in Payments |-> "none"]
  /\ paid = [p \in Payments |-> 0]
  /\ bound = [p \in Payments |-> FALSE]
  /\ order = "pending"
  /\ access = "none" /\ grantedBy = NoEvent
  /\ fact = [p \in Payments |-> [k \in FactIds |-> NoFact]]
  /\ inbox = [e \in Events |-> "none"]
  /\ notice = [e \in Events |-> NoEvent]
  /\ work = [w \in Workers |-> Idle]
  /\ published = {}
  /\ made = [p \in Payments |-> [r \in Refunds |-> 0]]
  /\ faults = 0

Arrive(w, e) == ReceivePayment(w, e) \/ ReceiveRefund(w, e) \/ Redeliver(w, e)
Handle(w, e) ==
  \/ Replay(w, e) \/ Apply(w, e) \/ Ignore(w, e) \/ Reject(w, e)
  \/ MarkFailed(w, e) \/ Publish(w, e)

Next ==
  \E w \in Workers :
    \/ \E e \in Events : Arrive(w, e) \/ Handle(w, e) \/ Abort(w, e)
    \/ Crash(w)

Spec == Init /\ [][Next]_vars

Settled(e) == inbox[e] \in {"processed", "ignored"}
Announced(e) == inbox[e] # "none" /\ DeveloperEvent(e, notice[e]) \in published

\* A provider that got no 2xx answer sends the event again, and a request
\* that is not killed runs to its end.
Unanswered(e) == ~Settled(e) \/ (inbox[e] = "processed" /\ ~Announced(e))
DeliveryFairness ==
  /\ \A e \in Events :
       SF_vars(\E w \in Workers : Unanswered(e) /\ Redeliver(w, e))
  /\ \A w \in Workers, e \in Events : WF_vars(Handle(w, e))

FairSpec == Spec /\ DeliveryFairness

-------------------------------------------------------------------------------
(* Safety.                                                                 *)

\* Access is never active without a payment of the order that stands: a
\* full refund takes it away, however little its notice says and whenever it
\* arrives, and nothing that arrives later gives it back.
AccessHasPayment ==
  access = "active" => \E p \in Payments : bound[p] /\ pay[p] = "succeeded"

\* Refunded is terminal for a payment, for the order, and for the access the
\* order gave.
RefundedIsFinal ==
  [][/\ \A p \in Payments : pay[p] = "refunded" => pay'[p] = "refunded"
     /\ order = "refunded" => order' = "refunded"
     /\ access = "revoked" => access' = "revoked"]_vars

Refunded(p) == Sum(fact[p], {k \in FactIds : fact[p][k].status = "succeeded"})

\* Every refund of payment p was reported under its id.
Named(p) ==
  \A e \in Events :
    /\ inbox[e] # "none"
    /\ notice[e].type = "payment.refunded" /\ notice[e].payment = p
    => notice[e].refund # NoRefund

\* A payment is closed only by refunds that add up to what it captured,
\* however often and under how many event ids each of them is reported.
RefundedIsCovered ==
  \A p \in Payments : pay[p] = "refunded" /\ Named(p) => Refunded(p) >= paid[p]

\* The books never refund more than was captured, whatever the events claim.
RefundsWithinCapture == \A p \in Payments : Refunded(p) <= paid[p]

\* The refunds of a payment never pass what it captured, and those that are
\* reported under their ids close it only when they add up to that.
RefundsAddUp == RefundedIsCovered /\ RefundsWithinCapture

\* The success of payment p was reported, for the order.
Sold(p) == \E e \in Events : /\ inbox[e] # "none"
                            /\ notice[e].type = "payment.succeeded"
                            /\ notice[e].payment = p /\ notice[e].order
PaidBack(p) == Total(made[p], Refunds)

\* The refund event says whose refund it is, and of which order.
Complete(e) ==
  notice[e].type = "payment.refunded" => notice[e].order /\ notice[e].refund # NoRefund

\* The order of delivery does not matter.  Once every event has settled, a
\* captured payment of the order is refunded exactly when the provider has
\* paid back all of it, and gives access exactly when it has not.
DeliveryOrderIsIrrelevant ==
  (\A e \in Events : inbox[e] # "none" => Settled(e) /\ Complete(e))
    => \A p \in Payments :
         Sold(p) =>
           /\ pay[p] = IF PaidBack(p) = OrderTotal THEN "refunded" ELSE "succeeded"
           /\ access = "active" <=> PaidBack(p) < OrderTotal
           /\ Refunded(p) = PaidBack(p)

(* Liveness.                                                               *)

\* Another payment gave the order its access.
BoughtAlready(e) ==
  /\ inbox[e] # "none" /\ grantedBy \notin {NoEvent, e}
  /\ notice[grantedBy].payment # notice[e].payment

\* The report of a sale is settled at last, whatever was reported before it,
\* unless the order has its access from another payment: the grant of a second
\* sale conflicts with that of the first at every delivery, and its report
\* never settles, though the handler says grants fire only if they never fired
\* for the order, and lets only a repeat for the same payment pass.
SalesSettle ==
  \A e \in Events :
    (/\ inbox[e] # "none"
     /\ notice[e].type = "payment.succeeded" /\ notice[e].order)
      ~> (Settled(e) \/ BoughtAlready(e))

\* A crash between the commit of an event and its announcement is healed by
\* the provider's redelivery, as long as the inbox row stays processed.
CrashBeforeFanoutHeals ==
  \A e \in Events : (inbox[e] = "processed") ~> (Announced(e) \/ inbox[e] = "failed")
===============================================================================
