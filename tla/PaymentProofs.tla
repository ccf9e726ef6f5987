---------------------------- MODULE PaymentProofs ----------------------------
(***************************************************************************)
(* That the payment events, lost, repeated, reordered, aborted and cut off *)
(* by crashes, keep the books of the payments of an order: for any number  *)
(* of payments, events, refunds and requests and any amounts.              *)
(***************************************************************************)
EXTENDS RevenueAnalytics, TotalsProofs

\* Webhooks alone leave only confirmed refunds of known amounts behind.
CleanRow(f) ==
  \A k \in FactIds :
    /\ f[k].status \in {"none", "succeeded"}
    /\ f[k].status = "succeeded" => f[k].amount \in Amounts

\* ... and only of payments on record.
Clean ==
  \A p \in Payments :
    /\ CleanRow(fact[p])
    /\ pay[p] = "none" => \A k \in FactIds : fact[p][k].status = "none"

\* Access comes from a grant, which is never deleted.
Granted == access # "none" => grantedBy # NoEvent

\* A request works on an event that is in the inbox.
Working == \A w \in Workers : work[w] # Idle => inbox[work[w].event] # "none"

PaymentInv ==
  TypeOK /\ Working /\ Clean /\ Granted /\ RefundsWithinCapture /\ AccessHasPayment

\* What each refund id confirms in the rows f, 0 for those on no record.
Booked(f) ==
  [k \in FactIds |-> IF f[k].status = "succeeded" THEN f[k].amount ELSE 0]

-------------------------------------------------------------------------------

LEMMA FactIdsFinite == IsFiniteSet(FactIds)
<1>1. IsFiniteSet({Synthetic})
  BY FS_Singleton
<1> QED BY <1>1, FS_Union, PaymentAssumption DEF FactIds

\* The sum of the confirmed refunds, as a sum over all ids.
LEMMA RowSum ==
  ASSUME NEW f, CleanRow(f)
  PROVE  Sum(f, {k \in FactIds : f[k].status = "succeeded"}) = Total(Booked(f), FactIds)
<1> DEFINE T == {k \in FactIds : f[k].status = "succeeded"}
           v == [k \in FactIds |-> IF f[k].amount = NoAmount THEN 0 ELSE f[k].amount]
<1>1. \A k \in T : v[k] = Booked(f)[k]
  <2>1. \A k \in T : f[k].amount \in Amounts
    BY DEF CleanRow
  <2>2. NoAmount \notin Amounts
    BY MaxAmountAssumption DEF NoAmount, Amounts
  <2> QED BY <2>1, <2>2 DEF Booked
<1>2. Total(v, T) = Total(Booked(f), T)
  <2> HIDE DEF v, T
  <2> QED BY <1>1, TotalSame
<1>3. \A k \in FactIds \ T : Booked(f)[k] = 0
  BY DEF Booked
<1>4. Total(Booked(f), FactIds) = Total(Booked(f), T)
  <2>1. T \in SUBSET FactIds
    OBVIOUS
  <2> HIDE DEF T
  <2> QED BY <1>3, <2>1, FactIdsFinite, TotalDropZeros
<1> QED BY <1>2, <1>4 DEF Sum

LEMMA RefundedType ==
  ASSUME Clean, NEW p \in Payments
  PROVE  Refunded(p) \in Nat
<1>1. Refunded(p) = Total(Booked(fact[p]), FactIds)
  BY RowSum DEF Clean, Refunded
<1> QED BY <1>1, FactIdsFinite, TotalType

LEMMA NothingRefunded ==
  ASSUME NEW p \in Payments, CleanRow(fact[p]),
         \A k \in FactIds : fact[p][k].status = "none"
  PROVE  Refunded(p) = 0
<1>1. Refunded(p) = Total(Booked(fact[p]), FactIds)
  BY RowSum DEF Refunded
<1>2. \A k \in FactIds : Booked(fact[p])[k] = 0
  BY DEF Booked
<1> QED BY <1>1, <1>2, TotalZero

\* With no pending row there is nothing to confirm and nothing to supersede,
\* and what can be refunded is what has not been.
LEMMA PlainRefunds ==
  ASSUME TypeOK, Clean, NEW x \in Notice
  PROVE  /\ ~Upgrades(x)
         /\ Aligned(x) = fact[x.payment]
         /\ Confirmed(x) = {k \in FactIds : fact[x.payment][k].status = "succeeded"}
         /\ Headroom(x) = Captured(x) - Refunded(x.payment)
         /\ Sum(Aligned(x), Confirmed(x)) = Refunded(x.payment)
<1> DEFINE p == x.payment
<1>0. /\ p \in Payments /\ fact[p] \in [FactIds -> Fact] /\ Synthetic \in FactIds
      /\ \A r \in Refunds : r \in FactIds
      /\ x.refund \in Refunds \cup {NoRefund}
  BY DEF TypeOK, Notice, FactIds
<1>1. ~Upgrades(x)
  BY <1>0 DEF Upgrades, Recorded, NoFact, Clean, CleanRow
<1>2. Aligned(x) = fact[p]
  <2>1. fact[p][Synthetic].status # "pending"
    BY <1>0 DEF Clean, CleanRow
  <2>2. Aligned(x) = [fact[p] EXCEPT ![Synthetic].status = fact[p][Synthetic].status]
    BY <2>1 DEF Aligned
  <2>3. [fact[p][Synthetic] EXCEPT !.status = fact[p][Synthetic].status]
          = fact[p][Synthetic]
    BY <1>0 DEF Fact
  <2> QED BY <1>0, <2>2, <2>3
<1>3. Counted(x) = {k \in FactIds : fact[p][k].status = "succeeded"}
  BY <1>0, <1>1, <1>2 DEF Counted, Clean, CleanRow
<1>4. Confirmed(x) = {k \in FactIds : fact[p][k].status = "succeeded"}
  BY <1>2, <1>3 DEF Confirmed
<1>5. ~ \E k \in Counted(x) : Aligned(x)[k].amount = NoAmount
  <2>1. NoAmount \notin Amounts
    BY MaxAmountAssumption DEF NoAmount, Amounts
  <2> QED BY <1>0, <1>2, <1>3, <2>1 DEF Clean, CleanRow
<1>6. Headroom(x) = Captured(x) - Refunded(p)
  BY <1>2, <1>3, <1>5 DEF Headroom, Refunded
<1> QED BY <1>1, <1>2, <1>4, <1>6 DEF Refunded

LEMMA AmountFromType ==
  ASSUME TypeOK, NEW x \in Notice
  PROVE  AmountFrom(x) \in Amounts \cup {NoAmount}
<1>1. /\ x.payment \in Payments /\ x.amount \in Amounts \cup {NoAmount}
      /\ paid[x.payment] \in Amounts
  BY DEF TypeOK, Notice
<1>2. OrderTotal \in Amounts
  BY PaymentAssumption, MaxAmountAssumption DEF Amounts
<1> QED BY <1>1, <1>2 DEF AmountFrom

\* What a refund event books is an amount the payment has room for.
LEMMA AppliedFits ==
  ASSUME TypeOK, Clean, NEW e \in Events, NEW x \in Notice,
         x.type = "payment.refunded", ~Ignorable(x), ~Invalid(e, x)
  PROVE  /\ Captured(x) \in Amounts
         /\ Applied(x) \in Amounts
         /\ Applied(x) <= Captured(x) - Refunded(x.payment)
         /\ Refunded(x.payment) \in Nat
<1> DEFINE p == x.payment
<1>0. p \in Payments /\ x.amount \in Amounts \cup {NoAmount} /\ paid[p] \in Amounts
  BY DEF TypeOK, Notice
<1>1. AmountFrom(x) \in Amounts
  BY AmountFromType DEF Invalid
<1>2. Captured(x) \in Amounts
  BY <1>0, <1>1 DEF Captured
<1>3. Refunded(p) \in Nat
  BY <1>0, RefundedType
<1>4. Headroom(x) = Captured(x) - Refunded(p) /\ ~Upgrades(x)
  BY PlainRefunds
<1>5. Headroom(x) > 0
  BY <1>2, <1>3, <1>4, MaxAmountAssumption DEF Ignorable, Amounts
<1>6. Applied(x) = IF x.amount = NoAmount THEN Headroom(x)
                   ELSE Least(x.amount, Headroom(x))
  BY <1>4 DEF Applied
<1>7. /\ Headroom(x) \in Int /\ Headroom(x) <= MaxAmount
      /\ x.amount = NoAmount \/ (x.amount \in Nat /\ x.amount <= MaxAmount)
  BY <1>0, <1>2, <1>3, <1>4, MaxAmountAssumption DEF Amounts
<1>8. /\ Applied(x) \in Nat /\ Applied(x) <= MaxAmount
      /\ Applied(x) <= Headroom(x)
  BY <1>5, <1>6, <1>7, MaxAmountAssumption DEF Least
<1> QED BY <1>2, <1>3, <1>4, <1>8, MaxAmountAssumption DEF Amounts

LEMMA IgnoreKeepsFacts ==
  ASSUME TypeOK, Clean, NEW w \in Workers, NEW e \in Events, Ignore(w, e)
  PROVE  fact' = fact /\ UNCHANGED <<pay, paid, bound, order, access, grantedBy>>
<1>1. notice[e] \in Notice
  BY DEF Ignore, Pending, TypeOK
<1>2. Aligned(notice[e]) = fact[notice[e].payment]
  BY <1>1, PlainRefunds
<1>3. fact' = [fact EXCEPT ![notice[e].payment] = fact[notice[e].payment]]
  BY <1>2 DEF Ignore
<1>4. fact \in [Payments -> [FactIds -> Fact]]
  BY DEF TypeOK
<1> QED BY <1>3, <1>4 DEF Ignore, payment, entitlement

\* Every step but the application of an event leaves the business rows alone.
LEMMA OnlyApplyMoves ==
  ASSUME TypeOK, Clean, Next,
         ~ \E w \in Workers, e \in Events : Apply(w, e)
  PROVE  UNCHANGED <<pay, paid, bound, order, access, grantedBy, fact>>
<1>1. CASE UNCHANGED commerce
  BY <1>1 DEF commerce, payment, entitlement
<1>2. CASE \E w \in Workers, e \in Events : Ignore(w, e)
  BY <1>2, IgnoreKeepsFacts
<1>3. UNCHANGED commerce \/ \E w \in Workers, e \in Events : Ignore(w, e)
  <2>1. ASSUME NEW w \in Workers, Crash(w)
        PROVE  UNCHANGED commerce
    BY <2>1 DEF Crash
  <2>2. ASSUME NEW w \in Workers, NEW e \in Events,
               Arrive(w, e) \/ Handle(w, e) \/ Abort(w, e)
        PROVE  UNCHANGED commerce \/ Ignore(w, e)
    <3>1. CASE Arrive(w, e)
      BY <3>1 DEF Arrive, ReceivePayment, ReceiveRefund, Receive, Redeliver
    <3>2. CASE Handle(w, e)
      BY <3>2 DEF Handle, Replay, Reject, MarkFailed, Publish
    <3>3. CASE Abort(w, e)
      BY <3>3 DEF Abort
    <3> QED BY <2>2, <3>1, <3>2, <3>3
  <2> QED BY <2>1, <2>2 DEF Next
<1> QED BY <1>1, <1>2, <1>3

-------------------------------------------------------------------------------
(* Types.                                                                  *)

RowTypes ==
  /\ pay \in [Payments -> PaymentStatus]
  /\ paid \in [Payments -> Amounts]
  /\ bound \in [Payments -> BOOLEAN]
  /\ order \in OrderStatus
  /\ access \in {"none", "active", "revoked"}
  /\ grantedBy \in Events \cup {NoEvent}
  /\ fact \in [Payments -> [FactIds -> Fact]]

InboxTypes ==
  /\ inbox \in [Events -> {"none", "received", "processed", "ignored", "failed"}]
  /\ notice \in [Events -> {NoEvent} \cup Notice]
  /\ \A e \in Events : inbox[e] # "none" => notice[e] \in Notice

Stages == {"apply", "rolled back", "publish"}

RequestTypes ==
  /\ work \in [Workers -> {Idle} \cup [at : Stages, event : Events]]
  /\ published \subseteq {"payment.succeeded", "payment.failed", "payment.refunded"}
                         \X Payments \X (FactIds \cup {NoRefund})
  /\ made \in [Payments -> [Refunds -> 0 .. OrderTotal]]
  /\ faults \in 0 .. MaxFaults

LEMMA TypeParts == TypeOK <=> RowTypes /\ InboxTypes /\ RequestTypes
BY DEF TypeOK, RowTypes, InboxTypes, RequestTypes, Stages

\* A request that is at a stage is not idle.
LEMMA StageFields ==
  ASSUME NEW w \in Workers, NEW e \in Events, NEW at \in Stages,
         work[w] = [at |-> at, event |-> e]
  PROVE  work[w] # Idle /\ work[w].event = e
<1>1. work[w].at = at /\ work[w].event = e /\ Idle.at = "idle"
  BY DEF Idle
<1> QED BY <1>1 DEF Stages

LEMMA WorkTypes ==
  ASSUME TypeOK, NEW w \in Workers, NEW e \in Events, NEW at \in Stages,
         Goto(w, at, e) \/ Rest(w)
  PROVE  work' \in [Workers -> {Idle} \cup [at : Stages, event : Events]]
<1>1. work \in [Workers -> {Idle} \cup [at : Stages, event : Events]]
  BY DEF TypeOK, Stages
<1>2. [at |-> at, event |-> e] \in [at : Stages, event : Events]
  OBVIOUS
<1>3. CASE Goto(w, at, e)
  BY <1>1, <1>2, <1>3 DEF Goto
<1>4. CASE Rest(w)
  BY <1>1, <1>4 DEF Rest
<1> QED BY <1>3, <1>4

LEMMA DeveloperEventType ==
  ASSUME NEW e \in Events, NEW x \in Notice
  PROVE  DeveloperEvent(e, x) \in
           {"payment.succeeded", "payment.failed", "payment.refunded"}
             \X Payments \X (FactIds \cup {NoRefund})
BY DEF DeveloperEvent, Notice, FactIds

\* The rows of the inbox and the requests are well typed after every step.
LEMMA InboxAndRequestTypes ==
  ASSUME TypeOK, Working, Next
  PROVE  InboxTypes' /\ RequestTypes'
<1>0. OrderTotal \in Amounts /\ MaxFaults \in Nat
  BY PaymentAssumption, MaxAmountAssumption DEF Amounts
<1>1. ASSUME NEW w \in Workers, NEW e \in Events, NEW x \in Notice,
             Receive(w, e, x), made' \in [Payments -> [Refunds -> 0 .. OrderTotal]]
      PROVE  InboxTypes' /\ RequestTypes'
  <2>1. work' \in [Workers -> {Idle} \cup [at : Stages, event : Events]]
    BY <1>1, WorkTypes DEF Receive, Stages
  <2>2. inbox' \in [Events -> {"none", "received", "processed", "ignored", "failed"}]
    BY <1>1 DEF Receive, TypeOK
  <2>3. notice' \in [Events -> {NoEvent} \cup Notice]
    BY <1>1 DEF Receive, TypeOK
  <2>4. ASSUME NEW d \in Events, inbox'[d] # "none"
        PROVE  notice'[d] \in Notice
    BY <1>1, <2>4 DEF Receive, TypeOK
  <2> QED BY <1>1, <2>1, <2>2, <2>3, <2>4 DEF Receive, TypeOK, InboxTypes, RequestTypes
<1>2. ASSUME NEW w \in Workers, NEW e \in Events, ReceivePayment(w, e)
      PROVE  InboxTypes' /\ RequestTypes'
  <2>1. PICK p \in Payments, known \in BOOLEAN :
          \/ Receive(w, e, [type |-> "payment.succeeded", payment |-> p, order |-> known,
                            amount |-> OrderTotal, refund |-> NoRefund])
          \/ Receive(w, e, [type |-> "payment.failed", payment |-> p, order |-> known,
                            amount |-> NoAmount, refund |-> NoRefund])
    BY <1>2 DEF ReceivePayment
  <2>2. made' \in [Payments -> [Refunds -> 0 .. OrderTotal]]
    BY <1>2 DEF ReceivePayment, TypeOK
  <2>3. \A k \in {"payment.succeeded", "payment.failed"},
           n \in {OrderTotal, NoAmount} :
          [type |-> k, payment |-> p, order |-> known, amount |-> n,
           refund |-> NoRefund] \in Notice
    BY <1>0 DEF Notice
  <2> QED BY <1>1, <2>1, <2>2, <2>3
<1>3. ASSUME NEW w \in Workers, NEW e \in Events, ReceiveRefund(w, e)
      PROVE  InboxTypes' /\ RequestTypes'
  <2>1. PICK p \in Payments, r \in Refunds, n \in 1 .. OrderTotal,
             shape \in RefundNotices :
          /\ made' = [made EXCEPT ![p][r] = n]
          /\ Receive(w, e, [type |-> "payment.refunded", payment |-> p,
                            order |-> shape.order,
                            amount |-> IF shape.amount THEN n ELSE NoAmount,
                            refund |-> IF shape.named THEN r ELSE NoRefund])
    BY <1>3 DEF ReceiveRefund
  <2>2. n \in 0 .. OrderTotal /\ n \in Amounts
    BY <1>0, MaxAmountAssumption DEF Amounts
  <2>3. made' \in [Payments -> [Refunds -> 0 .. OrderTotal]]
    <3>1. made \in [Payments -> [Refunds -> 0 .. OrderTotal]]
      BY DEF TypeOK
    <3>2. [made[p] EXCEPT ![r] = n] \in [Refunds -> 0 .. OrderTotal]
      BY <2>2, <3>1
    <3> QED BY <2>1, <3>1, <3>2
  <2>4. shape.order \in BOOLEAN
    BY PaymentAssumption
  <2>5. [type |-> "payment.refunded", payment |-> p, order |-> shape.order,
         amount |-> IF shape.amount THEN n ELSE NoAmount,
         refund |-> IF shape.named THEN r ELSE NoRefund] \in Notice
    BY <2>2, <2>4 DEF Notice
  <2> QED BY <1>1, <2>1, <2>3, <2>5
<1>4. ASSUME NEW w \in Workers, NEW e \in Events,
             \/ Redeliver(w, e) \/ Replay(w, e) \/ Apply(w, e) \/ Ignore(w, e)
             \/ Reject(w, e) \/ Abort(w, e) \/ MarkFailed(w, e)
      PROVE  InboxTypes' /\ RequestTypes'
  <2>1. /\ inbox[e] # "none" \/ UNCHANGED inbox
        /\ notice' = notice
        /\ inbox' = inbox \/ \E s \in {"processed", "ignored", "failed"} :
                               inbox' = [inbox EXCEPT ![e] = s]
    <3>1. CASE MarkFailed(w, e)
      <4>1. work[w] # Idle /\ work[w].event = e
        BY <3>1, StageFields DEF MarkFailed, Stages
      <4> QED BY <3>1, <4>1 DEF MarkFailed, Working
    <3>2. CASE ~MarkFailed(w, e)
      BY <1>4, <3>2 DEF Redeliver, Replay, Apply, Ignore, Reject, Abort, Pending
    <3> QED BY <3>1, <3>2
  <2>2. InboxTypes'
    BY <2>1 DEF InboxTypes, TypeOK
  <2>3. \E at \in Stages : Goto(w, at, e) \/ Rest(w)
    BY <1>4 DEF Redeliver, Replay, Apply, Ignore, Reject, Abort, MarkFailed, Stages
  <2>4. faults' \in 0 .. MaxFaults
    <3>1. faults' = faults \/ (faults < MaxFaults /\ faults' = faults + 1)
      BY <1>4 DEF Redeliver, Replay, Apply, Ignore, Reject, Abort, MarkFailed
    <3>2. faults \in 0 .. MaxFaults
      BY DEF TypeOK
    <3> QED BY <1>0, <3>1, <3>2
  <2>5. UNCHANGED <<published, made>>
    BY <1>4 DEF Redeliver, Replay, Apply, Ignore, Reject, Abort, MarkFailed
  <2> QED BY <2>2, <2>3, <2>4, <2>5, WorkTypes DEF TypeOK, RequestTypes
<1>5. ASSUME NEW w \in Workers, NEW e \in Events, Publish(w, e)
      PROVE  InboxTypes' /\ RequestTypes'
  <2>1. work[w] # Idle /\ work[w].event = e
    BY <1>5, StageFields DEF Publish, Stages
  <2>2. notice[e] \in Notice
    BY <2>1 DEF Working, TypeOK
  <2>3. work' \in [Workers -> {Idle} \cup [at : Stages, event : Events]]
    BY <1>5, WorkTypes DEF Publish, Stages
  <2>4. published' \subseteq {"payment.succeeded", "payment.failed", "payment.refunded"}
                             \X Payments \X (FactIds \cup {NoRefund})
    BY <1>5, <2>2, DeveloperEventType DEF Publish, TypeOK
  <2> QED BY <1>5, <2>3, <2>4 DEF Publish, TypeOK, InboxTypes, RequestTypes
<1>6. ASSUME NEW w \in Workers, Crash(w)
      PROVE  InboxTypes' /\ RequestTypes'
  <2>1. work' \in [Workers -> {Idle} \cup [at : Stages, event : Events]]
    BY <1>6 DEF Crash, Rest, TypeOK, Stages
  <2>2. faults' \in 0 .. MaxFaults
    <3>1. faults < MaxFaults /\ faults' = faults + 1
      BY <1>6 DEF Crash
    <3>2. faults \in 0 .. MaxFaults
      BY DEF TypeOK
    <3> QED BY <1>0, <3>1, <3>2
  <2> QED BY <1>6, <2>1, <2>2 DEF Crash, TypeOK, InboxTypes, RequestTypes
<1>7. ASSUME NEW w \in Workers, NEW e \in Events,
             Arrive(w, e) \/ Handle(w, e) \/ Abort(w, e)
      PROVE  InboxTypes' /\ RequestTypes'
  BY <1>2, <1>3, <1>4, <1>5, <1>7 DEF Arrive, Handle
<1> QED BY <1>6, <1>7 DEF Next

LEMMA WorkingStep ==
  ASSUME TypeOK, Working, Next
  PROVE  Working'
<1>1. InboxTypes' /\ RequestTypes'
  BY InboxAndRequestTypes
<1>2. \A d \in Events : inbox[d] # "none" => inbox'[d] # "none"
  <2>1. \/ inbox' = inbox
        \/ \E e \in Events, s \in {"received", "processed", "ignored", "failed"} :
             inbox' = [inbox EXCEPT ![e] = s]
    <3>1. ASSUME NEW w \in Workers, NEW e \in Events, Arrive(w, e)
          PROVE  inbox' = inbox \/ inbox' = [inbox EXCEPT ![e] = "received"]
      BY <3>1 DEF Arrive, ReceivePayment, ReceiveRefund, Receive, Redeliver
    <3>2. ASSUME NEW w \in Workers, NEW e \in Events, Handle(w, e) \/ Abort(w, e)
          PROVE  inbox' = inbox \/ \E s \in {"processed", "ignored", "failed"} :
                                     inbox' = [inbox EXCEPT ![e] = s]
      BY <3>2 DEF Handle, Replay, Apply, Ignore, Reject, MarkFailed, Publish, Abort
    <3>3. ASSUME NEW w \in Workers, Crash(w)
          PROVE  inbox' = inbox
      BY <3>3 DEF Crash
    <3> QED BY <3>1, <3>2, <3>3 DEF Next
  <2> QED BY <2>1 DEF TypeOK
<1>3. ASSUME NEW v \in Workers, work'[v] # Idle
      PROVE  inbox'[work'[v].event] # "none"
  <2>1. CASE work'[v] = work[v]
    BY <1>2, <1>3, <2>1 DEF Working, TypeOK
  <2>2. ASSUME NEW w \in Workers, NEW e \in Events,
               Arrive(w, e) \/ Handle(w, e) \/ Abort(w, e)
        PROVE  \/ work'[v] = work[v]
               \/ work'[v].event = e /\ inbox'[e] # "none"
    <3>1. CASE Arrive(w, e)
      <4>1. inbox'[e] # "none"
        BY <3>1 DEF Arrive, ReceivePayment, ReceiveRefund, Receive, Redeliver, TypeOK
      <4>2. Goto(w, "apply", e)
        BY <3>1 DEF Arrive, ReceivePayment, ReceiveRefund, Receive, Redeliver
      <4>3. CASE v = w
        <5>1. work'[v] = [at |-> "apply", event |-> e]
          BY <4>2, <4>3 DEF Goto, TypeOK
        <5> QED BY <4>1, <5>1
      <4>4. CASE v # w
        BY <4>2, <4>4 DEF Goto, TypeOK
      <4> QED BY <4>3, <4>4
    <3>2. CASE Handle(w, e) \/ Abort(w, e)
      <4>1. work[w] # Idle /\ work[w].event = e
        <5>1. \E at \in Stages : work[w] = [at |-> at, event |-> e]
          BY <3>2 DEF Handle, Replay, Apply, Ignore, Reject, MarkFailed, Publish, Abort,
                      Running, Stages
        <5> QED BY <5>1, StageFields
      <4>2. inbox'[e] # "none"
        BY <1>2, <4>1 DEF Working
      <4>3. Rest(w) \/ \E at \in Stages : Goto(w, at, e)
        BY <3>2 DEF Handle, Replay, Apply, Ignore, Reject, MarkFailed, Publish, Abort,
                    Stages
      <4>4. CASE v = w
        <5>1. PICK at \in Stages : work'[v] = [at |-> at, event |-> e]
          BY <1>3, <4>3, <4>4 DEF Goto, Rest, TypeOK
        <5>2. work'[v].event = e
          BY <5>1
        <5> QED BY <4>2, <5>2
      <4>5. CASE v # w
        BY <4>3, <4>5 DEF Goto, Rest, TypeOK
      <4> QED BY <4>4, <4>5
    <3> QED BY <2>2, <3>1, <3>2
  <2>3. ASSUME NEW w \in Workers, Crash(w)
        PROVE  work'[v] = work[v]
    BY <1>3, <2>3 DEF Crash, Rest, TypeOK
  <2> QED BY <2>1, <2>2, <2>3 DEF Next
<1> QED BY <1>3 DEF Working

-------------------------------------------------------------------------------
(* The transaction of an event.                                            *)

\* The row of the payment, as SetPayment leaves it.
LEMMA PaymentRow ==
  ASSUME RowTypes, NEW x \in Notice, AmountFrom(x) \in Amounts,
         NEW s \in PaymentStatus, SetPayment(x, s)
  PROVE  /\ pay' \in [Payments -> PaymentStatus]
         /\ paid' \in [Payments -> Amounts]
         /\ bound' \in [Payments -> BOOLEAN]
         /\ pay'[x.payment] = s
         /\ paid'[x.payment] = Captured(x)
         /\ bound'[x.payment] = KnowsOrder(x)
         /\ \A q \in Payments \ {x.payment} :
              pay'[q] = pay[q] /\ paid'[q] = paid[q] /\ bound'[q] = bound[q]
<1>1. x.payment \in Payments /\ x.order \in BOOLEAN
  BY DEF Notice
<1>2. KnowsOrder(x) \in BOOLEAN
  BY <1>1 DEF KnowsOrder, RowTypes
<1>3. pay' \in [Payments -> PaymentStatus] /\ pay'[x.payment] = s
      /\ \A q \in Payments \ {x.payment} : pay'[q] = pay[q]
  BY <1>1 DEF SetPayment, RowTypes
<1>4. paid' \in [Payments -> Amounts] /\ paid'[x.payment] = Captured(x)
      /\ \A q \in Payments \ {x.payment} : paid'[q] = paid[q]
  BY <1>1 DEF SetPayment, Captured, RowTypes
<1>5. bound' \in [Payments -> BOOLEAN] /\ bound'[x.payment] = KnowsOrder(x)
      /\ \A q \in Payments \ {x.payment} : bound'[q] = bound[q]
  BY <1>1, <1>2 DEF SetPayment, RowTypes
<1> QED BY <1>3, <1>4, <1>5

\* The id under which a refund event books.
RefundId(e, x) == IF x.refund = NoRefund THEN e ELSE x.refund

\* What the transaction of a refund event does to the refunds of its payment
\* and to nothing else: one id, the event's or the refund's, now confirms an
\* amount the payment has room for.
LEMMA RefundRow ==
  ASSUME PaymentInv, NEW e \in Events, NEW x \in Notice,
         ~Ignorable(x), ~Invalid(e, x), Refund(e, x)
  PROVE  /\ RefundId(e, x) \in FactIds
         /\ fact' \in [Payments -> [FactIds -> Fact]]
         /\ fact'[x.payment][RefundId(e, x)] =
              [status |-> "succeeded", amount |-> Applied(x)]
         /\ \A k \in FactIds \ {RefundId(e, x)} :
              fact'[x.payment][k] = fact[x.payment][k]
         /\ \A q \in Payments \ {x.payment} : fact'[q] = fact[q]
<1> DEFINE id == RefundId(e, x)
           row == [status |-> "succeeded", amount |-> Applied(x)]
<1>1. /\ x.payment \in Payments /\ id \in FactIds
      /\ fact \in [Payments -> [FactIds -> Fact]]
  BY DEF PaymentInv, TypeOK, Notice, FactIds, RefundId
<1>2. row \in Fact
  BY AppliedFits DEF PaymentInv, Refund, Fact, FactStatus
<1>3. fact' = [fact EXCEPT ![x.payment] = [fact[x.payment] EXCEPT ![id] = row]]
  BY PlainRefunds DEF PaymentInv, Refund, RefundId
<1>4. [fact[x.payment] EXCEPT ![id] = row] \in [FactIds -> Fact]
  BY <1>1, <1>2
<1> HIDE DEF id, row
<1>5. /\ fact' \in [Payments -> [FactIds -> Fact]]
      /\ fact'[x.payment][id] = row
      /\ \A k \in FactIds \ {id} : fact'[x.payment][k] = fact[x.payment][k]
      /\ \A q \in Payments \ {x.payment} : fact'[q] = fact[q]
  BY <1>1, <1>3, <1>4
<1> QED BY <1>1, <1>5 DEF id, row

\* The refunds of the payment grow by the amount booked, less what the same
\* id had booked before.
LEMMA RefundedStep ==
  ASSUME PaymentInv, NEW e \in Events, NEW x \in Notice,
         ~Ignorable(x), ~Invalid(e, x), Refund(e, x)
  PROVE  /\ Refunded(x.payment)' + Booked(fact[x.payment])[RefundId(e, x)]
              = Refunded(x.payment) + Applied(x)
         /\ Refunded(x.payment)' \in Nat
         /\ Booked(fact[x.payment])[RefundId(e, x)] \in Nat
         /\ \A q \in Payments \ {x.payment} : Refunded(q)' = Refunded(q)
<1> DEFINE id == RefundId(e, x)
           p == x.payment
           f == fact[p]
           g == fact'[p]
<1>0. p \in Payments /\ TypeOK /\ Clean /\ x.type = "payment.refunded"
  BY DEF Notice, PaymentInv, Refund
<1>1. /\ id \in FactIds
      /\ fact'[p][id] = [status |-> "succeeded", amount |-> Applied(x)]
      /\ \A k \in FactIds \ {id} : g[k] = f[k]
      /\ \A q \in Payments \ {p} : fact'[q] = fact[q]
  BY RefundRow
<1>2. \A q \in Payments \ {p} : Refunded(q)' = Refunded(q)
  BY <1>1 DEF Refunded
<1>3. CleanRow(f)
  BY <1>0 DEF Clean
<1>4. Applied(x) \in Amounts
  BY <1>0, AppliedFits
<1>5. CleanRow(g)
  BY <1>1, <1>3, <1>4 DEF CleanRow
<1>6. Refunded(p) = Total(Booked(f), FactIds)
  BY <1>3, RowSum DEF Refunded
<1>7. Refunded(p)' = Total(Booked(g), FactIds)
  BY <1>5, RowSum DEF Refunded
<1>8. /\ Booked(f)[id] \in Amounts
      /\ Booked(g)[id] = Applied(x)
      /\ \A k \in FactIds \ {id} : Booked(g)[k] = Booked(f)[k]
  <2>1. 0 \in Amounts
    BY MaxAmountAssumption DEF Amounts
  <2> QED BY <1>1, <1>3, <2>1 DEF Booked, CleanRow
<1> HIDE DEF f, g, id
<1>9. Total(Booked(g), FactIds) + Booked(f)[id] = Total(Booked(f), FactIds) + Applied(x)
  BY <1>1, <1>4, <1>8, FactIdsFinite, TotalChangeOne
<1>10. Total(Booked(g), FactIds) \in Nat
  BY FactIdsFinite, TotalType
<1>11. Booked(f)[id] \in Nat
  BY <1>8, MaxAmountAssumption DEF Amounts
<1> QED BY <1>2, <1>6, <1>7, <1>9, <1>10, <1>11 DEF f, g, id

\* What a payment event leaves behind, by its type.
LEMMA SucceedStep ==
  ASSUME PaymentInv, NEW e \in Events, NEW x \in Notice,
         ~Ignorable(x), ~Invalid(e, x), Succeed(e, x)
  PROVE  RowTypes' /\ Clean' /\ Granted' /\ RefundsWithinCapture' /\ AccessHasPayment'
<1> DEFINE p == x.payment
<1>0. /\ p \in Payments /\ RowTypes /\ Clean /\ AmountFrom(x) \in Amounts
      /\ KnowsOrder(x) \in BOOLEAN
  BY TypeParts, AmountFromType DEF PaymentInv, Notice, Invalid, KnowsOrder, RowTypes
<1>1. /\ pay' \in [Payments -> PaymentStatus]
      /\ paid' \in [Payments -> Amounts]
      /\ bound' \in [Payments -> BOOLEAN]
      /\ pay'[p] = "succeeded" /\ paid'[p] = Captured(x) /\ bound'[p] = KnowsOrder(x)
      /\ \A q \in Payments \ {p} :
           pay'[q] = pay[q] /\ paid'[q] = paid[q] /\ bound'[q] = bound[q]
  BY <1>0, PaymentRow DEF Succeed, PaymentStatus
<1>2. fact' = fact
  BY DEF Succeed
<1>3. RowTypes'
  BY <1>0, <1>1, <1>2 DEF Succeed, SetOrder, RowTypes, OrderStatus, entitlement
<1>4. Clean'
  <2>1. \A q \in Payments : pay'[q] = "none" => pay[q] = "none"
    BY <1>1
  <2> QED BY <1>0, <1>2, <2>1 DEF Clean, CleanRow
<1>5. Granted'
  <2>1. e # NoEvent
    BY PaymentAssumption
  <2> QED BY <2>1 DEF PaymentInv, Succeed, Granted, entitlement
<1>6. RefundsWithinCapture'
  <2>1. \A q \in Payments : Refunded(q)' = Refunded(q)
    BY <1>2 DEF Refunded
  <2>2. CASE Exists(p)
    BY <1>1, <2>1, <2>2 DEF PaymentInv, RefundsWithinCapture, Captured
  <2>3. CASE ~Exists(p)
    <3>1. Refunded(p) = 0
      BY <1>0, <2>3, NothingRefunded DEF Exists, Clean
    <3>2. paid'[p] >= 0
      BY <1>0, <1>1, MaxAmountAssumption DEF Amounts
    <3> QED BY <1>1, <2>1, <3>1, <3>2 DEF PaymentInv, RefundsWithinCapture
  <2> QED BY <2>2, <2>3
<1>7. AccessHasPayment'
  <2>1. CASE access' = access
    BY <1>0, <1>1, <2>1 DEF PaymentInv, AccessHasPayment, KnowsOrder
  <2>2. CASE access' # access
    <3>1. bound'[p] /\ pay'[p] = "succeeded"
      BY <1>1, <2>2 DEF Succeed, entitlement
    <3> QED BY <1>0, <3>1 DEF AccessHasPayment
  <2> QED BY <2>1, <2>2
<1> QED BY <1>3, <1>4, <1>5, <1>6, <1>7

LEMMA DeclineStep ==
  ASSUME PaymentInv, NEW e \in Events, NEW x \in Notice,
         ~Ignorable(x), ~Invalid(e, x), Decline(e, x)
  PROVE  RowTypes' /\ Clean' /\ Granted' /\ RefundsWithinCapture' /\ AccessHasPayment'
<1> DEFINE p == x.payment
<1>0. /\ p \in Payments /\ RowTypes /\ Clean /\ AmountFrom(x) \in Amounts
      /\ KnowsOrder(x) \in BOOLEAN
  BY TypeParts, AmountFromType DEF PaymentInv, Notice, Invalid, KnowsOrder, RowTypes
<1>1. /\ pay' \in [Payments -> PaymentStatus]
      /\ paid' \in [Payments -> Amounts]
      /\ bound' \in [Payments -> BOOLEAN]
      /\ pay'[p] = "failed" /\ paid'[p] = Captured(x) /\ bound'[p] = KnowsOrder(x)
      /\ \A q \in Payments \ {p} :
           pay'[q] = pay[q] /\ paid'[q] = paid[q] /\ bound'[q] = bound[q]
  BY <1>0, PaymentRow DEF Decline, PaymentStatus
<1>2. fact' = fact /\ access' = access /\ grantedBy' = grantedBy
  BY DEF Decline, entitlement
<1>3. RowTypes'
  BY <1>0, <1>1, <1>2 DEF Decline, SetOrder, RowTypes, OrderStatus
<1>4. Clean'
  <2>1. \A q \in Payments : pay'[q] = "none" => pay[q] = "none"
    BY <1>1
  <2> QED BY <1>0, <1>2, <2>1 DEF Clean, CleanRow
<1>5. Granted'
  BY <1>2 DEF PaymentInv, Granted
<1>6. RefundsWithinCapture'
  <2>1. \A q \in Payments : Refunded(q)' = Refunded(q)
    BY <1>2 DEF Refunded
  <2>2. CASE Exists(p)
    BY <1>1, <2>1, <2>2 DEF PaymentInv, RefundsWithinCapture, Captured
  <2>3. CASE ~Exists(p)
    <3>1. Refunded(p) = 0
      BY <1>0, <2>3, NothingRefunded DEF Exists, Clean
    <3>2. paid'[p] >= 0
      BY <1>0, <1>1, MaxAmountAssumption DEF Amounts
    <3> QED BY <1>1, <2>1, <3>1, <3>2 DEF PaymentInv, RefundsWithinCapture
  <2> QED BY <2>2, <2>3
<1>7. AccessHasPayment'
  <2>1. pay[p] # "succeeded"
    BY DEF Decline, Ignorable
  <2> QED BY <1>1, <1>2, <2>1 DEF PaymentInv, AccessHasPayment
<1> QED BY <1>3, <1>4, <1>5, <1>6, <1>7

LEMMA RefundStep ==
  ASSUME PaymentInv, NEW e \in Events, NEW x \in Notice,
         ~Ignorable(x), ~Invalid(e, x), Refund(e, x)
  PROVE  RowTypes' /\ Clean' /\ Granted' /\ RefundsWithinCapture' /\ AccessHasPayment'
<1> DEFINE p == x.payment
           id == RefundId(e, x)
           next == IF FullyRefunds(x) THEN "refunded"
                   ELSE IF Exists(p) THEN pay[p] ELSE "succeeded"
<1>0. /\ p \in Payments /\ TypeOK /\ RowTypes /\ Clean /\ AmountFrom(x) \in Amounts
      /\ KnowsOrder(x) \in BOOLEAN /\ x.type = "payment.refunded"
      /\ next \in PaymentStatus \ {"none"}
  BY TypeParts, AmountFromType
     DEF PaymentInv, Notice, Invalid, KnowsOrder, RowTypes, Refund, PaymentStatus, Exists
<1>1. /\ pay' \in [Payments -> PaymentStatus]
      /\ paid' \in [Payments -> Amounts]
      /\ bound' \in [Payments -> BOOLEAN]
      /\ pay'[p] = next /\ paid'[p] = Captured(x) /\ bound'[p] = KnowsOrder(x)
      /\ \A q \in Payments \ {p} :
           pay'[q] = pay[q] /\ paid'[q] = paid[q] /\ bound'[q] = bound[q]
  <2>1. SetPayment(x, next)
    BY DEF Refund
  <2> HIDE DEF next
  <2> QED BY <1>0, <2>1, PaymentRow
<1>2. /\ id \in FactIds
      /\ fact' \in [Payments -> [FactIds -> Fact]]
      /\ fact'[p][id] = [status |-> "succeeded", amount |-> Applied(x)]
      /\ \A k \in FactIds \ {id} : fact'[p][k] = fact[p][k]
      /\ \A q \in Payments \ {p} : fact'[q] = fact[q]
  BY RefundRow
<1>3. /\ Captured(x) \in Amounts /\ Applied(x) \in Amounts
      /\ Applied(x) <= Captured(x) - Refunded(p) /\ Refunded(p) \in Nat
  BY <1>0, AppliedFits
<1>4. RowTypes'
  <2>1. order' \in OrderStatus
    BY <1>0 DEF Refund, SetOrder, RowTypes, OrderStatus
  <2>2. access' \in {"none", "active", "revoked"} /\ grantedBy' \in Events \cup {NoEvent}
    BY <1>0 DEF Refund, RowTypes
  <2> QED BY <1>1, <1>2, <2>1, <2>2 DEF RowTypes
<1>5. Clean'
  <2>1. CleanRow(fact'[p])
    BY <1>0, <1>2, <1>3 DEF Clean, CleanRow
  <2>2. \A q \in Payments \ {p} : pay'[q] = pay[q] /\ fact'[q] = fact[q]
    BY <1>1, <1>2
  <2>3. pay'[p] # "none"
    BY <1>0, <1>1
  <2> QED BY <1>0, <2>1, <2>2, <2>3 DEF Clean, CleanRow
<1>6. Granted'
  BY <1>0 DEF PaymentInv, Refund, Granted, RowTypes
<1>7. RefundsWithinCapture'
  <2>1. /\ Refunded(p)' + Booked(fact[p])[id] = Refunded(p) + Applied(x)
        /\ Refunded(p)' \in Nat /\ Booked(fact[p])[id] \in Nat
        /\ \A q \in Payments \ {p} : Refunded(q)' = Refunded(q)
    BY RefundedStep
  <2>2. Captured(x) \in Nat /\ Applied(x) \in Nat
    BY <1>3, MaxAmountAssumption DEF Amounts
  <2>3. Refunded(p)' <= paid'[p]
    <3> HIDE DEF id, p
    <3> QED BY <1>1, <1>3, <2>1, <2>2 DEF p
  <2>4. \A q \in Payments \ {p} : Refunded(q)' <= paid'[q]
    BY <1>1, <2>1 DEF PaymentInv, RefundsWithinCapture
  <2> QED BY <2>3, <2>4 DEF RefundsWithinCapture
<1>8. AccessHasPayment'
  <2>1. ASSUME access' = "active"
        PROVE  access = "active" /\ ~(FullyRefunds(x) /\ KnowsOrder(x))
    BY <1>0, <2>1 DEF Refund
  <2>2. ASSUME access' = "active", NEW q \in Payments, bound[q], pay[q] = "succeeded"
        PROVE  bound'[q] /\ pay'[q] = "succeeded"
    <3>1. CASE q # p
      BY <1>1, <2>2, <3>1
    <3>2. CASE q = p
      <4>1. KnowsOrder(x)
        BY <2>2, <3>2 DEF KnowsOrder
      <4>2. ~FullyRefunds(x)
        BY <2>1, <2>2, <4>1
      <4> QED BY <1>1, <2>2, <3>2, <4>1, <4>2 DEF Exists
    <3> QED BY <3>1, <3>2
  <2> QED BY <2>1, <2>2 DEF PaymentInv, AccessHasPayment
<1> QED BY <1>4, <1>5, <1>6, <1>7, <1>8

-------------------------------------------------------------------------------
(* The theorems.                                                           *)

LEMMA InvInit == Init => PaymentInv
<1> SUFFICES ASSUME Init PROVE PaymentInv
  OBVIOUS
<1>1. NoFact \in Fact /\ NoFact.status = "none" /\ 0 \in Amounts
  BY MaxAmountAssumption DEF NoFact, Fact, FactStatus, NoAmount, Amounts
<1>2. RowTypes
  BY <1>1 DEF Init, RowTypes, PaymentStatus, OrderStatus
<1>3. InboxTypes
  BY DEF Init, InboxTypes
<1>4. RequestTypes
  <2>1. OrderTotal \in Nat /\ MaxFaults \in Nat
    BY PaymentAssumption
  <2> QED BY <2>1 DEF Init, RequestTypes
<1>5. Clean
  BY <1>1 DEF Init, Clean, CleanRow
<1>6. RefundsWithinCapture
  <2>1. ASSUME NEW p \in Payments
        PROVE  Refunded(p) = 0 /\ paid[p] = 0
    BY <1>5, NothingRefunded DEF Init, Clean
  <2> QED BY <2>1 DEF RefundsWithinCapture
<1>7. Working /\ Granted /\ AccessHasPayment
  BY DEF Init, Working, Granted, AccessHasPayment
<1> QED BY <1>2, <1>3, <1>4, <1>5, <1>6, <1>7, TypeParts DEF PaymentInv

LEMMA InvStep == PaymentInv /\ [Next]_vars => PaymentInv'
<1> SUFFICES ASSUME PaymentInv, [Next]_vars PROVE PaymentInv'
  OBVIOUS
<1> USE DEF PaymentInv
<1>1. CASE UNCHANGED vars
  BY <1>1 DEF vars, commerce, payment, entitlement, TypeOK, Working, Clean, CleanRow,
              Granted, RefundsWithinCapture, Refunded, AccessHasPayment
<1>2. CASE Next
  <2>1. InboxTypes' /\ RequestTypes' /\ Working'
    BY <1>2, InboxAndRequestTypes, WorkingStep
  <2>2. RowTypes' /\ Clean' /\ Granted' /\ RefundsWithinCapture' /\ AccessHasPayment'
    <3>1. CASE \E w \in Workers, e \in Events : Apply(w, e)
      <4>1. PICK w \in Workers, e \in Events : Apply(w, e)
        BY <3>1
      <4>2. notice[e] \in Notice
        BY <4>1 DEF Apply, Pending, TypeOK
      <4> QED BY <4>1, <4>2, SucceedStep, DeclineStep, RefundStep DEF Apply
    <3>2. CASE ~ \E w \in Workers, e \in Events : Apply(w, e)
      <4>1. UNCHANGED <<pay, paid, bound, order, access, grantedBy, fact>>
        BY <1>2, <3>2, OnlyApplyMoves
      <4>2. RowTypes
        BY TypeParts
      <4> QED BY <4>1, <4>2 DEF RowTypes, Clean, CleanRow, Granted,
                                RefundsWithinCapture, Refunded, AccessHasPayment
    <3> QED BY <3>1, <3>2
  <2>3. TypeOK'
    BY <2>1, <2>2 DEF TypeOK, RowTypes, InboxTypes, RequestTypes, Stages
  <2> QED BY <2>1, <2>2, <2>3
<1> QED BY <1>1, <1>2

LEMMA PaymentInvariant == Spec => []PaymentInv
BY InvInit, InvStep, PTL DEF Spec

\* Every reachable state is well typed: whatever the events claim, no
\* transaction meets a payment or a refund without an amount, or a negative
\* one.
THEOREM PaymentsTypeCorrect == Spec => []TypeOK
<1>1. PaymentInv => TypeOK
  BY DEF PaymentInv
<1> QED BY <1>1, PaymentInvariant, PTL

\* The entitlement of an order is never active without a payment of the
\* order that stands (applyPaymentEvent).
THEOREM AccessAlwaysPaid == Spec => []AccessHasPayment
<1>1. PaymentInv => AccessHasPayment
  BY DEF PaymentInv
<1> QED BY <1>1, PaymentInvariant, PTL

\* The confirmed refunds of a payment never exceed what it captured, however
\* events repeat, and even when refund events carry no refund id.
THEOREM NeverOverRefunded == Spec => []RefundsWithinCapture
<1>1. PaymentInv => RefundsWithinCapture
  BY DEF PaymentInv
<1> QED BY <1>1, PaymentInvariant, PTL

\* Refunded is terminal for payments, orders and the access they gave.
THEOREM RefundedStays == Spec => RefundedIsFinal
<1>1. ASSUME PaymentInv, Next
      PROVE  /\ \A p \in Payments : pay[p] = "refunded" => pay'[p] = "refunded"
             /\ order = "refunded" => order' = "refunded"
             /\ access = "revoked" => access' = "revoked"
  <2>1. CASE ~ \E w \in Workers, e \in Events : Apply(w, e)
    BY <1>1, <2>1, OnlyApplyMoves DEF PaymentInv
  <2>2. CASE \E w \in Workers, e \in Events : Apply(w, e)
    <3>1. PICK w \in Workers, e \in Events : Apply(w, e)
      BY <2>2
    <3>2. notice[e] \in Notice /\ pay \in [Payments -> PaymentStatus]
      BY <1>1, <3>1 DEF Apply, Pending, PaymentInv, TypeOK
    <3> DEFINE x == notice[e]
    <3>3. x.payment \in Payments
      BY <3>2 DEF Notice
    <3>4. CASE Succeed(e, x)
      <4>1. pay[x.payment] # "refunded"
        BY <3>1, <3>4 DEF Apply, Ignorable, Succeed
      <4>2. access = "revoked" => access' = "revoked"
        BY <1>1, <3>4 DEF Succeed, PaymentInv, Granted, entitlement
      <4> QED BY <3>2, <3>3, <3>4, <4>1, <4>2 DEF Succeed, SetPayment, SetOrder
    <3>5. CASE Decline(e, x)
      <4>1. pay[x.payment] # "refunded"
        BY <3>1, <3>5 DEF Apply, Ignorable, Decline
      <4> QED BY <3>2, <3>3, <3>5, <4>1 DEF Decline, SetPayment, SetOrder, entitlement
    <3>6. CASE Refund(e, x)
      BY <3>2, <3>3, <3>6 DEF Refund, SetPayment, SetOrder, Exists
    <3> QED BY <3>1, <3>4, <3>5, <3>6 DEF Apply
  <2> QED BY <2>1, <2>2
<1>2. PaymentInv /\ [Next]_vars =>
        [/\ \A p \in Payments : pay[p] = "refunded" => pay'[p] = "refunded"
         /\ order = "refunded" => order' = "refunded"
         /\ access = "revoked" => access' = "revoked"]_vars
  BY <1>1
<1> QED BY <1>2, PaymentInvariant, PTL DEF Spec, RefundedIsFinal

-------------------------------------------------------------------------------
(* The refunds that are reported under their ids.                          *)

\* What the inbox holds stays there, and says what it said.
LEMMA NoticesStay ==
  ASSUME PaymentInv, Next, NEW d \in Events, inbox[d] # "none"
  PROVE  inbox'[d] # "none" /\ notice'[d] = notice[d]
<1> USE DEF PaymentInv
<1>1. ASSUME NEW w \in Workers, NEW e \in Events, NEW x, Receive(w, e, x)
      PROVE  inbox'[d] # "none" /\ notice'[d] = notice[d]
  BY <1>1 DEF Receive, TypeOK
<1>2. ASSUME NEW w \in Workers, NEW e \in Events, Arrive(w, e)
      PROVE  inbox'[d] # "none" /\ notice'[d] = notice[d]
  <2>1. CASE ReceivePayment(w, e)
    BY <1>1, <2>1 DEF ReceivePayment
  <2>2. CASE ReceiveRefund(w, e)
    BY <1>1, <2>2 DEF ReceiveRefund
  <2>3. CASE Redeliver(w, e)
    BY <2>3 DEF Redeliver
  <2> QED BY <1>2, <2>1, <2>2, <2>3 DEF Arrive
<1>3. ASSUME NEW w \in Workers, NEW e \in Events, Handle(w, e) \/ Abort(w, e)
      PROVE  inbox'[d] # "none" /\ notice'[d] = notice[d]
  BY <1>3 DEF Handle, Replay, Apply, Ignore, Reject, MarkFailed, Publish, Abort, TypeOK
<1>4. ASSUME NEW w \in Workers, Crash(w)
      PROVE  inbox'[d] # "none" /\ notice'[d] = notice[d]
  BY <1>4 DEF Crash
<1> QED BY <1>2, <1>3, <1>4 DEF Next

LEMMA NamedBefore ==
  ASSUME PaymentInv, Next, NEW p \in Payments, Named(p)'
  PROVE  Named(p)
BY NoticesStay DEF Named

\* A refund that is not on record adds all it books to the refunds of its
\* payment, and closes it only when they reach what was captured.
LEMMA RefundCovers ==
  ASSUME PaymentInv, RefundedIsCovered, Next, NEW e \in Events, NEW x \in Notice,
         Named(x.payment)' => x.refund # NoRefund,
         ~Ignorable(x), ~Invalid(e, x), Refund(e, x)
  PROVE  RefundedIsCovered'
<1> DEFINE p == x.payment
<1>0. /\ p \in Payments /\ TypeOK /\ Clean /\ RowTypes /\ x.type = "payment.refunded"
      /\ AmountFrom(x) \in Amounts
  BY TypeParts, AmountFromType DEF PaymentInv, Notice, Refund, Invalid
<1>1. Named(p)' => Booked(fact[p])[RefundId(e, x)] = 0
  <2> SUFFICES ASSUME x.refund # NoRefund
               PROVE  Booked(fact[p])[RefundId(e, x)] = 0
    OBVIOUS
  <2>1. Recorded(x).status # "succeeded"
    BY <1>0 DEF Invalid, Ignorable
  <2>2. RefundId(e, x) \in FactIds /\ Recorded(x) = fact[p][RefundId(e, x)]
    BY RefundRow DEF RefundId, Recorded
  <2> QED BY <2>1, <2>2 DEF Booked
<1>2. /\ Refunded(p)' + Booked(fact[p])[RefundId(e, x)] = Refunded(p) + Applied(x)
      /\ Refunded(p)' \in Nat
      /\ \A q \in Payments \ {p} : Refunded(q)' = Refunded(q)
  BY RefundedStep
<1>3. Captured(x) \in Nat /\ Applied(x) \in Nat /\ Refunded(p) \in Nat
  BY <1>0, AppliedFits, MaxAmountAssumption DEF Amounts
<1>4. FullyRefunds(x) <=> Refunded(p) + Applied(x) >= Captured(x)
  BY <1>0, PlainRefunds DEF FullyRefunds
<1> DEFINE next == IF FullyRefunds(x) THEN "refunded"
                   ELSE IF Exists(p) THEN pay[p] ELSE "succeeded"
<1>5. /\ pay'[p] = next /\ paid'[p] = Captured(x)
      /\ \A q \in Payments \ {p} : pay'[q] = pay[q] /\ paid'[q] = paid[q]
  <2>1. SetPayment(x, next) /\ next \in PaymentStatus
    BY <1>0 DEF Refund, RowTypes, PaymentStatus
  <2> HIDE DEF next
  <2> QED BY <1>0, <2>1, PaymentRow
<1>6. ASSUME Named(p)', pay'[p] = "refunded"
      PROVE  Refunded(p)' >= paid'[p]
  <2>0. Refunded(p)' = Refunded(p) + Applied(x)
    BY <1>1, <1>2, <1>3, <1>6
  <2>1. CASE FullyRefunds(x)
    BY <2>0, <1>3, <1>4, <1>5, <2>1
  <2>2. CASE ~FullyRefunds(x)
    <3>1. Exists(p) /\ pay[p] = "refunded"
      BY <1>5, <1>6, <2>2
    <3>2. Named(p)
      BY <1>0, <1>6, NamedBefore
    <3>3. Refunded(p) >= Captured(x)
      BY <1>0, <3>1, <3>2 DEF RefundedIsCovered, Captured
    <3> QED BY <2>0, <1>3, <1>5, <3>3
  <2> QED BY <2>1, <2>2
<1>7. ASSUME NEW q \in Payments \ {p}, Named(q)', pay'[q] = "refunded"
      PROVE  Refunded(q)' >= paid'[q]
  BY <1>2, <1>5, <1>7, NamedBefore DEF RefundedIsCovered
<1> QED BY <1>6, <1>7 DEF RefundedIsCovered

\* A payment whose refunds were reported under their ids is closed only by
\* refunds that add up to what it captured: the accounting of
\* applyPaymentEvent counts none of them twice, for any events in any order.
THEOREM NamedRefundsCover == Spec => []RefundedIsCovered
<1>1. Init => RefundedIsCovered
  BY DEF Init, RefundedIsCovered
<1>2. PaymentInv /\ RefundedIsCovered /\ [Next]_vars => RefundedIsCovered'
  <2> SUFFICES ASSUME PaymentInv, RefundedIsCovered, [Next]_vars
               PROVE  RefundedIsCovered'
    OBVIOUS
  <2>1. CASE UNCHANGED vars
    BY <2>1 DEF vars, commerce, payment, Named, RefundedIsCovered, Refunded
  <2>2. CASE Next
    <3>1. \A p \in Payments : Named(p)' => Named(p)
      BY <2>2, NamedBefore
    <3>2. CASE ~ \E w \in Workers, e \in Events : Apply(w, e)
      <4>1. UNCHANGED <<pay, paid, fact>>
        BY <2>2, <3>2, OnlyApplyMoves DEF PaymentInv
      <4> QED BY <3>1, <4>1 DEF RefundedIsCovered, Refunded
    <3>3. CASE \E w \in Workers, e \in Events : Apply(w, e)
      <4>1. PICK w \in Workers, e \in Events : Apply(w, e)
        BY <3>3
      <4>0. PICK x \in Notice : x = notice[e]
        BY <4>1 DEF Apply, Pending, PaymentInv, TypeOK
      <4>2. /\ ~Ignorable(x) /\ ~Invalid(e, x) /\ RowTypes
            /\ AmountFrom(x) \in Amounts /\ x.payment \in Payments
        BY <4>0, <4>1, AmountFromType, TypeParts
           DEF Apply, Pending, Invalid, PaymentInv, TypeOK, Notice
      <4>3. CASE Refund(e, x)
        <5>1. Named(x.payment)' => x.refund # NoRefund
          BY <3>1, <4>0, <4>1, <4>2, <4>3 DEF Apply, Pending, Refund, Named
        <5> QED BY <2>2, <4>2, <4>3, <5>1, RefundCovers
      <4>4. CASE Succeed(e, x) \/ Decline(e, x)
        <5>1. PICK s \in {"succeeded", "failed"} : SetPayment(x, s)
          BY <4>4 DEF Succeed, Decline
        <5>2. /\ pay'[x.payment] = s
              /\ \A q \in Payments \ {x.payment} : pay'[q] = pay[q] /\ paid'[q] = paid[q]
          BY <4>2, <5>1, PaymentRow DEF PaymentStatus
        <5>3. fact' = fact
          BY <4>4 DEF Succeed, Decline
        <5> QED BY <3>1, <5>2, <5>3 DEF RefundedIsCovered, Refunded
      <4> QED BY <4>0, <4>1, <4>3, <4>4 DEF Apply
    <3> QED BY <3>2, <3>3
  <2> QED BY <2>1, <2>2
<1> QED BY <1>1, <1>2, PaymentInvariant, PTL DEF Spec

\* Whatever the provider reports of a payment's refunds, they never pass what
\* it captured, and those it names close it only when they add up to that.
THEOREM RefundsAlwaysAddUp == Spec => []RefundsAddUp
<1>1. RefundedIsCovered /\ RefundsWithinCapture => RefundsAddUp
  BY DEF RefundsAddUp
<1> QED BY <1>1, NeverOverRefunded, NamedRefundsCover, PTL

-------------------------------------------------------------------------------
(* What the provider did, and what it says of it.                          *)

\* A notice says what the provider did: the amount of a refund it has made,
\* and no amount only for a refund of everything.
Reported(x) ==
  LET done == made[x.payment][x.refund] IN
  /\ done > 0
  /\ x.amount \in {done, NoAmount}
  /\ x.amount = NoAmount => done = OrderTotal
Names(x) == x.type = "payment.refunded" /\ x.refund # NoRefund
Reports ==
  \A e \in Events : inbox[e] # "none" =>
    /\ notice[e].amount \in {NoAmount} \cup 1 .. OrderTotal
    /\ Names(notice[e]) => Reported(notice[e])
Spent == \A p \in Payments : PaidBack(p) <= OrderTotal

\* What the provider has made stays.
Grows ==
  \A p \in Payments, k \in Refunds : made[p][k] > 0 => made'[p][k] = made[p][k]

\* The notice of an event is written once, and tells what the provider did.
LEMMA NoticesKept ==
  ASSUME TypeOK, Working, Reports, Spent, Next
  PROVE  /\ Grows /\ Reports' /\ Spent'
         /\ \A d \in Events : inbox[d] # "none" => notice'[d] = notice[d]
<1>0. /\ TypeOK /\ Working /\ Reports /\ Spent
      /\ notice \in [Events -> {NoEvent} \cup Notice]
      /\ inbox \in [Events -> {"none", "received", "processed", "ignored", "failed"}]
      /\ made \in [Payments -> [Refunds -> 0 .. OrderTotal]]
  BY DEF TypeOK
<1>1. ASSUME made' = made, notice' = notice,
             \A d \in Events : inbox'[d] # "none" => inbox[d] # "none"
      PROVE  Grows /\ Reports' /\ Spent'
  BY <1>0, <1>1 DEF Grows, Reports, Names, Reported, Spent, PaidBack
<1>2. ASSUME NEW w \in Workers, NEW e \in Events, NEW x, Receive(w, e, x), Grows,
             x.amount \in {NoAmount} \cup 1 .. OrderTotal, Names(x) => Reported(x)'
      PROVE  Reports'
  <2> SUFFICES ASSUME NEW d \in Events, inbox'[d] # "none"
               PROVE  /\ notice'[d].amount \in {NoAmount} \cup 1 .. OrderTotal
                      /\ Names(notice[d])' => Reported(notice[d])'
    BY DEF Reports
  <2>1. CASE d = e
    BY <1>0, <1>2, <2>1 DEF Receive, Names, Reported
  <2>2. CASE d # e
    <3>1. notice'[d] = notice[d] /\ inbox[d] # "none"
      BY <1>0, <1>2, <2>2 DEF Receive
    <3>2. notice[d] \in Notice
      BY <1>0, <3>1 DEF TypeOK
    <3>3. Names(notice[d]) => notice[d].payment \in Payments /\ notice[d].refund \in Refunds
      BY <3>2 DEF Names, Notice
    <3> QED BY <1>0, <1>2, <3>1, <3>3 DEF Reports, Names, Reported, Grows
  <2> QED BY <2>1, <2>2
<1>3. ASSUME NEW w \in Workers, NEW e \in Events, NEW x, Receive(w, e, x)
      PROVE  /\ \A d \in Events : inbox[d] # "none" => notice'[d] = notice[d]
  BY <1>0, <1>3 DEF Receive
<1>4. ASSUME NEW w \in Workers, NEW e \in Events, ReceivePayment(w, e)
      PROVE  /\ Grows /\ Reports' /\ Spent'
             /\ \A d \in Events : inbox[d] # "none" => notice'[d] = notice[d]
  <2>1. Grows /\ Spent'
    BY <1>0, <1>4 DEF ReceivePayment, Grows, Spent, PaidBack
  <2>2. PICK x : Receive(w, e, x) /\ x.amount \in {OrderTotal, NoAmount} /\ ~Names(x)
    BY <1>4 DEF ReceivePayment, Names
  <2>3. x.amount \in {NoAmount} \cup 1 .. OrderTotal
    BY <2>2, PaymentAssumption, MaxAmountAssumption
  <2> QED BY <1>2, <1>3, <2>1, <2>2, <2>3
<1>5. ASSUME NEW w \in Workers, NEW e \in Events, ReceiveRefund(w, e)
      PROVE  /\ Grows /\ Reports' /\ Spent'
             /\ \A d \in Events : inbox[d] # "none" => notice'[d] = notice[d]
  <2>1. PICK p \in Payments, r \in Refunds, n \in 1 .. OrderTotal,
             shape \in RefundNotices :
          /\ made[p][r] \in {0, n}
          /\ made' = [made EXCEPT ![p][r] = n]
          /\ Total(made'[p], Refunds) <= OrderTotal
          /\ shape.amount \/ n = OrderTotal
          /\ Receive(w, e, [type |-> "payment.refunded", payment |-> p,
                            order |-> shape.order,
                            amount |-> IF shape.amount THEN n ELSE NoAmount,
                            refund |-> IF shape.named THEN r ELSE NoRefund])
    BY <1>5 DEF ReceiveRefund
  <2>2. PICK x : x = [type |-> "payment.refunded", payment |-> p,
                      order |-> shape.order,
                      amount |-> IF shape.amount THEN n ELSE NoAmount,
                      refund |-> IF shape.named THEN r ELSE NoRefund]
    OBVIOUS
  <2>3. /\ made'[p][r] = n
        /\ \A k \in Refunds \ {r} : made'[p][k] = made[p][k]
        /\ \A q \in Payments \ {p} : made'[q] = made[q]
    BY <1>0, <2>1
  <2>4. Grows
    BY <2>1, <2>3 DEF Grows
  <2>5. Spent'
    BY <1>0, <2>1, <2>3 DEF Spent, PaidBack
  <2>6. /\ x.amount \in {n, NoAmount} /\ (x.amount = NoAmount => n = OrderTotal)
        /\ x.payment = p /\ (Names(x) => x.refund = r)
    <3>1. shape.amount \in BOOLEAN /\ shape.named \in BOOLEAN
      BY PaymentAssumption
    <3>2. /\ x.amount = IF shape.amount THEN n ELSE NoAmount
          /\ x.payment = p /\ x.refund = IF shape.named THEN r ELSE NoRefund
      BY <2>2
    <3>3. shape.amount \/ n = OrderTotal
      BY <2>1
    <3>4. n # NoAmount
      BY DEF NoAmount
    <3>5. x.amount \in {n, NoAmount} /\ (x.amount = NoAmount => n = OrderTotal)
      BY <3>1, <3>2, <3>3, <3>4
    <3>6. Names(x) => x.refund = r
      BY <3>1, <3>2 DEF Names
    <3> QED BY <3>2, <3>5, <3>6
  <2>7. x.amount \in {NoAmount} \cup 1 .. OrderTotal
    BY <2>6
  <2>8. Names(x) => Reported(x)'
    BY <2>3, <2>6, PaymentAssumption DEF Reported
  <2>9. Receive(w, e, x)
    BY <2>1, <2>2
  <2> QED BY <1>2, <1>3, <2>4, <2>5, <2>7, <2>8, <2>9
<1>6. ASSUME NEW w \in Workers, NEW e \in Events,
             Redeliver(w, e) \/ Handle(w, e) \/ Abort(w, e)
      PROVE  /\ made' = made /\ notice' = notice
             /\ \A d \in Events : inbox'[d] # "none" => inbox[d] # "none"
  <2>1. CASE Redeliver(w, e) \/ Abort(w, e)
    BY <2>1 DEF Redeliver, Abort
  <2>2. CASE Handle(w, e)
    <3>1. made' = made /\ notice' = notice
          /\ (inbox' = inbox \/ \E s : inbox' = [inbox EXCEPT ![e] = s])
      BY <2>2 DEF Handle, Replay, Apply, Ignore, Reject, MarkFailed, Publish
    <3>2. \E at \in Stages : work[w] = [at |-> at, event |-> e]
      BY <2>2 DEF Handle, Replay, Apply, Ignore, Reject, MarkFailed, Publish, Running, Stages
    <3>3. inbox[e] # "none"
      BY <1>0, <3>2, StageFields DEF Working
    <3> QED BY <1>0, <3>1, <3>3
  <2> QED BY <1>6, <2>1, <2>2
<1>7. PICK w \in Workers :
        (\E e \in Events : Arrive(w, e) \/ Handle(w, e) \/ Abort(w, e)) \/ Crash(w)
  BY DEF Next
<1>8. CASE Crash(w)
  BY <1>1, <1>8 DEF Crash
<1>9. ASSUME NEW e \in Events, Arrive(w, e) \/ Handle(w, e) \/ Abort(w, e)
      PROVE  /\ Grows /\ Reports' /\ Spent'
             /\ \A d \in Events : inbox[d] # "none" => notice'[d] = notice[d]
  BY <1>1, <1>4, <1>5, <1>6, <1>9 DEF Arrive
<1> QED BY <1>7, <1>8, <1>9

-------------------------------------------------------------------------------
(* The whole history, when every refund is told under its id and its order. *)

\* Payments are reported with the order's total, refused ones without amount.
Priced ==
  \A e \in Events : inbox[e] # "none" =>
    /\ notice[e].type = "payment.succeeded" => notice[e].amount = OrderTotal
    /\ notice[e].type = "payment.failed" => notice[e].amount = NoAmount

Explicit == \A e \in Events : inbox[e] # "none" => Complete(e)

RefundsOf(e, p, k) ==
  /\ inbox[e] # "none" /\ notice[e].type = "payment.refunded"
  /\ notice[e].payment = p /\ notice[e].refund = k

\* A refund the provider made was reported; a payment on record is of the
\* order's total; a row of a refund says what the provider made, and closes
\* the payment with the others when they add up to it.
Known == \A p \in Payments, k \in Refunds :
  made[p][k] > 0 => \E e \in Events : RefundsOf(e, p, k)
Whole == \A p \in Payments : Exists(p) => paid[p] = OrderTotal
Exact ==
  \A p \in Payments, k \in FactIds : fact[p][k].status = "succeeded" =>
    k \in Refunds /\ fact[p][k].amount = made[p][k] /\ made[p][k] > 0
Closed == \A p \in Payments : pay[p] = "refunded" <=> Refunded(p) >= OrderTotal

\* What a settled event has left behind.
Entered ==
  \A e \in Events : Settled(e) /\ notice[e].type = "payment.refunded" =>
    fact[notice[e].payment][notice[e].refund].status = "succeeded"
Standing ==
  \A e \in Events : Settled(e) /\ notice[e].type = "payment.succeeded" =>
    pay[notice[e].payment] \in {"succeeded", "refunded"}

Matched == Known /\ Whole /\ Exact /\ Closed /\ Entered /\ Standing
HistoryInv ==
  PaymentInv /\ Reports /\ Spent /\ Priced /\ (Explicit => Matched)

LEMMA ExplicitBefore ==
  ASSUME PaymentInv, Next, Explicit'
  PROVE  Explicit
<1> SUFFICES ASSUME NEW d \in Events, inbox[d] # "none" PROVE Complete(d)
  BY DEF Explicit
<1>1. inbox'[d] # "none" /\ notice'[d] = notice[d]
  BY NoticesStay
<1> QED BY <1>1 DEF Explicit, Complete

\* An explicit refund notice names a refund and its order.
LEMMA ExplicitNotice ==
  ASSUME TypeOK, Reports, Explicit, NEW e \in Events, inbox[e] # "none",
         NEW x \in Notice, x = notice[e], x.type = "payment.refunded"
  PROVE  /\ x.order /\ x.refund \in Refunds /\ x.payment \in Payments /\ Reported(x)
         /\ made[x.payment][x.refund] \in 1 .. OrderTotal
<1>1. x.order /\ x.refund # NoRefund
  BY DEF Explicit, Complete
<1>2. x.refund \in Refunds /\ x.payment \in Payments
  BY <1>1 DEF Notice
<1>3. Reported(x)
  BY <1>1 DEF Reports, Names
<1>4. made[x.payment][x.refund] \in 0 .. OrderTotal
  BY <1>2 DEF TypeOK
<1> QED BY <1>1, <1>2, <1>3, <1>4, PaymentAssumption DEF Reported

\* What is booked of a payment is part of what the provider has paid back; a
\* refund that is not booked is still to come.
LEMMA BookedFits ==
  ASSUME TypeOK, Clean, Exact, NEW p \in Payments, NEW k \in Refunds,
         fact[p][k].status # "succeeded"
  PROVE  Refunded(p) + made[p][k] <= PaidBack(p)
<1> DEFINE f == Booked(fact[p])
           g == [i \in FactIds |-> IF i = k THEN made[p][k] ELSE f[i]]
           m == made[p]
           rest == [i \in Refunds |-> m[i] - g[i]]
<1>1. /\ k \in FactIds /\ Refunds \in SUBSET FactIds /\ IsFiniteSet(Refunds)
  BY PaymentAssumption DEF FactIds
<1>2. \A i \in Refunds : m[i] \in Amounts /\ m[i] \in Nat
  <2>1. m \in [Refunds -> 0 .. OrderTotal]
    BY DEF TypeOK
  <2>2. \A n \in 0 .. OrderTotal : n \in Amounts /\ n \in Nat
    BY PaymentAssumption, MaxAmountAssumption DEF Amounts
  <2> QED BY <2>1, <2>2
<1>3. 0 \in Amounts
  BY MaxAmountAssumption DEF Amounts
<1>4. \A i \in FactIds : f[i] = 0 \/ (i \in Refunds /\ f[i] = m[i])
  BY DEF Exact, Booked
<1>5. f[k] = 0 /\ g[k] = m[k] /\ \A i \in FactIds \ {k} : g[i] = f[i]
  BY <1>1 DEF Booked
<1>6. Refunded(p) = Total(f, FactIds)
  BY RowSum DEF Clean, Refunded
<1>7. \A i \in Refunds : g[i] \in Amounts /\ g[i] <= m[i] /\ rest[i] = m[i] - g[i]
  BY <1>1, <1>2, <1>3, <1>4, <1>5
<1>8. \A i \in FactIds \ Refunds : g[i] = 0
  BY <1>4, <1>5
<1> HIDE DEF f, g, m, rest
<1>9. Total(g, FactIds) + f[k] = Total(f, FactIds) + g[k]
  BY <1>1, <1>2, <1>3, <1>5, FactIdsFinite, TotalChangeOne
<1>10. Total(g, FactIds) = Total(g, Refunds)
  BY <1>1, <1>8, FactIdsFinite, TotalDropZeros
<1>11. Total(m, Refunds) = Total(rest, Refunds) + Total(g, Refunds)
  BY <1>1, <1>2, <1>7, TotalMinus
<1>12. Total(f, FactIds) \in Nat /\ Total(g, Refunds) \in Nat /\ Total(rest, Refunds) \in Nat
       /\ Total(m, Refunds) \in Nat
  BY <1>1, FactIdsFinite, TotalType
<1>13. Total(f, FactIds) + m[k] <= Total(m, Refunds)
  BY <1>2, <1>5, <1>9, <1>10, <1>11, <1>12
<1> QED BY <1>6, <1>13 DEF PaidBack, m

\* An explicit refund that is not on record books what the provider made, and
\* one that is ignored is on record.
LEMMA ExplicitRefund ==
  ASSUME HistoryInv, Explicit, NEW e \in Events, inbox[e] # "none",
         NEW x \in Notice, x = notice[e], x.type = "payment.refunded",
         fact[x.payment][x.refund].status # "succeeded"
  PROVE  /\ ~Ignorable(x)
         /\ Captured(x) = OrderTotal
         /\ Applied(x) = made[x.payment][x.refund]
         /\ FullyRefunds(x) <=>
              Refunded(x.payment) + made[x.payment][x.refund] >= OrderTotal
<1> DEFINE p == x.payment
           d == made[p][x.refund]
<1>1. /\ x.order /\ x.refund \in Refunds /\ p \in Payments /\ Reported(x)
      /\ d \in 1 .. OrderTotal
  BY ExplicitNotice DEF HistoryInv, PaymentInv
<1>2. TypeOK /\ Clean /\ Exact /\ Whole /\ Spent
  BY DEF HistoryInv, PaymentInv, Matched
<1>3. Refunded(p) + d <= OrderTotal /\ Refunded(p) \in Nat /\ PaidBack(p) \in Nat
  <2>1. Refunded(p) + d <= PaidBack(p)
    BY <1>1, <1>2, BookedFits
  <2>2. PaidBack(p) <= OrderTotal
    BY <1>1, <1>2 DEF Spent
  <2>3. Refunded(p) \in Nat
    BY <1>1, <1>2, RefundedType
  <2>4. PaidBack(p) \in Nat
    BY PaymentAssumption, TotalType DEF PaidBack
  <2> HIDE DEF p, d
  <2> QED BY <1>1, <2>1, <2>2, <2>3, <2>4, PaymentAssumption, MaxAmountAssumption
<1>4. Captured(x) = OrderTotal
  BY <1>1, <1>2 DEF Captured, Whole, AmountFrom
<1>5. /\ ~Upgrades(x) /\ Headroom(x) = OrderTotal - Refunded(p)
      /\ Sum(Aligned(x), Confirmed(x)) = Refunded(p)
  BY <1>2, <1>4, PlainRefunds
<1>6. x.refund # NoRefund /\ Recorded(x).status # "succeeded"
  BY <1>1, PaymentAssumption DEF Recorded
<1>7. OrderTotal \in Nat
  BY PaymentAssumption, MaxAmountAssumption
<1>8. ~Ignorable(x)
  BY <1>1, <1>3, <1>5, <1>6, <1>7 DEF Ignorable, Repeats
<1>9. Applied(x) = d
  <2>1. Applied(x) = IF x.amount = NoAmount THEN Headroom(x)
                     ELSE Least(x.amount, Headroom(x))
    BY <1>5 DEF Applied
  <2>2. CASE x.amount = NoAmount
    BY <1>1, <1>3, <1>5, <1>7, <2>1, <2>2 DEF Reported
  <2>3. CASE x.amount # NoAmount
    BY <1>1, <1>3, <1>5, <1>7, <2>1, <2>3 DEF Reported, Least
  <2> QED BY <2>2, <2>3
<1>10. FullyRefunds(x) <=> Refunded(p) + d >= OrderTotal
  BY <1>4, <1>5, <1>9 DEF FullyRefunds
<1> QED BY <1>4, <1>8, <1>9, <1>10

\* The application of an event, but for the business rows.
LEMMA AppliesOne ==
  ASSUME TypeOK, NEW w \in Workers, NEW e \in Events, Apply(w, e)
  PROVE  /\ notice[e] \in Notice /\ inbox[e] # "none" /\ Pending(e)
         /\ ~Ignorable(notice[e]) /\ ~Invalid(e, notice[e])
         /\ made' = made /\ notice' = notice
         /\ \A d \in Events : inbox'[d] # "none" <=> inbox[d] # "none"
         /\ \A d \in Events \ {e} : inbox'[d] = inbox[d]
BY DEF Apply, Pending, TypeOK

\* What it takes for the books to stay told when event e is applied.
LEMMA ToldApplied ==
  ASSUME HistoryInv, Explicit, NEW w \in Workers, NEW e \in Events, Apply(w, e),
         Whole', Exact', Closed',
         \A p \in Payments, k \in FactIds :
           fact[p][k].status = "succeeded" => fact'[p][k].status = "succeeded",
         \A p \in Payments :
           pay[p] \in {"succeeded", "refunded"} => pay'[p] \in {"succeeded", "refunded"},
         notice[e].type = "payment.refunded" =>
           fact'[notice[e].payment][notice[e].refund].status = "succeeded",
         notice[e].type = "payment.succeeded" =>
           pay'[notice[e].payment] \in {"succeeded", "refunded"}
  PROVE  Matched'
<1>0. TypeOK /\ Matched
  BY DEF HistoryInv, PaymentInv
<1>1. /\ made' = made /\ notice' = notice
      /\ \A d \in Events : inbox'[d] # "none" <=> inbox[d] # "none"
      /\ \A d \in Events \ {e} : inbox'[d] = inbox[d]
  BY <1>0, AppliesOne
<1>2. Known'
  BY <1>0, <1>1 DEF Matched, Known, RefundsOf
<1>3. \A d \in Events : Settled(d)' => d = e \/ Settled(d)
  BY <1>1 DEF Settled
<1>4. \A d \in Events : Settled(d) => notice[d] \in Notice
  BY <1>0 DEF Settled, TypeOK
<1>5. Entered'
  <2> SUFFICES ASSUME NEW d \in Events, Settled(d)', notice[d].type = "payment.refunded"
               PROVE  fact'[notice[d].payment][notice[d].refund].status = "succeeded"
    BY <1>1 DEF Entered
  <2>1. CASE d # e
    <3>1. Settled(d) /\ notice[d] \in Notice
      BY <1>3, <1>4, <2>1
    <3>2. fact[notice[d].payment][notice[d].refund].status = "succeeded"
      BY <1>0, <3>1 DEF Matched, Entered
    <3>3. Complete(d)
      BY <3>1 DEF Explicit, Settled
    <3>4. notice[d].payment \in Payments /\ notice[d].refund \in FactIds
      BY <3>1, <3>3 DEF Complete, Notice, FactIds
    <3> QED BY <3>2, <3>4
  <2> QED BY <2>1
<1>6. Standing'
  <2> SUFFICES ASSUME NEW d \in Events, Settled(d)', notice[d].type = "payment.succeeded"
               PROVE  pay'[notice[d].payment] \in {"succeeded", "refunded"}
    BY <1>1 DEF Standing
  <2>1. CASE d # e
    <3>1. Settled(d) /\ notice[d] \in Notice
      BY <1>3, <1>4, <2>1
    <3> QED BY <1>0, <3>1 DEF Matched, Standing, Notice
  <2> QED BY <2>1
<1> QED BY <1>2, <1>5, <1>6 DEF Matched

LEMMA ToldSucceed ==
  ASSUME HistoryInv, Explicit, NEW w \in Workers, NEW e \in Events, Apply(w, e),
         Succeed(e, notice[e])
  PROVE  Matched'
<1>0. TypeOK /\ RowTypes /\ Matched /\ Priced
  BY TypeParts DEF HistoryInv, PaymentInv
<1>1. PICK x \in Notice : x = notice[e]
  BY <1>0, AppliesOne
<1> DEFINE p == x.payment
<1>2. /\ p \in Payments /\ ~Ignorable(x) /\ ~Invalid(e, x) /\ Succeed(e, x)
      /\ x.amount = OrderTotal /\ x.type = "payment.succeeded" /\ fact' = fact
      /\ made' = made
  BY <1>0, <1>1, AppliesOne DEF Succeed, Priced, Notice
<1>3. OrderTotal \in Amounts /\ OrderTotal # NoAmount
  BY PaymentAssumption, MaxAmountAssumption DEF Amounts, NoAmount
<1>4. AmountFrom(x) = OrderTotal
  BY <1>2, <1>3 DEF AmountFrom
<1>5. Captured(x) = OrderTotal
  BY <1>0, <1>2, <1>4 DEF Captured, Matched, Whole
<1>6. /\ pay'[p] = "succeeded" /\ paid'[p] = OrderTotal
      /\ \A q \in Payments \ {p} : pay'[q] = pay[q] /\ paid'[q] = paid[q]
  <2>1. SetPayment(x, "succeeded") /\ "succeeded" \in PaymentStatus
    BY <1>2 DEF Succeed, PaymentStatus
  <2> QED BY <1>0, <1>3, <1>4, <1>5, <2>1, PaymentRow
<1>7. pay[p] # "refunded"
  BY <1>2 DEF Ignorable
<1>8. Whole' /\ Exact'
  BY <1>0, <1>2, <1>6 DEF Matched, Whole, Exact, Exists
<1>9. Closed'
  <2>1. \A q \in Payments : Refunded(q)' = Refunded(q)
    BY <1>2 DEF Refunded
  <2>2. \A q \in Payments : pay'[q] = "refunded" <=> pay[q] = "refunded"
    BY <1>6, <1>7
  <2> QED BY <1>0, <2>1, <2>2 DEF Matched, Closed
<1>10. \A q \in Payments :
         pay[q] \in {"succeeded", "refunded"} => pay'[q] \in {"succeeded", "refunded"}
  BY <1>6
<1>11. /\ notice[e].type # "payment.refunded"
       /\ pay'[notice[e].payment] \in {"succeeded", "refunded"}
  BY <1>1, <1>2, <1>6
<1> QED BY <1>2, <1>8, <1>9, <1>10, <1>11, ToldApplied

LEMMA ToldDecline ==
  ASSUME HistoryInv, Explicit, NEW w \in Workers, NEW e \in Events, Apply(w, e),
         Decline(e, notice[e])
  PROVE  Matched'
<1>0. TypeOK /\ RowTypes /\ Matched /\ Priced
  BY TypeParts DEF HistoryInv, PaymentInv
<1>1. PICK x \in Notice : x = notice[e]
  BY <1>0, AppliesOne
<1> DEFINE p == x.payment
<1>2. /\ p \in Payments /\ ~Ignorable(x) /\ ~Invalid(e, x) /\ Decline(e, x)
      /\ x.amount = NoAmount /\ x.type = "payment.failed" /\ fact' = fact
      /\ made' = made
  BY <1>0, <1>1, AppliesOne DEF Decline, Priced, Notice
<1>3. OrderTotal \in Amounts /\ OrderTotal # NoAmount
  BY PaymentAssumption, MaxAmountAssumption DEF Amounts, NoAmount
<1>4. AmountFrom(x) # NoAmount
  BY <1>2 DEF Invalid
<1>5. AmountFrom(x) = OrderTotal
  BY <1>0, <1>2, <1>4 DEF AmountFrom, Matched, Whole
<1>6. Captured(x) = OrderTotal
  BY <1>0, <1>2, <1>5 DEF Captured, Matched, Whole
<1>7. /\ pay'[p] = "failed" /\ paid'[p] = OrderTotal
      /\ \A q \in Payments \ {p} : pay'[q] = pay[q] /\ paid'[q] = paid[q]
  <2>1. SetPayment(x, "failed") /\ "failed" \in PaymentStatus
    BY <1>2 DEF Decline, PaymentStatus
  <2> QED BY <1>0, <1>3, <1>5, <1>6, <2>1, PaymentRow
<1>8. pay[p] \notin {"succeeded", "refunded"}
  BY <1>2 DEF Ignorable
<1>9. Whole' /\ Exact'
  BY <1>0, <1>2, <1>7 DEF Matched, Whole, Exact, Exists
<1>10. Closed'
  <2>1. \A q \in Payments : Refunded(q)' = Refunded(q)
    BY <1>2 DEF Refunded
  <2>2. \A q \in Payments : pay'[q] = "refunded" <=> pay[q] = "refunded"
    BY <1>7, <1>8
  <2> QED BY <1>0, <2>1, <2>2 DEF Matched, Closed
<1>11. \A q \in Payments :
         pay[q] \in {"succeeded", "refunded"} => pay'[q] \in {"succeeded", "refunded"}
  BY <1>7, <1>8
<1>12. notice[e].type \notin {"payment.refunded", "payment.succeeded"}
  BY <1>1, <1>2
<1> QED BY <1>2, <1>9, <1>10, <1>11, <1>12, ToldApplied

LEMMA ToldRefund ==
  ASSUME HistoryInv, Explicit, NEW w \in Workers, NEW e \in Events, Apply(w, e),
         Refund(e, notice[e])
  PROVE  Matched'
<1>0. PaymentInv /\ TypeOK /\ RowTypes /\ Clean /\ Matched /\ Reports
  BY TypeParts DEF HistoryInv, PaymentInv
<1>1. PICK x \in Notice : x = notice[e]
  BY <1>0, AppliesOne
<1> DEFINE p == x.payment
           r == x.refund
           d == made[p][r]
<1>2. /\ p \in Payments /\ ~Ignorable(x) /\ ~Invalid(e, x) /\ Refund(e, x)
      /\ x.type = "payment.refunded" /\ inbox[e] # "none" /\ made' = made
  BY <1>0, <1>1, AppliesOne DEF Refund, Notice
<1>3. x.order /\ r \in Refunds /\ r \in FactIds /\ r # NoRefund /\ d \in 1 .. OrderTotal
  <2>1. x.order /\ r \in Refunds /\ d \in 1 .. OrderTotal
    BY <1>0, <1>1, <1>2, ExplicitNotice
  <2> QED BY <2>1, PaymentAssumption DEF FactIds
<1>4. fact[p][r].status # "succeeded"
  <2>1. ~Repeats(x)
    BY <1>2 DEF Ignorable
  <2>2. Recorded(x).status # "succeeded"
    BY <1>2, <2>1 DEF Invalid
  <2> QED BY <1>3, <2>2 DEF Recorded
<1>5. /\ Captured(x) = OrderTotal /\ Applied(x) = d
      /\ FullyRefunds(x) <=> Refunded(p) + d >= OrderTotal
  BY <1>1, <1>2, <1>4, ExplicitRefund
<1>6. /\ fact'[p][r] = [status |-> "succeeded", amount |-> d]
      /\ \A k \in FactIds \ {r} : fact'[p][k] = fact[p][k]
      /\ \A q \in Payments \ {p} : fact'[q] = fact[q]
  BY <1>0, <1>2, <1>3, <1>5, RefundRow DEF RefundId
<1>7. Booked(fact[p])[r] = 0 /\ RefundId(e, x) = r
  BY <1>3, <1>4 DEF Booked, RefundId
<1>8. /\ Refunded(p)' = Refunded(p) + d
      /\ Refunded(p) \in Nat
      /\ \A q \in Payments \ {p} : Refunded(q)' = Refunded(q)
  <2>1. /\ Refunded(p)' + 0 = Refunded(p) + d /\ Refunded(p)' \in Nat
        /\ \A q \in Payments \ {p} : Refunded(q)' = Refunded(q)
    BY <1>0, <1>2, <1>5, <1>7, RefundedStep
  <2>2. Refunded(p) \in Nat
    BY <1>0, <1>2, RefundedType
  <2> HIDE DEF p, d
  <2> QED BY <2>1, <2>2
<1> DEFINE next == IF FullyRefunds(x) THEN "refunded"
                   ELSE IF Exists(p) THEN pay[p] ELSE "succeeded"
<1>9. /\ pay'[p] = next /\ paid'[p] = OrderTotal
      /\ \A q \in Payments \ {p} : pay'[q] = pay[q] /\ paid'[q] = paid[q]
  <2>1. SetPayment(x, next) /\ next \in PaymentStatus
    BY <1>0, <1>2 DEF Refund, RowTypes, PaymentStatus
  <2>2. AmountFrom(x) \in Amounts
    BY <1>0, <1>2, AmountFromType DEF Invalid
  <2> HIDE DEF next
  <2> QED BY <1>0, <1>5, <2>1, <2>2, PaymentRow
<1>10. Whole'
  BY <1>0, <1>9 DEF Matched, Whole, Exists
<1>11. Exact'
  <2>1. \A k \in FactIds : fact'[p][k].status = "succeeded" =>
          k \in Refunds /\ fact'[p][k].amount = made[p][k] /\ made[p][k] > 0
    BY <1>0, <1>2, <1>3, <1>6, PaymentAssumption, MaxAmountAssumption DEF Matched, Exact
  <2>2. \A q \in Payments \ {p}, k \in FactIds : fact'[q][k].status = "succeeded" =>
          k \in Refunds /\ fact'[q][k].amount = made[q][k] /\ made[q][k] > 0
    BY <1>0, <1>6 DEF Matched, Exact
  <2> HIDE DEF p
  <2> QED BY <1>2, <2>1, <2>2 DEF Exact
<1>12. Closed'
  <2>1. pay'[p] = "refunded" <=> Refunded(p)' >= OrderTotal
    <3>1. CASE FullyRefunds(x)
      BY <1>5, <1>8, <1>9, <3>1
    <3>2. CASE ~FullyRefunds(x)
      <4>1. ~(Refunded(p)' >= OrderTotal)
        BY <1>5, <1>8, <3>2
      <4>2. pay[p] # "refunded"
        <5>1. ~(Refunded(p) >= OrderTotal)
          <6> HIDE DEF p, d
          <6> QED BY <1>3, <1>5, <1>8, <3>2, PaymentAssumption, MaxAmountAssumption
        <5> QED BY <1>0, <1>2, <5>1 DEF Matched, Closed
      <4> QED BY <1>9, <3>2, <4>1, <4>2
    <3> QED BY <3>1, <3>2
  <2>2. \A q \in Payments \ {p} : pay'[q] = "refunded" <=> Refunded(q)' >= OrderTotal
    BY <1>0, <1>8, <1>9 DEF Matched, Closed
  <2> HIDE DEF p
  <2> QED BY <1>2, <2>1, <2>2 DEF Closed
<1>13. \A q \in Payments, k \in FactIds :
         fact[q][k].status = "succeeded" => fact'[q][k].status = "succeeded"
  BY <1>2, <1>3, <1>6
<1>14. \A q \in Payments :
         pay[q] \in {"succeeded", "refunded"} => pay'[q] \in {"succeeded", "refunded"}
  BY <1>9 DEF Exists
<1>15. /\ notice[e].type # "payment.succeeded"
       /\ fact'[notice[e].payment][notice[e].refund].status = "succeeded"
  BY <1>1, <1>2, <1>6
<1> QED BY <1>10, <1>11, <1>12, <1>13, <1>14, <1>15, ToldApplied

\* An event that is ignored has left behind already what it would leave.
LEMMA ToldIgnore ==
  ASSUME HistoryInv, Explicit, NEW w \in Workers, NEW e \in Events, Ignore(w, e)
  PROVE  Matched'
<1>0. PaymentInv /\ TypeOK /\ Clean /\ Matched
  BY DEF HistoryInv, PaymentInv
<1>1. PICK x : x = notice[e]
  OBVIOUS
<1>2. /\ x \in Notice /\ inbox[e] # "none" /\ Ignorable(x) /\ ~Invalid(e, x)
      /\ inbox' = [inbox EXCEPT ![e] = "ignored"] /\ notice' = notice /\ made' = made
  BY <1>0, <1>1 DEF Ignore, Pending, TypeOK
<1>3. UNCHANGED <<pay, paid, bound, order, access, grantedBy, fact>>
  BY <1>0, IgnoreKeepsFacts
<1>4. /\ \A d \in Events : inbox'[d] # "none" <=> inbox[d] # "none"
      /\ \A d \in Events : Settled(d)' => d = e \/ Settled(d)
  BY <1>0, <1>2 DEF Settled, TypeOK
<1>5. Known' /\ Whole' /\ Exact' /\ Closed'
  BY <1>0, <1>2, <1>3, <1>4
     DEF Matched, Known, RefundsOf, Whole, Exists, Exact, Closed, Refunded
<1>6. Entered'
  <2>1. x.type = "payment.refunded" => fact[x.payment][x.refund].status = "succeeded"
    BY <1>1, <1>2, ExplicitRefund
  <2> QED BY <1>0, <1>1, <1>2, <1>3, <1>4, <2>1 DEF Matched, Entered
<1>7. Standing'
  <2>1. x.type = "payment.succeeded" => pay[x.payment] \in {"succeeded", "refunded"}
    BY <1>2 DEF Ignorable
  <2> QED BY <1>0, <1>1, <1>2, <1>3, <1>4, <2>1 DEF Matched, Standing
<1> QED BY <1>5, <1>6, <1>7 DEF Matched

\* What arrives: a payment's notice, or a refund's, whose row in the books of
\* the provider is the only one it touches.
LEMMA WhatArrives ==
  ASSUME TypeOK, NEW w \in Workers, NEW e \in Events,
         ReceivePayment(w, e) \/ ReceiveRefund(w, e)
  PROVE  \E x :
           Receive(w, e, x) /\
             \/ x.type = "payment.succeeded" /\ x.amount = OrderTotal /\ made' = made
             \/ x.type = "payment.failed" /\ x.amount = NoAmount /\ made' = made
             \/ /\ x.type = "payment.refunded"
                /\ \E p \in Payments, k \in Refunds :
                     /\ x.payment = p /\ x.refund \in {k, NoRefund}
                     /\ \A q \in Payments, i \in Refunds :
                          q # p \/ i # k => made'[q][i] = made[q][i]
<1>1. CASE ReceivePayment(w, e)
  BY <1>1 DEF ReceivePayment
<1>2. CASE ReceiveRefund(w, e)
  <2>1. PICK p \in Payments, r \in Refunds, n \in 1 .. OrderTotal,
             shape \in RefundNotices :
          /\ made' = [made EXCEPT ![p][r] = n]
          /\ Receive(w, e, [type |-> "payment.refunded", payment |-> p,
                            order |-> shape.order,
                            amount |-> IF shape.amount THEN n ELSE NoAmount,
                            refund |-> IF shape.named THEN r ELSE NoRefund])
    BY <1>2 DEF ReceiveRefund
  <2>2. PICK x : x = [type |-> "payment.refunded", payment |-> p,
                      order |-> shape.order,
                      amount |-> IF shape.amount THEN n ELSE NoAmount,
                      refund |-> IF shape.named THEN r ELSE NoRefund]
    OBVIOUS
  <2>3. \A q \in Payments, i \in Refunds : q # p \/ i # r => made'[q][i] = made[q][i]
    BY <2>1 DEF TypeOK
  <2>4. x.type = "payment.refunded" /\ x.payment = p /\ x.refund \in {r, NoRefund}
    BY <2>2
  <2>5. Receive(w, e, x)
    BY <2>1, <2>2
  <2> QED BY <2>3, <2>4, <2>5
<1> QED BY <1>1, <1>2

\* An event that arrives is one the books know of.
LEMMA ToldReceive ==
  ASSUME HistoryInv, Explicit', NEW w \in Workers, NEW e \in Events,
         ReceivePayment(w, e) \/ ReceiveRefund(w, e), Next
  PROVE  Priced' /\ Matched'
<1>0. PaymentInv /\ TypeOK /\ Explicit /\ Matched /\ Priced /\ Reports /\ Spent
  BY ExplicitBefore DEF HistoryInv, PaymentInv
<1>1. PICK x : Receive(w, e, x) /\
        \/ x.type = "payment.succeeded" /\ x.amount = OrderTotal /\ made' = made
        \/ x.type = "payment.failed" /\ x.amount = NoAmount /\ made' = made
        \/ /\ x.type = "payment.refunded"
           /\ \E p \in Payments, k \in Refunds :
                /\ x.payment = p /\ x.refund \in {k, NoRefund}
                /\ \A q \in Payments, i \in Refunds :
                     q # p \/ i # k => made'[q][i] = made[q][i]
  BY <1>0, WhatArrives
<1>2. /\ inbox[e] = "none" /\ inbox'[e] = "received" /\ notice'[e] = x
      /\ \A d \in Events \ {e} : inbox'[d] = inbox[d] /\ notice'[d] = notice[d]
      /\ UNCHANGED commerce
  BY <1>0, <1>1 DEF Receive, TypeOK
<1>3. UNCHANGED <<pay, paid, bound, order, access, grantedBy, fact>>
  BY <1>2 DEF commerce, payment, entitlement
<1>4. Priced'
  BY <1>0, <1>1, <1>2 DEF Priced
<1>5. Grows
  BY <1>0, NoticesKept DEF PaymentInv
<1>6. Known'
  <2> SUFFICES ASSUME NEW p \in Payments, NEW k \in Refunds, made'[p][k] > 0
               PROVE  \E d \in Events : RefundsOf(d, p, k)'
    BY DEF Known
  <2>1. CASE made[p][k] > 0
    <3>1. PICK d \in Events : RefundsOf(d, p, k)
      BY <1>0, <2>1 DEF Matched, Known
    <3>2. d # e
      BY <1>2, <3>1 DEF RefundsOf
    <3> QED BY <1>2, <3>1, <3>2 DEF RefundsOf
  <2>2. CASE ~(made[p][k] > 0)
    <3>1. /\ x.type = "payment.refunded" /\ x.payment = p /\ x.refund \in {k, NoRefund}
      BY <1>1, <2>2
    <3>2. Complete(e)'
      BY <1>2 DEF Explicit
    <3>3. x.refund = k
      BY <1>2, <3>1, <3>2 DEF Complete
    <3> QED BY <1>2, <3>1, <3>3 DEF RefundsOf
  <2> QED BY <2>1, <2>2
<1>7. Whole' /\ Closed'
  BY <1>0, <1>3 DEF Matched, Whole, Exists, Closed, Refunded
<1>8. Exact'
  BY <1>0, <1>3, <1>5 DEF Matched, Exact, Grows
<1>9. \A d \in Events : Settled(d)' => Settled(d) /\ notice'[d] = notice[d]
  BY <1>2 DEF Settled
<1>10. Entered' /\ Standing'
  BY <1>0, <1>3, <1>9 DEF Matched, Entered, Standing
<1> QED BY <1>4, <1>6, <1>7, <1>8, <1>10 DEF Matched

\* The other steps move neither the books nor what is known of them.
LEMMA ToldStill ==
  ASSUME HistoryInv, Explicit => Matched, notice' = notice, made' = made,
         UNCHANGED <<pay, paid, bound, order, access, grantedBy, fact>>,
         \A d \in Events : inbox'[d] # "none" <=> inbox[d] # "none",
         \A d \in Events : Settled(d)' => Settled(d)
  PROVE  Priced' /\ (Explicit' => Matched')
<1>1. Priced'
  BY DEF HistoryInv, Priced
<1>2. ASSUME Explicit' PROVE Matched
  BY <1>2 DEF Explicit, Complete
<1>3. ASSUME Matched PROVE Known' /\ Whole' /\ Exact' /\ Closed'
  BY <1>3 DEF Matched, Known, RefundsOf, Whole, Exists, Exact, Closed, Refunded
<1>4. ASSUME Matched PROVE Entered' /\ Standing'
  BY <1>4 DEF Matched, Entered, Standing
<1> QED BY <1>1, <1>2, <1>3, <1>4 DEF Matched

LEMMA PricedStill ==
  ASSUME HistoryInv, notice' = notice,
         \A d \in Events : inbox'[d] # "none" => inbox[d] # "none"
  PROVE  Priced'
BY DEF HistoryInv, Priced

\* Without the hypothesis that refunds are told in full.
LEMMA PricedReceive ==
  ASSUME HistoryInv, NEW w \in Workers, NEW e \in Events,
         ReceivePayment(w, e) \/ ReceiveRefund(w, e)
  PROVE  Priced'
<1>1. PICK x : Receive(w, e, x) /\
        \/ x.type = "payment.succeeded" /\ x.amount = OrderTotal
        \/ x.type = "payment.failed" /\ x.amount = NoAmount
        \/ x.type = "payment.refunded"
  BY WhatArrives DEF HistoryInv, PaymentInv
<1>2. /\ notice'[e] = x
      /\ \A d \in Events \ {e} : inbox'[d] = inbox[d] /\ notice'[d] = notice[d]
  BY <1>1 DEF Receive, HistoryInv, PaymentInv, TypeOK
<1> QED BY <1>1, <1>2 DEF HistoryInv, Priced

LEMMA HistoryStep == HistoryInv /\ [Next]_vars => HistoryInv'
<1> SUFFICES ASSUME HistoryInv, [Next]_vars PROVE HistoryInv'
  OBVIOUS
<1>0. /\ PaymentInv /\ TypeOK /\ Working /\ Clean /\ Reports /\ Spent
  BY DEF HistoryInv, PaymentInv
<1>1. PaymentInv'
  BY <1>0, InvStep
<1>2. CASE UNCHANGED vars
  <2>1. /\ UNCHANGED <<pay, paid, bound, order, access, grantedBy, fact>>
        /\ inbox' = inbox /\ notice' = notice /\ made' = made
    BY <1>2 DEF vars, commerce, payment, entitlement
  <2>2. Reports' /\ Spent'
    BY <1>0, <2>1 DEF Reports, Names, Reported, Spent, PaidBack
  <2>3. Priced' /\ (Explicit' => Matched')
    BY <2>1, ToldStill DEF HistoryInv, Settled
  <2> QED BY <1>1, <2>2, <2>3 DEF HistoryInv
<1>3. CASE Next
  <2>1. Reports' /\ Spent'
    BY <1>0, <1>3, NoticesKept
  <2>2. Explicit' => Explicit
    BY <1>0, <1>3, ExplicitBefore
  <2>3. PICK w \in Workers :
          (\E e \in Events : Arrive(w, e) \/ Handle(w, e) \/ Abort(w, e)) \/ Crash(w)
    BY <1>3 DEF Next
  <2>4. Priced' /\ (Explicit' => Matched')
    <3>1. ASSUME NEW e \in Events, ReceivePayment(w, e) \/ ReceiveRefund(w, e)
          PROVE  Priced' /\ (Explicit' => Matched')
      BY <1>3, <3>1, PricedReceive, ToldReceive
    <3>2. ASSUME NEW e \in Events, Apply(w, e)
          PROVE  Priced' /\ (Explicit' => Matched')
      <4>1. Priced'
        <5>1. notice' = notice /\ \A d \in Events : inbox'[d] # "none" => inbox[d] # "none"
          BY <1>0, <3>2, AppliesOne
        <5> QED BY <5>1, PricedStill
      <4>2. Succeed(e, notice[e]) \/ Decline(e, notice[e]) \/ Refund(e, notice[e])
        BY <3>2 DEF Apply
      <4> QED BY <2>2, <3>2, <4>1, <4>2, ToldSucceed, ToldDecline, ToldRefund
    <3>3. ASSUME NEW e \in Events, Ignore(w, e)
          PROVE  Priced' /\ (Explicit' => Matched')
      <4>1. Priced'
        <5>1. notice' = notice /\ \A d \in Events : inbox'[d] # "none" => inbox[d] # "none"
          BY <1>0, <3>3 DEF Ignore, Pending, TypeOK
        <5> QED BY <5>1, PricedStill
      <4> QED BY <2>2, <3>3, <4>1, ToldIgnore
    <3>4. ASSUME NEW e \in Events,
                 \/ Redeliver(w, e) \/ Abort(w, e) \/ Replay(w, e) \/ Reject(w, e)
                 \/ MarkFailed(w, e) \/ Publish(w, e)
          PROVE  Priced' /\ (Explicit' => Matched')
      <4>1. /\ UNCHANGED commerce /\ notice' = notice /\ made' = made
            /\ inbox' = inbox \/ inbox' = [inbox EXCEPT ![e] = "failed"]
        BY <3>4 DEF Redeliver, Abort, Replay, Reject, MarkFailed, Publish
      <4>2. inbox' # inbox => inbox[e] # "none"
        <5>1. inbox' # inbox => work[w] = [at |-> "rolled back", event |-> e]
          BY <3>4 DEF Redeliver, Abort, Replay, Reject, MarkFailed, Publish
        <5> QED BY <1>0, <5>1, StageFields DEF Working, Stages
      <4>3. /\ \A d \in Events : inbox'[d] # "none" <=> inbox[d] # "none"
            /\ \A d \in Events : Settled(d)' => Settled(d)
        BY <1>0, <4>1, <4>2 DEF TypeOK, Settled
      <4>4. UNCHANGED <<pay, paid, bound, order, access, grantedBy, fact>>
        BY <4>1 DEF commerce, payment, entitlement
      <4> QED BY <4>1, <4>3, <4>4, ToldStill DEF HistoryInv
    <3>5. CASE Crash(w)
      <4>1. /\ UNCHANGED <<pay, paid, bound, order, access, grantedBy, fact>>
            /\ inbox' = inbox /\ notice' = notice /\ made' = made
        BY <3>5 DEF Crash, commerce, payment, entitlement
      <4> QED BY <4>1, ToldStill DEF HistoryInv, Settled
    <3> QED BY <2>3, <3>1, <3>2, <3>3, <3>4, <3>5 DEF Arrive, Handle
  <2> QED BY <1>1, <2>1, <2>4 DEF HistoryInv
<1> QED BY <1>2, <1>3

LEMMA HistoryStart == Init => HistoryInv
<1> SUFFICES ASSUME Init PROVE HistoryInv
  OBVIOUS
<1>1. PaymentInv
  BY InvInit
<1>2. Reports /\ Priced /\ Known /\ Whole /\ Entered /\ Standing
  BY DEF Init, Reports, Priced, Known, Whole, Exists, Entered, Standing, Settled
<1>3. Spent
  <2>1. \A p \in Payments : PaidBack(p) = 0
    BY TotalZero DEF Init, PaidBack
  <2> QED BY <2>1, PaymentAssumption DEF Spent
<1>4. Exact
  BY DEF Init, Exact, NoFact
<1>5. Closed
  <2>1. \A p \in Payments : Refunded(p) = 0
    BY <1>1, NothingRefunded DEF Init, PaymentInv, Clean, NoFact
  <2> QED BY <2>1, PaymentAssumption DEF Init, Closed
<1> QED BY <1>1, <1>2, <1>3, <1>4, <1>5 DEF HistoryInv, Matched

LEMMA HistoryAlways == Spec => []HistoryInv
BY HistoryStart, HistoryStep, PTL DEF Spec

-------------------------------------------------------------------------------
(* One payment for the order.                                              *)

OnePayment == \E p : Payments = {p}

\* What a settled sale gave stands until the payment is refunded in full.
Credited(e) ==
  \/ pay[notice[e].payment] = "refunded"
  \/ pay[notice[e].payment] = "succeeded" /\ order = "paid" /\ access = "active"
Sales ==
  /\ order = "refunded" => \A p \in Payments : pay[p] = "refunded"
  /\ order = "paid" => grantedBy # NoEvent /\ \A p \in Payments : pay[p] = "succeeded"
  /\ grantedBy # NoEvent => access # "none"
  /\ access = "revoked" => \A p \in Payments : pay[p] = "refunded"
  /\ \A e \in Events :
       Settled(e) /\ notice[e].type = "payment.succeeded" /\ notice[e].order => Credited(e)

LEMMA SalesStill ==
  ASSUME Sales, UNCHANGED <<pay, order, access, grantedBy>>,
         \A d \in Events : Settled(d)' => Settled(d) /\ notice'[d] = notice[d]
  PROVE  Sales'
BY DEF Sales, Credited

LEMMA SalesApplied ==
  ASSUME OnePayment, HistoryInv, Explicit, Sales, NEW w \in Workers, NEW e \in Events,
         Apply(w, e)
  PROVE  Sales'
<1>0. /\ PaymentInv /\ TypeOK /\ Granted /\ Matched /\ e # NoEvent
      /\ pay \in [Payments -> PaymentStatus]
  BY PaymentAssumption DEF HistoryInv, PaymentInv, TypeOK
<1>1. PICK x \in Notice : x = notice[e]
  BY <1>0, AppliesOne
<1>2. /\ x.payment \in Payments /\ ~Ignorable(x) /\ ~Invalid(e, x)
      /\ notice' = notice /\ inbox[e] # "none"
      /\ \A d \in Events : Settled(d)' => d = e \/ Settled(d)
  BY <1>0, <1>1, AppliesOne DEF Settled, Notice
<1>3. PICK p \in Payments : p = x.payment
  BY <1>2
<1>4. \A q \in Payments : q = p
  BY DEF OnePayment
<1>5. \A d \in Events : Settled(d) => notice[d] \in Notice /\ notice[d].payment = p
  BY <1>0, <1>4 DEF Settled, TypeOK, Notice
<1>6. CASE Succeed(e, x)
  <2>1. pay' = [pay EXCEPT ![p] = "succeeded"] /\ pay[p] # "refunded"
    BY <1>2, <1>3, <1>6 DEF Succeed, SetPayment, Ignorable
  <2>2. /\ pay'[p] = "succeeded" /\ order # "refunded" /\ access # "revoked"
    BY <1>0, <2>1 DEF Sales
  <2>3. /\ order' = IF KnowsOrder(x) /\ order \in {"pending", "failed"} THEN "paid" ELSE order
        /\ IF KnowsOrder(x) /\ grantedBy = NoEvent
           THEN access' = "active" /\ grantedBy' = e
           ELSE access' = access /\ grantedBy' = grantedBy
    BY <1>6 DEF Succeed, SetOrder, entitlement
  <2>4. access \in {"none", "active"} /\ order \in {"pending", "paid", "failed"}
    BY <1>0, <2>2 DEF TypeOK, OrderStatus
  <2>5. order' # "refunded" /\ access' # "revoked"
    BY <2>3, <2>4
  <2>6. /\ order' = "paid" => grantedBy' # NoEvent /\ \A q \in Payments : pay'[q] = "succeeded"
        /\ grantedBy' # NoEvent => access' # "none"
    BY <1>0, <1>4, <2>2, <2>3 DEF Sales
  <2>7. ASSUME NEW d \in Events, Settled(d)', notice[d].type = "payment.succeeded",
               notice[d].order
        PROVE  pay'[notice[d].payment] = "succeeded" /\ order' = "paid" /\ access' = "active"
    <3>1. CASE d = e
      <4>1. KnowsOrder(x) /\ notice[d].payment = p
        BY <1>1, <1>3, <2>7, <3>1 DEF KnowsOrder
      <4>2. grantedBy # NoEvent => access = "active"
        BY <2>4 DEF Sales
      <4> QED BY <2>2, <2>3, <2>4, <4>1, <4>2
    <3>2. CASE d # e
      <4>1. Settled(d) /\ notice[d].payment = p
        BY <1>2, <1>5, <2>7, <3>2
      <4>2. order = "paid" /\ access = "active"
        BY <2>1, <2>7, <4>1 DEF Sales, Credited
      <4> QED BY <2>2, <2>3, <4>1, <4>2 DEF Sales
    <3> QED BY <3>1, <3>2
  <2> QED BY <1>2, <2>5, <2>6, <2>7 DEF Sales, Credited
<1>7. CASE Decline(e, x)
  <2>1. pay' = [pay EXCEPT ![p] = "failed"] /\ pay[p] \notin {"succeeded", "refunded"}
    BY <1>2, <1>3, <1>7 DEF Decline, SetPayment, Ignorable
  <2>2. order \notin {"paid", "refunded"} /\ access # "revoked"
    BY <2>1 DEF Sales
  <2>3. order' \in {order, "failed"} /\ access' = access /\ grantedBy' = grantedBy
    BY <1>7 DEF Decline, SetOrder, entitlement
  <2>4. \A d \in Events :
          ~(Settled(d) /\ notice[d].type = "payment.succeeded" /\ notice[d].order)
    BY <1>5, <2>1 DEF Sales, Credited
  <2>5. notice[e].type # "payment.succeeded"
    BY <1>1, <1>7 DEF Decline
  <2>6. \A d \in Events :
          ~(Settled(d)' /\ notice'[d].type = "payment.succeeded" /\ notice'[d].order)
    BY <1>2, <2>4, <2>5
  <2> QED BY <2>2, <2>3, <2>6 DEF Sales
<1>8. CASE Refund(e, x)
  <2>1. x.order /\ KnowsOrder(x) /\ notice[e].type # "payment.succeeded"
    BY <1>1, <1>2, <1>8 DEF Explicit, Complete, KnowsOrder, Refund
  <2>2. /\ pay'[p] = IF FullyRefunds(x) THEN "refunded"
                     ELSE IF Exists(p) THEN pay[p] ELSE "succeeded"
        /\ order' = IF FullyRefunds(x) /\ order \in {"pending", "paid"}
                    THEN "refunded" ELSE order
        /\ access' = IF FullyRefunds(x) /\ access = "active" THEN "revoked" ELSE access
        /\ grantedBy' = grantedBy
    BY <1>0, <1>3, <1>8, <2>1 DEF Refund, SetPayment, SetOrder
  <2>3. \A d \in Events : Settled(d)' /\ notice'[d].type = "payment.succeeded" => Settled(d)
    BY <1>2, <2>1
  <2>4. CASE FullyRefunds(x)
    <3>1. \A q \in Payments : pay'[q] = "refunded"
      BY <1>4, <2>2, <2>4
    <3>2. order' # "paid" /\ (grantedBy' # NoEvent => access' # "none")
      BY <2>2, <2>4 DEF Sales
    <3>3. \A d \in Events : Settled(d)' /\ notice'[d].type = "payment.succeeded" =>
            pay'[notice'[d].payment] = "refunded"
      BY <1>2, <1>5, <2>3, <3>1
    <3> QED BY <3>1, <3>2, <3>3 DEF Sales, Credited
  <2>5. CASE ~FullyRefunds(x)
    <3>1. order' = order /\ access' = access /\ grantedBy' = grantedBy
      BY <2>2, <2>5
    <3>2. Exists(p) => pay'[p] = pay[p]
      BY <2>2, <2>5
    <3>3. order \in {"paid", "refunded"} \/ access = "revoked" => Exists(p)
      BY DEF Sales, Exists
    <3>4. \A d \in Events :
            Settled(d) /\ notice[d].type = "payment.succeeded" /\ notice[d].order
              => Exists(p) /\ Credited(d)'
      BY <1>2, <1>5, <3>1, <3>2 DEF Sales, Credited, Exists
    <3> QED BY <1>2, <1>4, <2>3, <3>1, <3>2, <3>3, <3>4 DEF Sales
  <2> QED BY <2>4, <2>5
<1> QED BY <1>1, <1>6, <1>7, <1>8 DEF Apply

LEMMA SalesIgnored ==
  ASSUME OnePayment, HistoryInv, Explicit, Sales, NEW w \in Workers, NEW e \in Events,
         Ignore(w, e)
  PROVE  Sales'
<1>0. PaymentInv /\ TypeOK /\ Clean
  BY DEF HistoryInv, PaymentInv
<1>1. PICK x : x = notice[e]
  OBVIOUS
<1>2. /\ x \in Notice /\ x.payment \in Payments /\ Ignorable(x) /\ notice' = notice
      /\ \A d \in Events : Settled(d)' => d = e \/ Settled(d)
  BY <1>0, <1>1 DEF Ignore, Pending, TypeOK, Settled, Notice
<1>3. UNCHANGED <<pay, paid, bound, order, access, grantedBy, fact>>
  BY <1>0, IgnoreKeepsFacts
<1>4. x.type = "payment.succeeded" /\ x.order => Credited(e)
  <2> SUFFICES ASSUME x.type = "payment.succeeded", x.order, pay[x.payment] # "refunded"
               PROVE  Credited(e)
    BY <1>1 DEF Credited
  <2>1. pay[x.payment] = "succeeded" /\ order \in {"paid", "refunded"}
    BY <1>2 DEF Ignorable, KnowsOrder
  <2>2. order = "paid" /\ grantedBy # NoEvent /\ access \notin {"none", "revoked"}
    BY <1>2, <2>1 DEF Sales
  <2> QED BY <1>0, <1>1, <2>1, <2>2 DEF Credited, TypeOK
<1> QED BY <1>1, <1>2, <1>3, <1>4 DEF Sales, Credited

LEMMA SalesStep ==
  ASSUME OnePayment
  PROVE  HistoryInv /\ (Explicit => Sales) /\ [Next]_vars => (Explicit' => Sales')
<1> SUFFICES ASSUME HistoryInv, Explicit => Sales, [Next]_vars, Explicit'
             PROVE  Sales'
  OBVIOUS
<1>0. PaymentInv /\ TypeOK /\ Clean
  BY DEF HistoryInv, PaymentInv
<1>1. CASE UNCHANGED vars
  <2>1. UNCHANGED <<pay, order, access, grantedBy, inbox, notice>>
    BY <1>1 DEF vars, commerce, payment, entitlement
  <2>2. Explicit
    BY <2>1 DEF Explicit, Complete
  <2> QED BY <2>1, <2>2, SalesStill DEF Settled
<1>2. CASE Next
  <2>1. Explicit /\ Sales
    BY <1>0, <1>2, ExplicitBefore
  <2>2. CASE \E w \in Workers, e \in Events : Apply(w, e) \/ Ignore(w, e)
    BY <2>1, <2>2, SalesApplied, SalesIgnored
  <2>3. CASE ~ \E w \in Workers, e \in Events : Apply(w, e) \/ Ignore(w, e)
    <3>1. UNCHANGED <<pay, paid, bound, order, access, grantedBy, fact>>
      BY <1>0, <1>2, <2>3, OnlyApplyMoves
    <3>2. \A d \in Events : Settled(d)' => Settled(d)
      <4>1. PICK w \in Workers :
              (\E e \in Events : Arrive(w, e) \/ Handle(w, e) \/ Abort(w, e)) \/ Crash(w)
        BY <1>2 DEF Next
      <4>2. CASE Crash(w)
        BY <4>2 DEF Crash, Settled
      <4>3. ASSUME NEW e \in Events, Arrive(w, e) \/ Handle(w, e) \/ Abort(w, e)
            PROVE  inbox' = inbox \/ \E s \in {"received", "failed"} :
                                       inbox' = [inbox EXCEPT ![e] = s]
        BY <2>3, <4>3 DEF Arrive, ReceivePayment, ReceiveRefund, Receive, Redeliver, Abort,
                          Handle, Replay, Reject, MarkFailed, Publish
      <4> QED BY <1>0, <4>1, <4>2, <4>3 DEF Settled, TypeOK
    <3>3. \A d \in Events : Settled(d) => notice'[d] = notice[d]
      BY <1>0, <1>2, NoticesStay DEF Settled
    <3> QED BY <2>1, <3>1, <3>2, <3>3, SalesStill
  <2> QED BY <2>2, <2>3
<1> QED BY <1>1, <1>2

LEMMA SalesAlways ==
  ASSUME OnePayment
  PROVE  Spec => [](HistoryInv /\ (Explicit => Sales))
<1>1. Init => Sales
  BY PaymentAssumption DEF Init, Sales, Settled
<1> QED BY <1>1, HistoryStart, HistoryStep, SalesStep, PTL DEF Spec

\* Once every event that was received has settled, what is booked of a sale
\* is what the provider has paid back.
LEMMA BooksAgree ==
  ASSUME HistoryInv, \A e \in Events : inbox[e] # "none" => Settled(e) /\ Complete(e),
         NEW p \in Payments
  PROVE  Refunded(p) = PaidBack(p)
<1> DEFINE f == Booked(fact[p])
           m == made[p]
<1>0. /\ TypeOK /\ Clean /\ Explicit /\ Known /\ Exact /\ Entered
  BY DEF HistoryInv, PaymentInv, Explicit, Matched
<1>1. Refunds \in SUBSET FactIds
  BY DEF FactIds
<1>2. ASSUME NEW k \in Refunds PROVE f[k] = m[k]
  <2>0. k \in FactIds /\ m[k] \in 0 .. OrderTotal
    BY <1>0, <1>1 DEF TypeOK
  <2>1. CASE m[k] > 0
    <3>1. PICK e \in Events : RefundsOf(e, p, k)
      BY <1>0, <2>1 DEF Known
    <3>2. fact[p][k].status = "succeeded"
      BY <1>0, <3>1 DEF RefundsOf, Entered
    <3> QED BY <1>0, <2>0, <3>2 DEF Exact, Booked
  <2>2. CASE ~(m[k] > 0)
    <3>1. fact[p][k].status # "succeeded"
      BY <1>0, <2>0, <2>2 DEF Exact
    <3> QED BY <2>0, <2>2, <3>1, PaymentAssumption DEF Booked
  <2> QED BY <2>1, <2>2
<1>3. \A k \in FactIds \ Refunds : f[k] = 0
  BY <1>0 DEF Exact, Booked
<1>4. Refunded(p) = Total(f, FactIds)
  BY <1>0, RowSum DEF Clean, Refunded
<1> HIDE DEF f, m
<1>5. Total(f, FactIds) = Total(f, Refunds)
  BY <1>1, <1>3, FactIdsFinite, TotalDropZeros
<1>6. Total(f, Refunds) = Total(m, Refunds)
  BY <1>2, TotalSame
<1> QED BY <1>4, <1>5, <1>6 DEF PaidBack, m

LEMMA SaleStands ==
  ASSUME HistoryInv, \A e \in Events : inbox[e] # "none" => Settled(e) /\ Complete(e),
         NEW p \in Payments, Sold(p)
  PROVE  pay[p] = IF PaidBack(p) = OrderTotal THEN "refunded" ELSE "succeeded"
<1>1. TypeOK /\ Explicit /\ Closed /\ Standing /\ Spent
  BY DEF HistoryInv, PaymentInv, Explicit, Matched
<1>2. pay[p] \in {"succeeded", "refunded"}
  BY <1>1 DEF Sold, Standing
<1>3. Refunded(p) = PaidBack(p) /\ PaidBack(p) <= OrderTotal /\ PaidBack(p) \in Nat
  BY <1>1, BooksAgree, PaymentAssumption, TotalType DEF Spent, PaidBack
<1>4. OrderTotal \in Nat
  BY PaymentAssumption
<1>5. pay[p] = "refunded" <=> PaidBack(p) = OrderTotal
  BY <1>1, <1>3, <1>4 DEF Closed
<1> QED BY <1>2, <1>5

AllExplicit == \A e \in Events : inbox[e] # "none" => Settled(e) /\ Complete(e)

\* Once every event has settled, the books of a sale are those of the provider,
\* in whatever order the events came, for any number of payments: it stands
\* refunded exactly when all of it was paid back, and what its refunds add up
\* to is what was paid back (applyPaymentEvent).
THEOREM BooksMatchProvider ==
  Spec => [](AllExplicit => \A p \in Payments : Sold(p) =>
               /\ pay[p] = IF PaidBack(p) = OrderTotal THEN "refunded" ELSE "succeeded"
               /\ Refunded(p) = PaidBack(p))
<1>1. HistoryInv =>
        (AllExplicit => \A p \in Payments : Sold(p) =>
           /\ pay[p] = IF PaidBack(p) = OrderTotal THEN "refunded" ELSE "succeeded"
           /\ Refunded(p) = PaidBack(p))
  BY BooksAgree, SaleStands DEF AllExplicit
<1> QED BY <1>1, HistoryAlways, PTL

\* With one payment for the order, access follows the books too, in whatever
\* order the events came.  (With two, a refund of the one that gave access
\* takes it from the other.)
THEOREM DeliveryOrderNeverMatters ==
  ASSUME OnePayment
  PROVE  Spec => []DeliveryOrderIsIrrelevant
<1>1. HistoryInv /\ (Explicit => Sales) => DeliveryOrderIsIrrelevant
  <2> SUFFICES ASSUME HistoryInv, Explicit => Sales, AllExplicit,
                      NEW p \in Payments, Sold(p)
               PROVE  /\ pay[p] = IF PaidBack(p) = OrderTotal THEN "refunded" ELSE "succeeded"
                      /\ access = "active" <=> PaidBack(p) < OrderTotal
                      /\ Refunded(p) = PaidBack(p)
    BY DEF DeliveryOrderIsIrrelevant, AllExplicit
  <2>1. /\ pay[p] = IF PaidBack(p) = OrderTotal THEN "refunded" ELSE "succeeded"
        /\ Refunded(p) = PaidBack(p)
    BY BooksAgree, SaleStands DEF AllExplicit
  <2>2. PaidBack(p) \in Nat /\ PaidBack(p) <= OrderTotal /\ OrderTotal \in Nat
    BY PaymentAssumption, TotalType DEF HistoryInv, Spent, PaidBack
  <2>3. access = "active" => pay[p] = "succeeded"
    BY DEF HistoryInv, PaymentInv, AccessHasPayment, OnePayment
  <2>4. pay[p] = "succeeded" => access = "active"
    BY DEF AllExplicit, Explicit, Sales, Sold, Credited
  <2> QED BY <2>1, <2>2, <2>3, <2>4
<1> QED BY <1>1, SalesAlways, PTL

\* The revenue of the payments is that of the orders, once all is settled
\* (volumeByCurrency, and the two product breakdowns, in analytics.ts), and the
\* product amount of the period's report is short of it by the quantity, for
\* any price and any quantity.
THEOREM ReportsAlwaysAgree ==
  ASSUME OnePayment
  PROVE  Spec => []ReportsAgree
<1>1. HistoryInv /\ (Explicit => Sales) => ReportsAgree
  <2> SUFFICES ASSUME HistoryInv, Explicit => Sales, AllTold,
                      \A p \in Payments : Exists(p) => Sold(p)
               PROVE  /\ volumeByCurrency = productRevenue
                      /\ volumeByCurrency = Quantity * byProduct.amountMinor
                      /\ byProduct.units = IF volumeByCurrency = 0 THEN 0 ELSE Quantity
                      /\ attempted = paymentOutcomes("succeeded")
                      /\ paymentOutcomes("refunded") =
                           Cardinality({p \in Payments : Exists(p) /\ PaidBack(p) = OrderTotal})
    BY DEF ReportsAgree
  <2>0. AllExplicit /\ Explicit /\ Sales /\ TypeOK /\ Whole
    BY DEF AllTold, AllExplicit, Explicit, HistoryInv, PaymentInv, Matched
  <2>1. \A p \in Payments :
          Exists(p) => pay[p] = IF PaidBack(p) = OrderTotal THEN "refunded" ELSE "succeeded"
    BY <2>0, SaleStands DEF AllExplicit
  <2>2. WithStatus("failed") = {}
    BY <2>1 DEF WithStatus, Exists
  <2>3. WithStatus("refunded") = {p \in Payments : Exists(p) /\ PaidBack(p) = OrderTotal}
    BY <2>1 DEF WithStatus, Exists
  <2>4. WithStatus("succeeded") = {} \/ \E p \in Payments : WithStatus("succeeded") = {p}
    BY DEF WithStatus, OnePayment
  <2>5. IsFiniteSet(WithStatus("succeeded"))
    BY <2>4, FS_EmptySet, FS_Singleton
  <2>6. attempted = paymentOutcomes("succeeded")
    <3>1. Cardinality(WithStatus("failed")) = 0
      BY <2>2, FS_EmptySet
    <3>2. Cardinality(WithStatus("succeeded")) \in Nat
      BY <2>5, FS_CardinalityType
    <3> QED BY <3>1, <3>2 DEF attempted, paymentOutcomes
  <2>7. /\ volumeByCurrency = productRevenue
        /\ volumeByCurrency = Quantity * byProduct.amountMinor
        /\ byProduct.units = IF volumeByCurrency = 0 THEN 0 ELSE Quantity
    <3>0. /\ UnitAmount \in Nat /\ Quantity \in Nat
          /\ UnitAmount * Quantity = OrderTotal /\ Quantity * UnitAmount = OrderTotal
          /\ OrderTotal # 0 /\ Quantity * 0 = 0
      BY SaleAssumption, PaymentAssumption
    <3>1. CASE WithStatus("succeeded") = {}
      <4>1. volumeByCurrency = 0
        BY <3>1, TotalZero DEF volumeByCurrency
      <4>2. order # "paid"
        BY <2>0, <3>1 DEF Sales, WithStatus, OnePayment
      <4>3. byProduct = [amountMinor |-> 0, units |-> 0] /\ productRevenue = 0
        BY <4>2 DEF byProduct, productRevenue
      <4> QED BY <3>0, <4>1, <4>3
    <3>2. ASSUME NEW p \in Payments, WithStatus("succeeded") = {p}
          PROVE  /\ volumeByCurrency = productRevenue
                 /\ volumeByCurrency = Quantity * byProduct.amountMinor
                 /\ byProduct.units = IF volumeByCurrency = 0 THEN 0 ELSE Quantity
      <4>1. pay[p] = "succeeded" /\ Exists(p)
        BY <3>2 DEF WithStatus, Exists
      <4>2. order = "paid"
        BY <2>0, <4>1 DEF Sold, AllTold, Sales, Credited
      <4>3. paid[p] = OrderTotal /\ OrderTotal \in Amounts
        BY <2>0, <4>1, PaymentAssumption, MaxAmountAssumption DEF Whole, Amounts
      <4>4. volumeByCurrency = OrderTotal
        BY <3>2, <4>3, TotalOne DEF volumeByCurrency
      <4>5. /\ byProduct = [amountMinor |-> UnitAmount, units |-> Quantity]
            /\ productRevenue = UnitAmount * Quantity
        BY <4>2 DEF byProduct, productRevenue
      <4> QED BY <3>0, <4>4, <4>5
    <3> QED BY <2>4, <3>1, <3>2
  <2> QED BY <2>3, <2>6, <2>7 DEF paymentOutcomes
<1> QED BY <1>1, SalesAlways, PTL
===============================================================================
