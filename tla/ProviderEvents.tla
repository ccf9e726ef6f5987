----------------------------- MODULE ProviderEvents -----------------------------
(***************************************************************************)
(* What the providers' subscription events become: each adapter normalizes *)
(* an event into the notice that SubscriptionEvents applies, from what the *)
(* event carries or, for a PayPal sale, from what PayPal's API answers at  *)
(* the time of the delivery.  Cycle n is the period from n to n + 1.       *)
(*                                                                         *)
(*   provider   whose subscription this is                                 *)
(*   plan       the provider's own record of it (external); cycle: the     *)
(*              last period it opened, paid: the periods it was paid for   *)
(*   told       the event behind each provider event id, with the record   *)
(*              as it was when the event was made                          *)
(***************************************************************************)
EXTENDS SubscriptionEvents

CONSTANTS Providers, MaxCycle, NotTold

Creem == "creem"
PayPal == "paypal"
Waffo == "waffo"

ASSUME ProviderAssumption ==
  /\ Providers \subseteq {Creem, PayPal, Waffo}
  /\ MaxCycle \in Nat /\ MaxTime = MaxCycle + 1

VARIABLES provider, plan, told

external == <<provider, plan, told>>
cycleVars == <<vars, external>>

Cycles == 1 .. MaxCycle
Plan == [status : {"none", "pending", "active", "scheduled", "past_due",
                   "cancelled", "expired"},
         cycle : {0} \cup Cycles, paid : SUBSET Cycles]

\* What the providers call their events.
EventNames == {"checkout.completed", "subscription.active", "subscription.paid",
               "subscription.past_due", "subscription.scheduled_cancel",
               "subscription.update", "subscription.canceled", "subscription.expired",
               "CREATED", "ACTIVATED", "UPDATED", "CANCELLED", "EXPIRED",
               "SALE.COMPLETED", "SALE.DENIED", "activated", "renewed", "recovered",
               "past_due", "canceling", "canceled"}

CycleTypeOK ==
  /\ provider \in Providers
  /\ plan \in Plan
  /\ told \in [Events -> {NotTold} \cup [name : EventNames, object : Plan]]

-------------------------------------------------------------------------------
(* The adapters.                                                           *)

\* Creem and Waffo state the period that was opened, PayPal the one from its
\* last payment to the next.
LastOf(S) == IF S = {} THEN 0 ELSE CHOOSE n \in S : \A m \in S : m <= n
CycleOf(object) == IF provider = PayPal THEN LastOf(object.paid) ELSE object.cycle
Normalized(type, status, atEnd, cycle) ==
  [type |-> type, status |-> status, atEnd |-> atEnd,
   start |-> cycle, end |-> IF cycle = 0 THEN NoTime ELSE cycle + 1,
   order |-> TRUE, customer |-> TRUE]
Flag(b) == IF b THEN "yes" ELSE "no"

mapSubscriptionStatus(object) ==
  CASE object.status \in {"active", "scheduled"} -> "active"
    [] object.status \in {"past_due", "cancelled", "expired"} -> object.status
    [] OTHER -> "pending"

\* Only a payment opens access: subscription.active comes before it.
normalizeCreemWebhook(name, object) ==
  LET cycle == object.cycle IN
  CASE name = "checkout.completed" ->
         Normalized("subscription.created", "pending", "absent", 0)
    [] name = "subscription.active" ->
         Normalized("subscription.created", "pending", "absent", cycle)
    [] name = "subscription.paid" ->
         Normalized("subscription.renewed", "active",
                    Flag(object.status = "scheduled"), cycle)
    [] name = "subscription.past_due" ->
         Normalized("payment.failed", "absent", "absent", 0)
    [] name = "subscription.scheduled_cancel" ->
         Normalized("subscription.updated", "active", "yes", cycle)
    [] name = "subscription.update" ->
         Normalized("subscription.updated", mapSubscriptionStatus(object),
                    Flag(object.status = "scheduled"), cycle)
    [] name = "subscription.canceled" ->
         Normalized("subscription.cancelled", "absent", "no", cycle)
    [] name = "subscription.expired" ->
         Normalized("subscription.expired", "absent", "absent", cycle)

\* now: the subscription as PayPal's API has it when the sale is handled.
normalizePayPalWebhook(name, object, now) ==
  CASE name = "CREATED" ->
         Normalized("subscription.created", "pending", "absent", 0)
    [] name = "ACTIVATED" ->
         Normalized("subscription.activated", "active", "absent", CycleOf(object))
    [] name = "UPDATED" ->
         Normalized("subscription.updated", mapSubscriptionStatus(object), "absent",
                    CycleOf(object))
    [] name = "CANCELLED" ->
         Normalized("subscription.cancelled", "cancelled", "no", 0)
    [] name = "EXPIRED" ->
         Normalized("subscription.expired", "expired", "absent", 0)
    [] name = "SALE.COMPLETED" ->
         Normalized("subscription.renewed", mapSubscriptionStatus(now), "absent",
                    CycleOf(now))
    [] name = "SALE.DENIED" ->
         Normalized("payment.failed", "absent", "absent", 0)

Mut_RenewedIsUpdate(name, object) ==
  Normalized(IF name = "activated" THEN "subscription.activated"
             ELSE "subscription.updated",
             mapSubscriptionStatus(object), "no", object.cycle)
normalizeWaffoPancakeWebhook(name, object) ==
  LET status == mapSubscriptionStatus(object) IN
  CASE name = "activated" ->
         Normalized("subscription.activated", status, "no", object.cycle)
    [] name = "renewed" ->
         Normalized("subscription.renewed", status, "no", object.cycle)
    [] name \in {"recovered", "past_due", "canceling"} ->
         Normalized("subscription.updated", status, Flag(name = "canceling"),
                    object.cycle)
    [] name = "canceled" ->
         Normalized("subscription.cancelled", "cancelled", "absent", object.cycle)

normalizeWebhook(event, now) ==
  CASE provider = Creem -> normalizeCreemWebhook(event.name, event.object)
    [] provider = PayPal -> normalizePayPalWebhook(event.name, event.object, now)
    [] provider = Waffo -> normalizeWaffoPancakeWebhook(event.name, event.object)

-------------------------------------------------------------------------------
(* External: the provider, and the events it makes of what it does.  It    *)
(* tells of its record as it is, once of each cycle; an event may never    *)
(* come, or come late.                                                     *)

Paid(p) == p.cycle \in p.paid

\* The names of the events that may be made of the record p.
Tellable(p) ==
  LET when(condition, names) == IF condition THEN names ELSE {}
      active == p.status = "active" IN
  CASE provider = Creem -> UNION {
         when(p.status = "pending", {"checkout.completed", "subscription.active"}),
         when(active /\ Paid(p), {"subscription.paid", "subscription.update"}),
         when(active /\ p.cycle = 1, {"subscription.active"}),
         when(p.status = "past_due", {"subscription.past_due", "subscription.update"}),
         when(p.status = "scheduled", {"subscription.scheduled_cancel"}),
         when(p.status = "cancelled", {"subscription.canceled"}),
         when(p.status = "expired", {"subscription.expired"})}
    [] provider = PayPal -> UNION {
         when(p.status = "pending", {"CREATED"}),
         when(active /\ Paid(p), {"SALE.COMPLETED", "UPDATED"}),
         when(active /\ p.cycle = 1, {"ACTIVATED"}),
         when(p.status = "past_due", {"SALE.DENIED", "UPDATED"}),
         when(p.status = "cancelled", {"CANCELLED"}),
         when(p.status = "expired", {"EXPIRED"})}
    [] provider = Waffo -> UNION {
         when(active /\ p.cycle = 1, {"activated"}),
         when(active /\ p.cycle > 1, {"renewed", "recovered"}),
         when(p.status = "past_due", {"past_due"}),
         when(p.status = "scheduled", {"canceling"}),
         when(p.status = "cancelled", {"canceled"})}

Becomes(record) == plan' = record /\ UNCHANGED <<vars, provider, told>>

Subscribe ==
  plan.status = "none" /\ Becomes([plan EXCEPT !.status = "pending"])
Charge ==
  /\ plan.status \in {"pending", "active"} /\ plan.cycle < MaxCycle
  /\ Becomes([status |-> "active", cycle |-> plan.cycle + 1,
              paid |-> plan.paid \cup {plan.cycle + 1}])
Decline ==
  /\ plan.status = "active" /\ plan.cycle < MaxCycle
  /\ Becomes([plan EXCEPT !.status = "past_due", !.cycle = @ + 1])
Collect ==
  /\ plan.status = "past_due"
  /\ Becomes([plan EXCEPT !.status = "active", !.paid = @ \cup {plan.cycle}])
Schedule ==
  /\ plan.status = "active" /\ provider # PayPal
  /\ Becomes([plan EXCEPT !.status = "scheduled"])
Finish ==
  /\ plan.status \in {"active", "scheduled", "past_due"}
  /\ \E s \in {"cancelled", "expired"} : Becomes([plan EXCEPT !.status = s])

Tell(e, name) ==
  /\ told[e] = NotTold
  /\ \A f \in Events : told[f] # NotTold =>
       told[f].name # name \/ told[f].object.cycle # plan.cycle
  /\ told' = [told EXCEPT ![e] = [name |-> name, object |-> plan]]
  /\ UNCHANGED <<vars, provider, plan>>

-------------------------------------------------------------------------------
\* What the API may have answered since the event was made: the record it was
\* made of, or the one of now.
Answers(event) == {event.object, plan}

(* The adapter normalizes the event anew in each delivery of it.           *)
Deliver(w, e) ==
  /\ told[e] # NotTold
  /\ \E now \in Answers(told[e]) :
       LET body == normalizeWebhook(told[e], now) IN Receive(w, e, NoEvent, body)
  /\ UNCHANGED external

CycleInit ==
  /\ Init
  /\ provider \in Providers
  /\ plan = [status |-> "none", cycle |-> 0, paid |-> {}]
  /\ told = [e \in Events |-> NotTold]

CycleNext ==
  \/ Subscribe \/ Charge \/ Decline \/ Collect \/ Schedule \/ Finish
  \/ \E e \in Events : \E name \in Tellable(plan) : Tell(e, name)
  \/ \E w \in Workers, e \in Events : Deliver(w, e)
  \/ \E w \in Workers :
       /\ Begin(w) \/ Commit(w) \/ Reject(w) \/ Abort(w) \/ MarkFailed(w) \/ Crash(w)
       /\ UNCHANGED external

CycleSpec == CycleInit /\ [][CycleNext]_cycleVars

-------------------------------------------------------------------------------
(* No cycle has a feature or credits before the provider was paid for it,  *)
(* whatever events came, of whatever provider, in whatever order.          *)
AccessFollowsPayment ==
  \A n \in Cycles :
    grants[n].status # "none" \/ buckets[n].status # "none" => n \in plan.paid

TellsOfPayment(event) ==
  /\ event # NotTold
  /\ event.name \in {"subscription.paid", "ACTIVATED", "SALE.COMPLETED",
                     "activated", "renewed"}
Processed(e) == inbox[e] = "processed" /\ e \notin bare

(* A cycle that was paid, and whose payment has been told and processed,   *)
(* has delivered credits of its own.                                       *)
PaidCycleDelivers ==
  \A e \in Events :
    /\ TellsOfPayment(told[e]) /\ told[e].object.status = "active"
    /\ Processed(e)
    => buckets[told[e].object.cycle].status # "none"

(* That holds of the providers whose event states the cycle it is for.     *)
StatedCycleDelivers == provider # PayPal => PaidCycleDelivers
===============================================================================
