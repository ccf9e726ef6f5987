--------------------------- MODULE SubscriptionEvents ---------------------------
(***************************************************************************)
(* The subscription events of one provider subscription, and the journaled *)
(* cancellation of it, for a plan that grants a feature and credits.       *)
(*                                                                         *)
(* A worker is one HTTP request of the provider.  Its transaction locks    *)
(* the inbox row and reads the subscription without a lock, and the upsert *)
(* that follows locks the subscription until the commit: what is written   *)
(* is decided by the row as it was read, and the writes are one step.      *)
(* The journal reads the subscription before its transaction opens.        *)
(*                                                                         *)
(*   sub      the row of subscriptions ("none": no such row); items: it    *)
(*            has subscription_items                                       *)
(*   grants   entitlement_grants, by the period part of their key          *)
(*   buckets  credit grants of one credit each and their buckets, by the   *)
(*            same part; event is the sourceEventId of the grant           *)
(*   held     what open reservations hold of these credits: the account    *)
(*            has no others                                                *)
(*   inbox    webhook_events.status, by provider event id                  *)
(*   notice   webhook_events.normalized_event                              *)
(*   sent     the provider's own record of each event it has sent          *)
(*   work     what each worker is doing                                    *)
(*   op       the billing operation that cancels this subscription         *)
(*   bare     the events applied while the subscription had no items       *)
(*   ended    the access was ended at once and nothing has granted since   *)
(*   kept     what open reservations held when it was last ended so        *)
(*   faults   how many aborts and crashes there have been                  *)
(***************************************************************************)
EXTENDS Integers, FiniteSets

CONSTANTS
  Events,         \* provider event ids
  Workers,        \* requests handled at the same time
  MaxTime,        \* period boundaries are 1 .. MaxTime
  Notices,        \* what each event may be
  CancelAnswers,  \* what the provider may answer to a cancellation
  MaxFaults,      \* aborts and crashes, together
  MaxHeld,        \* credits the host holds at the same time
  NoEvent

NoTime == 0       \* an absent date
Times == 1 .. MaxTime
Dates == Times \cup {NoTime}

Statuses == {"pending", "active", "past_due", "cancelled", "expired"}
Types == {"subscription.created", "subscription.activated",
          "subscription.renewed", "subscription.updated",
          "subscription.cancelled", "subscription.expired", "payment.failed"}

\* A normalized event; an absent status or flag is "absent".
Notice == [type : Types, status : Statuses \cup {"absent"}, start : Dates,
           end : Dates, atEnd : {"yes", "no", "absent"},
           order : BOOLEAN, customer : BOOLEAN]
Answer == [status : Statuses, start : Dates, end : Dates, atEnd : BOOLEAN]

ASSUME SubscriptionAssumption ==
  /\ IsFiniteSet(Events) /\ NoEvent \notin Events
  /\ Events \cap Dates = {}
  /\ MaxTime \in Nat /\ MaxFaults \in Nat /\ MaxHeld \in Nat
  /\ Notices \in [Events -> SUBSET Notice]
  /\ CancelAnswers \subseteq Answer

VARIABLES sub, grants, buckets, held, inbox, notice, sent, work, op, bare, ended, kept,
          faults

contract == <<sub, grants, buckets, held, bare, ended, kept>>
delivery == <<inbox, notice>>
vars == <<contract, delivery, sent, work, op, faults>>

Keys == Times \cup Events
Row == [status : Statuses \cup {"none"}, start : Dates, end : Dates,
        atEnd : BOOLEAN, items : BOOLEAN]
NoRow == [status |-> "none", start |-> NoTime, end |-> NoTime,
          atEnd |-> FALSE, items |-> FALSE]
NoGrant == [status |-> "none", from |-> NoTime, until |-> NoTime]
Bucket == [status : {"none", "active", "reversed", "consumed"},
           expires : Dates, event : Events \cup {NoEvent}]
NoBucket == [status |-> "none", expires |-> NoTime, event |-> NoEvent]
Idle == [at |-> "idle"]
NoOperation == [at |-> "none"]

\* The buckets that hold a credit.  They back the account: what is not held
\* of it is available.
Active == {k \in Keys : buckets[k].status = "active"}
Available == Cardinality(Active) - held

TypeOK ==
  /\ sub \in Row
  /\ grants \in [Keys -> [status : {"none", "active", "revoked", "expired"},
                          from : Dates, until : Dates]]
  /\ buckets \in [Keys -> Bucket]
  /\ held \in 0 .. MaxHeld /\ Available \in Nat
  /\ inbox \in [Events -> {"none", "received", "processed", "failed"}]
  /\ notice \in [Events -> {NoEvent} \cup Notice]
  /\ sent \in [Events -> {NoEvent} \cup Notice]
  /\ \A e \in Events : inbox[e] # "none" => notice[e] \in Notice
  /\ work \in [Workers -> {Idle}
                 \cup [at : {"apply"}, event : Events, body : Notice]
                 \cup [at : {"write"}, event : Events, body : Notice, seen : Row]
                 \cup [at : {"rolled back"}, event : Events]]
  /\ op \in {NoOperation} \cup [at : {"pending_provider"}]
            \cup [at : {"provider_succeeded", "completed"}, result : Answer]
            \cup [at : {"reconciling"}, result : Answer, seen : Row]
  /\ bare \subseteq Events
  /\ ended \in BOOLEAN
  /\ kept \in 0 .. MaxHeld
  /\ faults \in 0 .. MaxFaults

-------------------------------------------------------------------------------
(* What an event x makes of the row it was read against.                   *)

Or(value, stored) == IF value = NoTime THEN stored ELSE value
Start(x, seen) == Or(x.start, seen.start)
End(x, seen) == Or(x.end, seen.end)
AtEnd(x, seen) == IF x.atEnd = "absent" THEN seen.atEnd ELSE x.atEnd = "yes"

Mut_AsSent(x, default) == x.status
Stated(x, default) == IF x.status = "absent" THEN default ELSE x.status

inferredStatus(x, seen) ==
  CASE x.type = "payment.failed"         -> "past_due"
    [] x.type = "subscription.created"   -> Stated(x, "pending")
    [] x.type = "subscription.activated" -> Stated(x, "active")
    [] x.type = "subscription.renewed"   -> Stated(x, "active")
    [] x.type = "subscription.cancelled" -> "cancelled"
    [] x.type = "subscription.expired"   -> "expired"
    [] OTHER -> Stated(x, IF seen.status = "none" THEN "pending" ELSE seen.status)

Subscription(x, seen) ==
  [status |-> inferredStatus(x, seen), start |-> Start(x, seen),
   end |-> End(x, seen), atEnd |-> AtEnd(x, seen),
   items |-> sub.items \/ (seen.status = "none" /\ x.order)]

grantsAccess(x, seen) ==
  /\ inferredStatus(x, seen) = "active"
  /\ x.type \in {"subscription.created", "subscription.activated",
                 "subscription.renewed", "subscription.updated"}
grantsCredits(x, seen) ==
  /\ grantsAccess(x, seen)
  /\ x.type \in {"subscription.activated", "subscription.renewed"}

Mut_StoredPeriodKey(e, x, seen) == Start(x, seen)
\* A renewal without a start of its own is keyed by its event: the stored
\* start is the one of the cycle before.
grantPeriodKey(e, x, seen) ==
  IF x.type = "subscription.renewed" /\ x.start = NoTime
  THEN e ELSE Start(x, seen)

grantEntitlement(x, seen) ==
  [status |-> "active", from |-> Start(x, seen), until |-> End(x, seen)]
EntitlementConflict(e, x, seen) ==
  LET g == grants[grantPeriodKey(e, x, seen)] IN
  g.status # "none" /\ (g.from # Start(x, seen) \/ g.until # End(x, seen))

CreditConflict(e, x, seen) ==
  LET b == buckets[grantPeriodKey(e, x, seen)] IN
  b.status # "none" /\ b.expires # x.end

Unmapped(x, seen) == seen.status = "none" /\ ~x.customer /\ ~x.order

Bounded(x, seen) == Start(x, seen) # NoTime /\ End(x, seen) # NoTime

\* The credits of a renewal must expire, and a repeated grant must agree.
CreditsRefused(e, x, seen) ==
  /\ grantsCredits(x, seen)
  /\ \/ x.type = "subscription.renewed" /\ x.end = NoTime
     \/ CreditConflict(e, x, seen)

\* The event is refused: no customer, an active period without its two
\* boundaries, or a benefit that cannot be granted on these terms.
Refused(e, x, seen) ==
  \/ Unmapped(x, seen)
  \/ grantsAccess(x, seen) /\ ~Bounded(x, seen)
  \/ /\ grantsAccess(x, seen) /\ Bounded(x, seen)
     /\ Subscription(x, seen).items
     /\ \/ End(x, seen) <= Start(x, seen)
        \/ EntitlementConflict(e, x, seen)
        \/ CreditsRefused(e, x, seen)

\* Every active grant of the subscription, whatever its period.
EndEntitlements(status) ==
  [k \in Keys |-> IF grants[k].status = "active"
                  THEN [grants[k] EXCEPT !.status = status] ELSE grants[k]]

\* ORDER BY expiresAt ASC NULLS LAST; ties fall either way.
ExpiresBefore(k, l) ==
  /\ buckets[k].expires # NoTime
  /\ buckets[l].expires = NoTime \/ buckets[k].expires < buckets[l].expires
FirstToExpire(n) ==
  {S \in SUBSET Active :
     Cardinality(S) = n /\ \A k \in S, l \in Active \ S : ~ExpiresBefore(l, k)}
Drain(S, status) ==
  buckets' = [k \in Keys |-> IF k \in S THEN [buckets[k] EXCEPT !.status = status]
                             ELSE buckets[k]]

Mut_SkipWhileHeld ==
  IF held > 0 THEN UNCHANGED buckets ELSE Drain(Active, "reversed")
\* It takes back what is available.  The credits that open reservations hold
\* stay, in the buckets that expire last.
revokeSubscriptionCredits ==
  \E S \in FirstToExpire(Available) : Drain(S, "reversed")

-------------------------------------------------------------------------------
Init ==
  /\ sub = NoRow
  /\ grants = [k \in Keys |-> NoGrant]
  /\ buckets = [k \in Keys |-> NoBucket]
  /\ inbox = [e \in Events |-> "none"]
  /\ notice = [e \in Events |-> NoEvent]
  /\ sent = [e \in Events |-> NoEvent]
  /\ work = [w \in Workers |-> Idle]
  /\ op = NoOperation
  /\ held = 0
  /\ bare = {}
  /\ ended = FALSE /\ kept = 0
  /\ faults = 0

\* A delivery may leave out the boundaries of the period.
Bodies(x) == {[x EXCEPT !.start = s, !.end = t] :
                s \in {x.start, NoTime}, t \in {x.end, NoTime}}

(* The provider sends its event x, as e, for the first time or again, and  *)
(* the row is written unless there is one.                                 *)
Receive(w, e, x, body) ==
  /\ work[w] = Idle /\ sent[e] \in {NoEvent, x}
  /\ sent' = [sent EXCEPT ![e] = x]
  /\ IF inbox[e] = "none"
     THEN /\ inbox' = [inbox EXCEPT ![e] = "received"]
          /\ notice' = [notice EXCEPT ![e] = body]
     ELSE UNCHANGED delivery
  /\ work' = [work EXCEPT ![w] = [at |-> "apply", event |-> e, body |-> body]]
  /\ UNCHANGED <<contract, op, faults>>

Locked(e) == \E w \in Workers : work[w].at = "write" /\ work[w].event = e

Mut_StoredBody(w, e) ==
  IF inbox[e] = "processed" THEN work' = [work EXCEPT ![w] = Idle]
  ELSE work' = [work EXCEPT ![w] =
                  [at |-> "write", event |-> e, seen |-> sub, body |-> notice[e]]]
\* A failed row is applied with the body of this delivery, another one with
\* the body that was stored.
Read(w, e) ==
  IF inbox[e] = "processed" THEN work' = [work EXCEPT ![w] = Idle]
  ELSE work' = [work EXCEPT ![w] =
                  [at |-> "write", event |-> e, seen |-> sub,
                   body |-> IF inbox[e] = "failed" THEN work[w].body ELSE notice[e]]]

(* The transaction takes the inbox row and reads the subscription.         *)
Begin(w) ==
  /\ work[w].at = "apply" /\ ~Locked(work[w].event)
  /\ Read(w, work[w].event)
  /\ UNCHANGED <<contract, delivery, sent, op, faults>>

EndsNow(x, seen) == x.type = "subscription.cancelled" /\ ~AtEnd(x, seen)

\* Everything an event that is not refused writes.
Apply(e, x, seen) ==
  LET key == grantPeriodKey(e, x, seen)
      delivers == grantsAccess(x, seen) /\ Subscription(x, seen).items
      credits == delivers /\ grantsCredits(x, seen) IN
  /\ sub' = Subscription(x, seen)
  /\ grants' = CASE delivers /\ grants[key].status = "none" ->
                      [grants EXCEPT ![key] = grantEntitlement(x, seen)]
                 [] EndsNow(x, seen) -> EndEntitlements("revoked")
                 [] x.type = "subscription.expired" -> EndEntitlements("expired")
                 [] OTHER -> grants
  /\ CASE credits /\ buckets[key].status = "none" ->
            buckets' = [buckets EXCEPT ![key] =
                          [status |-> "active", expires |-> x.end, event |-> e]]
       [] EndsNow(x, seen) -> revokeSubscriptionCredits
       [] OTHER -> UNCHANGED buckets
  /\ bare' = IF Subscription(x, seen).items THEN bare \ {e} ELSE bare \cup {e}
  /\ ended' = (EndsNow(x, seen) \/ (ended /\ ~grantsAccess(x, seen)))
  /\ kept' = IF EndsNow(x, seen) THEN held ELSE IF ended' THEN kept ELSE 0
  /\ UNCHANGED held

Commit(w) ==
  /\ work[w].at = "write"
  /\ Refused(work[w].event, work[w].body, work[w].seen) = FALSE
  /\ Apply(work[w].event, work[w].body, work[w].seen)
  /\ inbox' = [inbox EXCEPT ![work[w].event] = "processed"]
  /\ notice' = [notice EXCEPT ![work[w].event] = work[w].body]
  /\ work' = [work EXCEPT ![w] = Idle]
  /\ UNCHANGED <<sent, op, faults>>

RolledBack(w) == [work EXCEPT ![w] = [at |-> "rolled back", event |-> work[w].event]]

Reject(w) ==
  /\ work[w].at = "write"
  /\ Refused(work[w].event, work[w].body, work[w].seen) = TRUE
  /\ work' = RolledBack(w)
  /\ UNCHANGED <<contract, delivery, sent, op, faults>>

(* The database aborts the transaction: a deadlock, a lost connection.     *)
Abort(w) ==
  /\ work[w].at = "write" /\ faults < MaxFaults
  /\ work' = RolledBack(w)
  /\ faults' = faults + 1
  /\ UNCHANGED <<contract, delivery, sent, op>>

(* Written in a commit of its own, whatever has become of the row since.   *)
MarkFailed(w) ==
  /\ work[w].at = "rolled back"
  /\ inbox' = [inbox EXCEPT ![work[w].event] = "failed"]
  /\ work' = [work EXCEPT ![w] = Idle]
  /\ UNCHANGED <<contract, notice, sent, op, faults>>

Crash(w) ==
  /\ work[w] # Idle /\ faults < MaxFaults
  /\ work' = [work EXCEPT ![w] = Idle]
  /\ faults' = faults + 1
  /\ UNCHANGED <<contract, delivery, sent, op>>

-------------------------------------------------------------------------------
(* The journaled cancellation.  Its key names the subscription only, so    *)
(* there is one operation for ever.                                        *)

OpenCancellation ==
  /\ op = NoOperation
  /\ sub.status \notin {"none", "cancelled", "expired"}
  /\ op' = [at |-> "pending_provider"]
  /\ UNCHANGED <<contract, delivery, sent, work, faults>>

(* External: the provider cancels and answers.                             *)
AnswerCancellation ==
  /\ op.at = "pending_provider"
  /\ \E r \in CancelAnswers : op' = [at |-> "provider_succeeded", result |-> r]
  /\ UNCHANGED <<contract, delivery, sent, work, faults>>

ReconcileRead ==
  /\ op.at = "provider_succeeded"
  /\ op' = [at |-> "reconciling", result |-> op.result, seen |-> sub]
  /\ UNCHANGED <<contract, delivery, sent, work, faults>>

ReconcileWrite ==
  /\ op.at = "reconciling"
  /\ LET r == op.result
         now == r.status = "cancelled" /\ ~r.atEnd IN
     /\ sub' = [sub EXCEPT !.status = r.status, !.atEnd = r.atEnd,
                           !.start = Or(r.start, op.seen.start),
                           !.end = Or(r.end, op.seen.end)]
     /\ grants' = IF now THEN EndEntitlements("revoked") ELSE grants
     /\ IF now THEN revokeSubscriptionCredits ELSE UNCHANGED buckets
     /\ ended' = (now \/ ended)
     /\ kept' = IF now THEN held ELSE kept
     /\ op' = [at |-> "completed", result |-> r]
  /\ UNCHANGED <<held, bare, delivery, sent, work, faults>>

(* The transaction fails or the process dies: the operation can be         *)
(* reconciled again with the answer it has.                                *)
ReconcileFails ==
  /\ op.at = "reconciling" /\ faults < MaxFaults
  /\ op' = [at |-> "provider_succeeded", result |-> op.result]
  /\ faults' = faults + 1
  /\ UNCHANGED <<contract, delivery, sent, work>>

-------------------------------------------------------------------------------
(* What the host does with the credits: a reservation of a credit, and its *)
(* settlement.  A direct debit is one that is captured at once.  Whole     *)
(* accounts and expiry by the clock are the part of CreditLedger.          *)

Holds(n) ==
  /\ held' = n
  /\ UNCHANGED <<sub, grants, bare, ended, kept, delivery, sent, work, op, faults>>

reserveCredits ==
  Available > 0 /\ held < MaxHeld /\ Holds(held + 1) /\ UNCHANGED buckets
releaseReservation ==
  held > 0 /\ Holds(held - 1) /\ UNCHANGED buckets
captureReservation ==
  /\ held > 0 /\ Holds(held - 1)
  /\ \E S \in FirstToExpire(1) : Drain(S, "consumed")

Host == reserveCredits \/ releaseReservation \/ captureReservation

Next ==
  \/ \E w \in Workers, e \in Events : \E x \in Notices[e] :
       \E body \in Bodies(x) : Receive(w, e, x, body)
  \/ \E w \in Workers :
       Begin(w) \/ Commit(w) \/ Reject(w) \/ Abort(w) \/ MarkFailed(w) \/ Crash(w)
  \/ OpenCancellation \/ AnswerCancellation
  \/ ReconcileRead \/ ReconcileWrite \/ ReconcileFails
  \/ Host

Spec == Init /\ [][Next]_vars

(* A provider sends an event again, now complete, as long as it is not     *)
(* acknowledged; a request that has begun goes on.                         *)
Redeliver(e) ==
  /\ sent[e] # NoEvent /\ inbox[e] # "processed"
  /\ \E w \in Workers : Receive(w, e, sent[e], sent[e])
Fairness ==
  /\ \A e \in Events : SF_vars(Redeliver(e))
  /\ \A w \in Workers : WF_vars(Begin(w) \/ Commit(w) \/ Reject(w) \/ MarkFailed(w))
FairSpec == Spec /\ Fairness

-------------------------------------------------------------------------------
(* Once a subscription has been ended at once, by an event or by the       *)
(* journal, and until an event grants access again, no feature of any of   *)
(* its cycles is left, however the grant was keyed, and of the credits no  *)
(* more than open reservations held at the end: these may still be         *)
(* captured, or come back to the customer when they are released, and no   *)
(* other credit may be used any more.                                      *)
EndedLeavesOnlyHeld ==
  ended => /\ \A k \in Keys : grants[k].status # "active"
           /\ Cardinality(Active) <= kept

(* A renewal that has been processed, of a subscription that has items,    *)
(* has granted the credits of its own cycle, with the end of that cycle:   *)
(* it never falls on the key of a cycle before it, and never leaves        *)
(* credits that do not expire.                                             *)
RenewalDelivers ==
  \A e \in Events :
    inbox[e] = "processed" /\ notice[e].type = "subscription.renewed"
      /\ Stated(notice[e], "active") = "active" /\ e \notin bare
    => LET b == buckets[IF notice[e].start = NoTime THEN e ELSE notice[e].start] IN
       /\ b.status # "none"
       /\ b.expires = notice[e].end /\ b.expires # NoTime
       /\ notice[e].start = NoTime => b.event = e

(* An event that was refused for what its first delivery left out, or was  *)
(* rolled back, is processed once the provider has sent it complete.       *)
DeliveryHeals ==
  \A e \in Events :
    <>(sent[e] # NoEvent) => <>(inbox[e] = "processed")

(* Each renewal grants its credits once, however often and in whatever     *)
(* form it is delivered.                                                   *)
RenewalGrantsOnce ==
  \A e \in Events :
    Cardinality({k \in Keys : buckets[k].event = e}) <= 1
===============================================================================
