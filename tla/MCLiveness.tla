------------------------------- MODULE MCLiveness -------------------------------
(* What must happen in the end, for TLC: through the redeliveries of a       *)
(* provider, or through the sweeps of the cron.  The four families share no  *)
(* row, so an execution is one of a family; the others stay in their initial *)
(* state, in which nothing of them is due:                                   *)
(*   payments       PaymentEvents, the events of one order                   *)
(*   subscription   SubscriptionEvents, the events of one subscription       *)
(*   credits        CreditLedger, and the sweep that expires credits         *)
(*   webhooks       DeveloperDeliveries, and the sweep that retries          *)
EXTENDS MCPaymentEvents

CONSTANTS First, Second, Last   \* events of the subscription

VARIABLES family,
  sub, grants, periods, subHeld, subInbox, subNotice, sent, subWork, op, bare, ended,
  kept, subFaults,
  now, available, reserved, remaining, status, expiresAt, source, held, resStatus,
  ledger, reversals, sweep, discovered,
  tests, endpoint, row, born, ripe, publishing, sending, flight, heard, claims, manual,
  sendFaults

subscription == <<sub, grants, periods, subHeld, subInbox, subNotice, sent, subWork,
                  op, bare, ended, kept, subFaults>>
credits == <<now, available, reserved, remaining, status, expiresAt, source, held,
             resStatus, ledger, reversals, sweep, discovered>>
webhooks == <<tests, endpoint, row, born, ripe, publishing, sending, flight, heard,
              claims, manual, sendFaults>>

Told(type, start, end) ==
  [type |-> type, status |-> "absent", start |-> start, end |-> end,
   atEnd |-> "absent", order |-> TRUE, customer |-> TRUE]

\* A first cycle, its renewal and an end, each an event of its own: two
\* events that tell the same cycle with different dates never agree.
Story == (First  :> {Told("subscription.activated", 1, 2)})
      @@ (Second :> {Told("subscription.renewed", 2, 3)})
      @@ (Last   :> {Told("subscription.cancelled", 0, 0),
                     Told("subscription.expired", 0, 0)})
Inbound == INSTANCE SubscriptionEvents WITH
  Events <- {First, Second, Last}, MaxTime <- 3, Notices <- Story,
  CancelAnswers <- {}, MaxFaults <- 1, MaxHeld <- 0, buckets <- periods, held <- subHeld,
  inbox <- subInbox, notice <- subNotice, work <- subWork, faults <- subFaults

Credits == INSTANCE CreditLedger WITH
  Keys <- {"k1", "k2"}, Buckets <- {1, 2}, Sweepers <- {"sweeper"},
  Clawbacks <- {"clawback"}, MaxTime <- 1, NoEntry <- NoEvent

Webhooks == INSTANCE DeveloperDeliveries WITH
  Endpoints <- {"endpoint"}, Events <- {"event"}, Types <- {"type"},
  TypeOf <- "event" :> "type", Subscriptions <- {{}},
  Publishers <- {"publisher"}, Sweepers <- {"sweeper"}, Operators <- {"operator"},
  MaxAttempts <- 2, BatchSize <- 1, MaxManual <- 0, MaxFaults <- 2,
  sweep <- sending, faults <- sendFaults

MCInit ==
  /\ family \in {"payments", "subscription", "credits", "webhooks"}
  /\ Init /\ Inbound!Init /\ Credits!Init /\ Webhooks!Init
  /\ tests = {}

\* Event ids are interchangeable, and so are payments: the first event to come
\* is always the same one, of the same payment.
FirstEvent == CHOOSE e \in Events : TRUE
FirstPayment == CHOOSE p \in Payments : TRUE
Numbered ==
  (\E e \in Events : inbox[e] # "none") =>
    inbox[FirstEvent] # "none" /\ notice[FirstEvent].payment = FirstPayment

MCNext ==
  /\ family' = family
  /\ \/ /\ family = "payments" /\ Next /\ Numbered'
        /\ UNCHANGED <<subscription, credits, webhooks>>
     \/ family = "subscription" /\ Inbound!Next /\ UNCHANGED <<vars, credits, webhooks>>
     \/ family = "credits" /\ Credits!Next /\ UNCHANGED <<vars, subscription, webhooks>>
     \/ family = "webhooks" /\ Webhooks!Next /\ UNCHANGED <<vars, subscription, credits>>

MCFairSpec ==
  /\ MCInit /\ [][MCNext]_<<family, vars, subscription, credits, webhooks>>
  /\ DeliveryFairness /\ Inbound!Fairness
  /\ Credits!SweepFairness /\ Webhooks!SweepFairness

(* A subscription event that was refused for what its first delivery left  *)
(* out, or was rolled back, is processed once the provider sends it whole. *)
DeliveryHeals == Inbound!DeliveryHeals

(* A bucket that has expired is retired, or nothing of it is available.     *)
DueBucketsExpire == Credits!DueBucketsExpire

(* A delivery that is pending is settled in the end, whatever has died:    *)
(* before its first attempt, in one, or in the sweep that took it over.    *)
PendingSettles == Webhooks!PendingSettles
===============================================================================
