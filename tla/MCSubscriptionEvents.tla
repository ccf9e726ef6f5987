-------------------------- MODULE MCSubscriptionEvents --------------------------
(* SubscriptionEvents, ProviderEvents and Cancellations for TLC.  An        *)
(* execution is of one of them, and the other variables stay as they were:  *)
(*   events         any notices at all, with the journal's settlement, of a *)
(*                  host that holds no credits                              *)
(*   credits        the same of one request at a time, while the host       *)
(*                  reserves and settles the credits                        *)
(*   cycles         only those a provider sends of a subscription that      *)
(*                  lives through its cycles                                *)
(*   cancellations  who cancels, in the portal and in the console           *)
EXTENDS ProviderEvents, TLC

CONSTANTS
  Components,                  \* those a run is about
  Sessions, Owners,            \* portal sessions, and the customer's own
  MaxAttempts                  \* of a cancellation

VARIABLES component, session, subject, operation, request, audit, executed

cancelVars == <<session, subject, operation, request, audit, executed>>

Event(type, start, end) ==
  [type |-> type, status |-> "absent", start |-> start, end |-> end,
   atEnd |-> "absent", order |-> TRUE, customer |-> TRUE]

\* A first cycle, the renewal of the next, a cancellation at once
\* and at the end, and an update that names no customer.
MCNotices == [e \in Events |->
  {Event("subscription.activated", 1, 2),
   Event("subscription.renewed", 2, 3),
   Event("subscription.cancelled", NoTime, NoTime),
   [Event("subscription.cancelled", NoTime, NoTime) EXCEPT !.atEnd = "yes"],
   [Event("subscription.updated", NoTime, NoTime) EXCEPT !.order = FALSE, !.customer = FALSE]}]
MCAnswers == {[status |-> "cancelled", start |-> NoTime, end |-> NoTime, atEnd |-> FALSE],
              [status |-> "active", start |-> 1, end |-> 2, atEnd |-> TRUE]}
Perms == Permutations(Workers) \cup Permutations(Events)

\* Waffo cancels at the end of the period, the others may do so at once.
Cancelling == INSTANCE Cancellations WITH
  Requests <- Workers, Operator <- "operator", NoResult <- NoEvent,
  Results <- {[status |-> a.status, atEnd |-> a.atEnd] : a \in CancelAnswers},
  sub <- subject

ASSUME ComponentsAssumption == Components \subseteq {"events", "credits", "cycles", "cancellations"}
ASSUME CancellingAssumption == Cancelling!CancellationAssumption

NoPlan == [status |-> "none", cycle |-> 0, paid |-> {}]
AnyNotices ==
  /\ provider = NotTold /\ plan = NoPlan
  /\ told = [e \in Events |-> NotTold]

MCInit ==
  /\ component \in Components
  /\ IF component = "cycles" THEN CycleInit ELSE Init /\ AnyNotices
  /\ Cancelling!Init

OneAtATime == \A v, w \in Workers : work[v] # Idle /\ work[w] # Idle => v = w

MCNext ==
  /\ component' = component
  /\ \/ component = "cycles" /\ CycleNext /\ UNCHANGED <<faults, cancelVars>>
     \/ component = "events" /\ UNCHANGED <<held, external, cancelVars>> /\ Next
     \/ /\ component = "credits" /\ Next
        /\ OneAtATime'
        /\ UNCHANGED <<external, cancelVars>>
     \/ component = "cancellations" /\ Cancelling!Next /\ UNCHANGED cycleVars
MCSpec == MCInit /\ [][MCNext]_<<component, cycleVars, cancelVars>>

(* Every row, every request and what the provider has told are well formed. *)
SubscriptionTypeOK ==
  CASE component \in {"events", "credits"} -> TypeOK
    [] component = "cycles" -> TypeOK /\ CycleTypeOK
    [] component = "cancellations" -> Cancelling!TypeOK

(* What a subscriber gets is what the provider collected: no access before *)
(* a payment, and a paid cycle whose dates were told delivers its credits. *)
CyclesMatchPayments ==
  component = "cycles" => AccessFollowsPayment /\ StatedCycleDelivers

(* A cancellation that was completed is in the audit log, whoever asked for *)
(* it and wherever the process died, no customer cancels another's, and the *)
(* provider cancels once.                                                  *)
CancelledIsAudited == component = "cancellations" => Cancelling!CancelledIsAudited
===============================================================================
