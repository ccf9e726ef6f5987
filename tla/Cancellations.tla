------------------------------ MODULE Cancellations ------------------------------
(***************************************************************************)
(* One subscription and those who may cancel it: its customer in the hosted *)
(* portal, whose page may be old and whose session may have ended, somebody *)
(* else's portal session, and operators, who also retry and reconcile.  All *)
(* of it goes through the journal; webhooks change the subscription         *)
(* meanwhile and the process may die anywhere.                             *)
(*                                                                         *)
(*   session    portal_sessions, and the page each one's browser shows     *)
(*   sub        subscriptions.status, cancel_at_period_end, and whether    *)
(*              its access and credits are still there                     *)
(*   operation  billing_operations: the attempts, cancel:<id> and the      *)
(*              retry:<attempt n - 1> after it                             *)
(*   request    the requests being handled                                 *)
(*   audit      the cancellations in audit_entries: which attempt, by whom *)
(*   executed   how often the provider cancelled                           *)
(***************************************************************************)
EXTENDS Naturals

CONSTANTS
  Sessions, Owners,   \* portal sessions, and those of the subscription's customer
  Requests,
  Operator,
  MaxAttempts,
  Results,            \* what an adapter's cancelSubscription returns
  NoResult

CancellationAssumption ==
  /\ Owners \subseteq Sessions /\ Operator \notin Sessions
  /\ MaxAttempts \in Nat \ {0}
  /\ Results \subseteq [status : {"active", "cancelled"}, atEnd : BOOLEAN]
  /\ \A r \in Results : r.status = "cancelled" => ~r.atEnd
  /\ NoResult \notin Results

VARIABLES session, sub, operation, request, audit, executed

vars == <<session, sub, operation, request, audit, executed>>

Attempts == 1 .. MaxAttempts
None == [at |-> "none"]
NoOperation == [status |-> "none", failure |-> "none", result |-> NoResult]

TypeOK ==
  /\ session \in [Sessions ->
       [status : {"none", "active", "ended"},
        page : {"plain", "offered", "confirming", "busy", "done"}]]
  /\ sub \in [status : {"active", "cancelled"},
              atEnd : BOOLEAN, access : BOOLEAN]
  /\ operation \in [Attempts ->
       [status : {"none", "pending_provider", "provider_succeeded", "failed",
                  "needs_reconciliation", "completed"},
        failure : {"none", "rejected", "outcome_uncertain"},
        result : Results \cup {NoResult}]]
  /\ \A n \in Attempts :
       operation[n].status = "failed" <=> operation[n].failure # "none"
  /\ request \in [Requests -> {None} \cup
       [at : {"asked", "allowed", "eligible", "ineligible", "call", "answered",
              "rejected", "outcome_uncertain", "reconcile", "settle", "stuck",
              "ok", "refused"},
        by : Sessions \cup {Operator}, paged : BOOLEAN, attempt : Attempts,
        result : Results \cup {NoResult}]]
  /\ audit \subseteq [attempt : Attempts, by : Sessions \cup {Operator}]
  /\ executed \in Nat

Init ==
  /\ session = [s \in Sessions |-> [status |-> "none", page |-> "plain"]]
  /\ sub = [status |-> "active", atEnd |-> FALSE, access |-> TRUE]
  /\ operation = [n \in Attempts |-> NoOperation]
  /\ request = [r \in Requests |-> None]
  /\ audit = {}
  /\ executed = 0

-------------------------------------------------------------------------------
(* The portal.                                                             *)

Ours(s) == s \in Owners
\* A token resolves while its session is neither revoked nor expired.
resolvePortalSession(s) == session[s].status = "active"

Shows(s, page) == session' = [session EXCEPT ![s].page = page]

createPortalSession(s) ==
  /\ session[s].status = "none"
  /\ session' = [session EXCEPT ![s].status = "active"]
  /\ UNCHANGED <<sub, operation, request, audit, executed>>

\* By the application, or by the clock after half an hour.
revokePortalSession(s) ==
  /\ session[s].status = "active"
  /\ session' = [session EXCEPT ![s].status = "ended"]
  /\ UNCHANGED <<sub, operation, request, audit, executed>>

\* Whether the connection is still active, for anyone who asks: more than can
\* happen, as a revoked connection stays revoked.
Connected == BOOLEAN

canCancel(s, connected) ==
  /\ Ours(s) /\ connected
  /\ sub.status \in {"active", "past_due"} /\ ~sub.atEnd

getPortalBillingState(s) ==
  /\ session[s].status # "none" /\ session[s].page # "busy"
  /\ \E connected \in Connected :
       Shows(s, IF resolvePortalSession(s) /\ canCancel(s, connected)
                THEN "offered" ELSE "plain")
  /\ UNCHANGED <<sub, operation, request, audit, executed>>

SetConfirming(s) ==
  /\ \/ session[s].page = "offered" /\ Shows(s, "confirming")
     \/ session[s].page = "confirming" /\ Shows(s, "offered")
  /\ UNCHANGED <<sub, operation, request, audit, executed>>

\* The redirect to the provider's own pages, which has an audit entry too.
createPortalPaymentManagementRedirect(s) ==
  /\ resolvePortalSession(s)
  /\ session[s].page \in {"plain", "offered", "confirming"} /\ Shows(s, "plain")
  /\ UNCHANGED <<sub, operation, request, audit, executed>>

-------------------------------------------------------------------------------
(* The requests, one step from one wait to the next.                       *)

At(r, at) == request[r].at = at
Goes(r, at) == request' = [request EXCEPT ![r].at = at]
Arrives(r, at, by, paged, n) ==
  /\ At(r, "none")
  /\ request' = [request EXCEPT ![r] =
       [at |-> at, by |-> by, paged |-> paged, attempt |-> n, result |-> NoResult]]

\* From the page, or from whoever has the token and the subscription's id.
PostCancel(r, s, paged) ==
  /\ Arrives(r, "asked", s, paged, 1)
  /\ session[s].status # "none"
  /\ IF paged THEN session[s].page = "confirming" /\ Shows(s, "busy")
              ELSE session' = session
  /\ UNCHANGED <<sub, operation, audit, executed>>

ConfirmAction(r) ==
  /\ Arrives(r, "allowed", Operator, FALSE, 1)
  /\ UNCHANGED <<session, sub, operation, audit, executed>>

cancelSubscriptionFromPortal(r) ==
  /\ At(r, "asked")
  /\ \E connected \in Connected :
       Goes(r, IF resolvePortalSession(request[r].by) /\ Ours(request[r].by) /\ connected
               THEN "allowed" ELSE "refused")
  /\ UNCHANGED <<session, sub, operation, audit, executed>>

getCancellationEligibility(connected) ==
  sub.status \notin {"cancelled", "expired"} /\ connected

getSubscriptionDetail(r) ==
  /\ At(r, "allowed")
  /\ \E connected \in Connected :
       Goes(r, IF getCancellationEligibility(connected) THEN "eligible" ELSE "ineligible")
  /\ UNCHANGED <<session, sub, operation, audit, executed>>

Reconcilable(n) == operation[n].status \in {"provider_succeeded", "needs_reconciliation"}

retryBillingOperation(r, n) ==
  /\ n < MaxAttempts
  /\ operation[n].status = "failed" /\ operation[n].failure = "rejected"
  /\ getCancellationEligibility(TRUE)
  /\ Arrives(r, "eligible", Operator, FALSE, n + 1)
  /\ UNCHANGED <<session, sub, operation, audit, executed>>

\* Offered on the subscription's page for these attempts only.
ReconcileAction(r, n) ==
  /\ Reconcilable(n)
  /\ Arrives(r, "reconcile", Operator, FALSE, n)
  /\ UNCHANGED <<session, sub, operation, audit, executed>>

LooksUp(r) == request[r].at \in {"eligible", "ineligible"}

\* The row of the key, or a new one if the subscription was eligible.
createOrGetOperation(r) ==
  LET n == request[r].attempt IN
  /\ LooksUp(r) /\ operation[n].status = "none"
  /\ \/ /\ At(r, "eligible")
        /\ operation' = [operation EXCEPT ![n].status = "pending_provider"]
        /\ Goes(r, "call")
     \/ At(r, "ineligible") /\ operation' = operation /\ Goes(r, "refused")
  /\ UNCHANGED <<session, sub, audit, executed>>

resumeExistingOperation(r) ==
  LET n == request[r].attempt IN
  /\ LooksUp(r) /\ operation[n].status # "none"
  /\ Goes(r, IF operation[n].status = "completed" THEN "ok"
             ELSE IF Reconcilable(n) THEN "reconcile" ELSE "refused")
  /\ UNCHANGED <<session, sub, operation, audit, executed>>

\* External: the provider cancels, and the answer may be lost on the way; or
\* it does not cancel.
ProviderCancels(r) ==
  /\ At(r, "call")
  /\ executed' = executed + 1
  /\ \/ \E result \in Results :
          request' = [request EXCEPT ![r].at = "answered", ![r].result = result]
     \/ Goes(r, "outcome_uncertain")
  /\ UNCHANGED <<session, sub, operation, audit>>

ProviderRefuses(r) ==
  /\ At(r, "call")
  /\ Goes(r, "rejected") \/ Goes(r, "outcome_uncertain")
  /\ UNCHANGED <<session, sub, operation, audit, executed>>

RecordAnswer(r) ==
  LET n == request[r].attempt IN
  /\ At(r, "answered")
  /\ operation' = [operation EXCEPT ![n] =
       [status |-> "provider_succeeded", failure |-> "none", result |-> request[r].result]]
  /\ request' = [request EXCEPT ![r].at = "reconcile", ![r].result = NoResult]
  /\ UNCHANGED <<session, sub, audit, executed>>

recordProviderFailure(r) ==
  LET n == request[r].attempt IN
  /\ request[r].at \in {"rejected", "outcome_uncertain"}
  /\ operation' = [operation EXCEPT ![n].status = "failed", ![n].failure = request[r].at]
  /\ Goes(r, "refused")
  /\ UNCHANGED <<session, sub, audit, executed>>

-------------------------------------------------------------------------------
(* The reconciliation.                                                     *)

reconcileBillingOperation(r) ==
  LET n == request[r].attempt IN
  /\ At(r, "reconcile")
  /\ Goes(r, IF operation[n].status = "completed" THEN "ok"
             ELSE IF Reconcilable(n) THEN "settle" ELSE "refused")
  /\ UNCHANGED <<session, sub, operation, audit, executed>>

Mut_AuditAfterwards(r) ==
  audit' \in {audit, audit \cup {[attempt |-> request[r].attempt, by |-> request[r].by]}}
recordOperationCompletionAudit(r) ==
  audit' = audit \cup {[attempt |-> request[r].attempt, by |-> request[r].by]}

\* One transaction.
Settle(r) ==
  LET n == request[r].attempt
      result == operation[n].result IN
  /\ At(r, "settle")
  /\ sub' = [status |-> result.status, atEnd |-> result.atEnd,
             access |-> sub.access /\ (result.status # "cancelled" \/ result.atEnd)]
  /\ operation' = [operation EXCEPT ![n].status = "completed"]
  /\ recordOperationCompletionAudit(r)
  /\ Goes(r, "ok")
  /\ UNCHANGED <<session, executed>>

SettleAborts(r) ==
  /\ At(r, "settle")
  /\ Goes(r, "stuck")
  /\ UNCHANGED <<session, sub, operation, audit, executed>>

\* Whatever the row says by now; even this may fail.
markNeedsReconciliation(r) ==
  LET n == request[r].attempt IN
  /\ At(r, "stuck")
  /\ operation' \in {operation,
       [operation EXCEPT ![n].status = "needs_reconciliation"]}
  /\ Goes(r, "refused")
  /\ UNCHANGED <<session, sub, audit, executed>>

\* The answer reaches the page, as an error if it is one or is lost.
Leaves(r, page) ==
  /\ request' = [request EXCEPT ![r] = None]
  /\ IF request[r].paged THEN Shows(request[r].by, page) ELSE session' = session
  /\ UNCHANGED <<sub, operation, audit, executed>>

Answered(r) == At(r, "ok") /\ Leaves(r, "done")
Failed(r) == ~At(r, "none") /\ Leaves(r, "confirming")

-------------------------------------------------------------------------------
(* Around them.                                                            *)

\* A webhook of the subscription's provider, SubscriptionEvents.
Webhook(status, atEnd) ==
  /\ sub' = [status |-> status, atEnd |-> atEnd,
             access |-> sub.access /\ status \notin {"cancelled", "expired"}]
  /\ UNCHANGED <<session, operation, request, audit, executed>>

Portal(s) ==
  \/ createPortalSession(s) \/ revokePortalSession(s)
  \/ getPortalBillingState(s) \/ SetConfirming(s)
  \/ createPortalPaymentManagementRedirect(s)

Handle(r) ==
  \/ cancelSubscriptionFromPortal(r) \/ getSubscriptionDetail(r)
  \/ createOrGetOperation(r) \/ resumeExistingOperation(r)
  \/ ProviderCancels(r) \/ ProviderRefuses(r)
  \/ RecordAnswer(r) \/ recordProviderFailure(r)
  \/ reconcileBillingOperation(r) \/ Settle(r) \/ SettleAborts(r)
  \/ markNeedsReconciliation(r)
  \/ Answered(r) \/ Failed(r)

Next ==
  \/ \E s \in Sessions : Portal(s)
  \/ Webhook("cancelled", FALSE) \/ Webhook("active", TRUE)
  \/ \E r \in Requests :
       \/ \E s \in Sessions, paged \in BOOLEAN : PostCancel(r, s, paged)
       \/ ConfirmAction(r)
       \/ \E n \in Attempts : retryBillingOperation(r, n) \/ ReconcileAction(r, n)
       \/ Handle(r)

Spec == Init /\ [][Next]_vars

-------------------------------------------------------------------------------
(* Every cancellation that was completed is in the audit log, whoever asked *)
(* for it and wherever the process died, and so is the one a customer is    *)
(* told of; no session but the customer's own is ever in it as having       *)
(* cancelled; and the provider cancels once, in an attempt the journal has  *)
(* not closed as rejected.  A completed cancellation of now leaves no access.   *)
CancelledIsAudited ==
  /\ \A n \in Attempts : operation[n].status = "completed" =>
       \E a \in audit : a.attempt = n
  /\ \A s \in Sessions : session[s].page = "done" => audit # {}
  /\ \A a \in audit : a.by \in Owners \cup {Operator}
  /\ executed <= 1
  /\ executed = 1 => \E n \in Attempts :
       operation[n].status # "none" /\ operation[n].failure # "rejected"
  /\ \A n \in Attempts :
       operation[n].status = "completed" /\ operation[n].result.status = "cancelled"
       => ~sub.access
===============================================================================
