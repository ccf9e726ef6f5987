----------------------------- MODULE RefundJournal -----------------------------
(***************************************************************************)
(* Refunds through the billing-operation journal, beside the webhooks that *)
(* report them.                                                            *)
(*                                                                         *)
(* A clerk is one request of an operator, a customer's portal or a job.    *)
(* It writes a journal row, asks the provider, records the answer, and     *)
(* settles it: the refund row, the payment, the order and the access in    *)
(* one transaction that takes the payment's advisory lock.  Each of these  *)
(* is a commit of its own, webhooks and other clerks come in between, and  *)
(* the process may die anywhere.                                           *)
(*                                                                         *)
(*   op[p][n]  billing_operations: the n-th attempt to refund payment p,   *)
(*             under the key refund:<p>:full or retry:<attempt n - 1>      *)
(*   clerk     what each clerk is doing, for which payment and attempt,    *)
(*             and what the provider answered                              *)
(***************************************************************************)
EXTENDS PaymentEvents

CONSTANTS
  Clerks,        \* journal requests handled at the same time
  MaxAttempts,   \* attempts per payment
  Replies,       \* what the adapter's refundPayment answers
  NoAnswer

\* An answer names the provider's refund and its amount, or neither (Creem
\* answers a status only, and the adapter makes up an id).
ASSUME JournalAssumption ==
  /\ MaxAttempts \in Nat \ {0}
  /\ Replies \subseteq [named : BOOLEAN, status : {"pending", "succeeded", "failed"}]

VARIABLES op, clerk

journal == <<op, clerk>>
journalVars == <<vars, journal>>

Attempts == 1 .. MaxAttempts

\* NormalizedRefund, billing_operations.normalized_result.
Answer == [refund : Refunds \cup {Synthetic},
           status : {"pending", "succeeded", "failed"},
           amount : Amounts \cup {NoAmount}]

ASSUME NoAnswerAssumption == NoAnswer \notin Answer

Operation ==
  [status : {"none", "pending_provider", "provider_succeeded", "failed",
             "needs_reconciliation", "completed"},
   failure : {"none", "rejected", "outcome_uncertain"},
   result : Answer \cup {NoAnswer}]
NoOperation == [status |-> "none", failure |-> "none", result |-> NoAnswer]

Reconcilable(p, n) == op[p][n].status \in {"provider_succeeded", "needs_reconciliation"}

JournalTypeOK ==
  /\ TypeOK
  /\ op \in [Payments -> [Attempts -> Operation]]
  /\ \A p \in Payments, n \in Attempts :
       /\ op[p][n].status = "failed" <=> op[p][n].failure # "none"
       /\ Reconcilable(p, n) \/ op[p][n].status = "completed"
            <=> op[p][n].result # NoAnswer
  /\ clerk \in [Clerks -> {Idle} \cup
       [at : {"create", "call", "answered", "rejected", "outcome_uncertain",
              "reconcile", "settle", "stuck"},
        payment : Payments, attempt : Attempts, answer : Answer \cup {NoAnswer}]]

-------------------------------------------------------------------------------

At(c, at, p, n) ==
  clerk[c] # Idle /\ clerk[c].at = at /\ clerk[c].payment = p /\ clerk[c].attempt = n
Move(c, at, p, n, answer) ==
  clerk' = [clerk EXCEPT ![c] = [at |-> at, payment |-> p, attempt |-> n, answer |-> answer]]
Leave(c) == clerk' = [clerk EXCEPT ![c] = Idle]
Write(p, n, row) == op' = [op EXCEPT ![p][n] = row]

\* getRefundEligibility: a standing payment of an order, with no refund on
\* record that did not fail.
Eligible(p) ==
  /\ pay[p] = "succeeded"
  /\ bound[p]
  /\ \A k \in FactIds : fact[p][k].status \in {"none", "failed"}

\* refundPaymentWithJournal up to the insert: no journal row, and eligible.
StartRefund(c, p) ==
  /\ clerk[c] = Idle
  /\ op[p][1].status = "none"
  /\ Eligible(p)
  /\ Move(c, "create", p, 1, NoAnswer)
  /\ UNCHANGED <<vars, op>>

\* retryBillingOperation up to the insert: only what the provider refused.
StartRetry(c, p, n) ==
  /\ clerk[c] = Idle
  /\ n < MaxAttempts
  /\ op[p][n].status = "failed" /\ op[p][n].failure = "rejected"
  /\ Eligible(p)
  /\ Move(c, "create", p, n + 1, NoAnswer)
  /\ UNCHANGED <<vars, op>>

\* resumeExistingOperation and reconcileBillingOperation, up to the
\* transaction: the status is read here and not again.
Resume(c, p, n) ==
  /\ clerk[c] = Idle
  /\ Reconcilable(p, n)
  /\ Move(c, "settle", p, n, NoAnswer)
  /\ UNCHANGED <<vars, op>>

Mut_InsertAgain(c, p, n) ==
  /\ At(c, "create", p, n)
  /\ Write(p, n, [NoOperation EXCEPT !.status = "pending_provider"])
  /\ Move(c, "call", p, n, NoAnswer)
  /\ UNCHANGED vars
\* createOrGetOperation: the key is unique, so of two clerks that got here
\* one inserts and asks the provider; the other resumes or gives up.
Create(c, p, n) ==
  /\ At(c, "create", p, n)
  /\ IF op[p][n].status = "none"
     THEN /\ Write(p, n, [NoOperation EXCEPT !.status = "pending_provider"])
          /\ Move(c, "call", p, n, NoAnswer)
     ELSE UNCHANGED op /\ Move(c, "reconcile", p, n, NoAnswer)
  /\ UNCHANGED vars

\* The provider: it refunds all of the payment, unless some of it is paid
\* back already; the answer may be lost; it may answer that the refund
\* failed, or refuse.
Accept(c, p, n) ==
  /\ At(c, "call", p, n)
  /\ PaidBack(p) = 0
  /\ \E r \in Refunds :
       /\ made' = [made EXCEPT ![p][r] = paid[p]]
       /\ \/ Move(c, "outcome_uncertain", p, n, NoAnswer)
          \/ \E reply \in Replies :
               /\ reply.status # "failed"
               /\ Move(c, "answered", p, n,
                       [refund |-> IF reply.named THEN r ELSE Synthetic,
                        status |-> reply.status,
                        amount |-> IF reply.named THEN paid[p] ELSE NoAmount])
  /\ UNCHANGED <<commerce, inbox, notice, work, published, faults, op>>

Refuse(c, p, n) ==
  /\ At(c, "call", p, n)
  /\ \/ \E at \in {"rejected", "outcome_uncertain"} : Move(c, at, p, n, NoAnswer)
     \/ \E reply \in Replies, r \in Refunds :
          /\ reply.status = "failed" /\ made[p][r] = 0
          /\ Move(c, "answered", p, n,
                  [refund |-> IF reply.named THEN r ELSE Synthetic, status |-> "failed",
                   amount |-> IF reply.named THEN paid[p] ELSE NoAmount])
  /\ UNCHANGED <<vars, op>>

RecordAnswer(c, p, n) ==
  /\ At(c, "answered", p, n)
  /\ Write(p, n, [status |-> "provider_succeeded", failure |-> "none",
                  result |-> clerk[c].answer])
  /\ Move(c, "reconcile", p, n, NoAnswer)
  /\ UNCHANGED vars

Mut_FailureUntold(c, p, n) ==
  /\ \E kind \in {"rejected", "outcome_uncertain"} : At(c, kind, p, n)
  /\ Write(p, n, [op[p][n] EXCEPT !.status = "failed"])
  /\ Leave(c)
  /\ UNCHANGED vars
RecordFailure(c, p, n) ==
  /\ \E kind \in {"rejected", "outcome_uncertain"} :
       /\ At(c, kind, p, n)
       /\ Write(p, n, [status |-> "failed", failure |-> kind, result |-> op[p][n].result])
  /\ Leave(c)
  /\ UNCHANGED vars

\* reconcileBillingOperation reads the row: done, or not to be reconciled,
\* or on to the transaction.
Reread(c, p, n) ==
  /\ At(c, "reconcile", p, n)
  /\ IF Reconcilable(p, n) THEN Move(c, "settle", p, n, NoAnswer) ELSE Leave(c)
  /\ UNCHANGED <<vars, op>>

\* The transaction: the refund row is inserted or overwritten, and a refund
\* that succeeded closes the payment.
Settle(c, p, n) ==
  LET result == op[p][n].result
      closes == result.status = "succeeded" IN
  /\ At(c, "settle", p, n)
  /\ fact' = [fact EXCEPT ![p][result.refund] =
                [status |-> result.status, amount |-> result.amount]]
  /\ pay' = IF closes THEN [pay EXCEPT ![p] = "refunded"] ELSE pay
  /\ order' = IF closes /\ bound[p] /\ order \in {"pending", "paid", "refunded"}
              THEN "refunded" ELSE order
  /\ access' = IF closes /\ bound[p] /\ access = "active" THEN "revoked" ELSE access
  /\ Write(p, n, [op[p][n] EXCEPT !.status = "completed"])
  /\ Leave(c)
  /\ UNCHANGED <<paid, bound, grantedBy, inbox, notice, work, published, made, faults>>

SettleAborts(c, p, n) ==
  /\ At(c, "settle", p, n)
  /\ faults < MaxFaults
  /\ faults' = faults + 1
  /\ Move(c, "stuck", p, n, NoAnswer)
  /\ UNCHANGED <<commerce, inbox, notice, work, published, made, op>>

\* markNeedsReconciliation, whatever the row says by now.
MarkStuck(c, p, n) ==
  /\ At(c, "stuck", p, n)
  /\ Write(p, n, [op[p][n] EXCEPT !.status = "needs_reconciliation"])
  /\ Leave(c)
  /\ UNCHANGED vars

ClerkCrash(c) ==
  /\ clerk[c] # Idle
  /\ faults < MaxFaults
  /\ faults' = faults + 1
  /\ Leave(c)
  /\ UNCHANGED <<commerce, inbox, notice, work, published, made, op>>

JournalInit ==
  /\ Init
  /\ op = [p \in Payments |-> [n \in Attempts |-> NoOperation]]
  /\ clerk = [c \in Clerks |-> Idle]

Ask(c, p, n) == Create(c, p, n) \/ Accept(c, p, n) \/ Refuse(c, p, n)
Record(c, p, n) == RecordAnswer(c, p, n) \/ RecordFailure(c, p, n)
Reconcile(c, p, n) ==
  \/ Reread(c, p, n) \/ Settle(c, p, n) \/ SettleAborts(c, p, n) \/ MarkStuck(c, p, n)

ClerkStep ==
  \E c \in Clerks :
    \/ ClerkCrash(c)
    \/ \E p \in Payments :
         \/ StartRefund(c, p)
         \/ \E n \in Attempts :
              \/ StartRetry(c, p, n) \/ Resume(c, p, n)
              \/ Ask(c, p, n) \/ Record(c, p, n) \/ Reconcile(c, p, n)

WebhookStep == Next /\ UNCHANGED journal

JournalNext == WebhookStep \/ ClerkStep

JournalSpec == JournalInit /\ [][JournalNext]_journalVars

-------------------------------------------------------------------------------

\* Clerk c may have asked for a refund of p, and has not recorded how it ended.
Asking(c, p) ==
  \E n \in Attempts, at \in {"call", "answered", "outcome_uncertain"} : At(c, at, p, n)

\* The provider is asked again only after it refused: of the attempts to
\* refund a payment all but one were rejected, and no two clerks are asking,
\* whichever race, crash or resume.
NeverAskedTwice ==
  \A p \in Payments :
    /\ \A m, n \in Attempts :
         /\ op[p][m].status # "none" /\ op[p][m].failure # "rejected"
         /\ op[p][n].status # "none" /\ op[p][n].failure # "rejected"
         => m = n
    /\ \A c, d \in Clerks : Asking(c, p) /\ Asking(d, p) => c = d

\* A refund of everything that the provider has reported closes the payment,
\* whatever the journal has written about it, before or after.
ReportedRefundCloses ==
  \A e \in Events :
    /\ Settled(e) /\ notice[e].type = "payment.refunded" /\ Complete(e)
    /\ made[notice[e].payment][notice[e].refund] = OrderTotal
    => pay[notice[e].payment] = "refunded"

\* What the journal has completed as refunded stays refunded and gives no
\* access, although webhooks of the sale may still arrive.
CompletedRefundHolds ==
  \A p \in Payments, n \in Attempts :
    op[p][n].status = "completed" /\ op[p][n].result.status = "succeeded"
      => pay[p] = "refunded" /\ access # "active"

\* Webhook and journal agree on what is paid back, for good.
RefundsHold == ReportedRefundCloses /\ CompletedRefundHolds

\* "A succeeded refund row is an immutable business fact."
SucceededFactStays ==
  [][\A p \in Payments, k \in FactIds :
       fact[p][k].status = "succeeded" => fact'[p][k] = fact[p][k]]_journalVars
===============================================================================
