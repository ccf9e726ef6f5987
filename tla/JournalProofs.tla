----------------------------- MODULE JournalProofs -----------------------------
(***************************************************************************)
(* The proofs about operators, for any number of payments, attempts,       *)
(* members and requests, whichever race, crash or resume: that the journal *)
(* asks the provider for a refund again only after it refused; that what   *)
(* it and the webhooks record of a refund closes the payment; and that in  *)
(* the team owners come from owners and no change of a password is lost.   *)
(***************************************************************************)
EXTENDS MCRefundJournal, PaymentProofs

Refused(p, n) == op[p][n].status = "failed" /\ op[p][n].failure = "rejected"

\* The rows are what updateOperation leaves of them; no row is dropped.
Shape ==
  /\ op = [p \in Payments |-> op[p]]
  /\ \A p \in Payments : op[p] = [n \in Attempts |-> op[p][n]]
  /\ \A p \in Payments, n \in Attempts :
       op[p][n] = [status |-> op[p][n].status, failure |-> op[p][n].failure,
                   result |-> op[p][n].result]
  /\ clerk = [c \in Clerks |-> clerk[c]]

\* An attempt that is not the first follows refused ones only.
Chain ==
  \A p \in Payments, m, n \in Attempts :
    m < n /\ op[p][n].status # "none" => Refused(p, m)

\* A failed row tells why, and no other row does.
Told ==
  \A p \in Payments, n \in Attempts :
    op[p][n].failure = "rejected" => op[p][n].status = "failed"

Telling == {"call", "answered", "rejected", "outcome_uncertain"}

\* What a clerk relies on: the attempts before the one it creates were
\* refused; the row of the attempt it makes is its own; the row it settles
\* has an answer.
Creating ==
  \A c \in Clerks, p \in Payments, n \in Attempts :
    At(c, "create", p, n) => \A m \in Attempts : m < n => Refused(p, m)
Owning ==
  \A c \in Clerks, p \in Payments, n \in Attempts, at \in Telling :
    At(c, at, p, n) => op[p][n].status = "pending_provider"
Alone ==
  \A c, d \in Clerks, p \in Payments, n \in Attempts, at, to \in Telling :
    At(c, at, p, n) /\ At(d, to, p, n) => c = d
Settling ==
  \A c \in Clerks, p \in Payments, n \in Attempts, at \in {"settle", "stuck"} :
    At(c, at, p, n)
      => op[p][n].status \in {"provider_succeeded", "needs_reconciliation", "completed"}

JournalInv == Shape /\ Chain /\ Told /\ Creating /\ Owning /\ Alone /\ Settling

-------------------------------------------------------------------------------

\* What a clerk's move does to the clerks.
LEMMA Moved ==
  ASSUME Shape, NEW c \in Clerks, NEW at, NEW p, NEW n, NEW answer, at # "idle",
         Move(c, at, p, n, answer)
  PROVE  /\ clerk' = [d \in Clerks |-> clerk'[d]]
         /\ \A d \in Clerks : \A to, q, m :
              At(d, to, q, m)' <=> IF d = c THEN to = at /\ q = p /\ m = n
                                   ELSE At(d, to, q, m)
BY DEF Shape, Move, At, Idle

LEMMA Left ==
  ASSUME Shape, NEW c \in Clerks, Leave(c)
  PROVE  /\ clerk' = [d \in Clerks |-> clerk'[d]]
         /\ \A d \in Clerks : \A to, q, m : At(d, to, q, m)' <=> d # c /\ At(d, to, q, m)
BY DEF Shape, Leave, At, Idle

\* What a write does to the rows.
LEMMA Written ==
  ASSUME Shape, NEW p \in Payments, NEW n \in Attempts, NEW row, Write(p, n, row)
  PROVE  /\ op' = [q \in Payments |-> op'[q]]
         /\ \A q \in Payments : op'[q] = [m \in Attempts |-> op'[q][m]]
         /\ op'[p][n] = row
         /\ \A q \in Payments, m \in Attempts : q # p \/ m # n => op'[q][m] = op[q][m]
<1>1. /\ op' = [q \in Payments |-> op'[q]]
      /\ op'[p] = [op[p] EXCEPT ![n] = row]
      /\ \A q \in Payments \ {p} : op'[q] = op[q]
  BY DEF Shape, Write
<1>2. op[p] = [m \in Attempts |-> op[p][m]]
  BY DEF Shape
<1>3. /\ op'[p] = [m \in Attempts |-> op'[p][m]]
      /\ op'[p][n] = row
      /\ \A m \in Attempts \ {n} : op'[p][m] = op[p][m]
  BY <1>1, <1>2
<1>4. \A q \in Payments : op'[q] = [m \in Attempts |-> op'[q][m]]
  BY <1>1, <1>3 DEF Shape
<1> QED BY <1>1, <1>3, <1>4
-------------------------------------------------------------------------------
(* The steps, by what they do to the rows and to the clerk.                *)

LEMMA MoveKeeps ==
  ASSUME JournalInv, NEW c \in Clerks, NEW p \in Payments, NEW n \in Attempts,
         NEW at, NEW answer, at # "idle", Move(c, at, p, n, answer), op' = op,
         at = "create" => \A m \in Attempts : m < n => Refused(p, m),
         at \in Telling => \E to \in Telling : At(c, to, p, n),
         at \in {"settle", "stuck"}
           => op[p][n].status \in {"provider_succeeded", "needs_reconciliation", "completed"}
  PROVE  JournalInv'
<1>1. /\ clerk' = [d \in Clerks |-> clerk'[d]]
      /\ \A d \in Clerks : \A to, q, m :
           At(d, to, q, m)' <=> IF d = c THEN to = at /\ q = p /\ m = n
                                ELSE At(d, to, q, m)
  BY Moved DEF JournalInv
<1>2. Shape' /\ Chain' /\ Told'
  BY <1>1 DEF JournalInv, Shape, Chain, Told, Refused
<1>3. Creating'
  BY <1>1 DEF JournalInv, Creating, Refused
<1>4. Owning'
  BY <1>1 DEF JournalInv, Owning
<1>5. Alone'
  BY <1>1 DEF JournalInv, Alone
<1>6. Settling'
  BY <1>1 DEF JournalInv, Settling
<1> QED BY <1>2, <1>3, <1>4, <1>5, <1>6 DEF JournalInv

LEMMA LeaveKeeps ==
  ASSUME JournalInv, NEW c \in Clerks, Leave(c), op' = op
  PROVE  JournalInv'
<1>1. /\ clerk' = [d \in Clerks |-> clerk'[d]]
      /\ \A d \in Clerks : \A to, q, m : At(d, to, q, m)' <=> d # c /\ At(d, to, q, m)
  BY Left DEF JournalInv
<1>2. Shape' /\ Chain' /\ Told'
  BY <1>1 DEF JournalInv, Shape, Chain, Told, Refused
<1>3. Creating' /\ Owning' /\ Alone' /\ Settling'
  BY <1>1 DEF JournalInv, Creating, Owning, Alone, Settling, Refused
<1> QED BY <1>2, <1>3 DEF JournalInv

\* A clerk that writes the outcome of its attempt, or of the settlement.
LEMMA WriteKeeps ==
  ASSUME JournalInv, NEW c \in Clerks, NEW p \in Payments, NEW n \in Attempts, NEW row,
         Write(p, n, row), Leave(c) \/ Move(c, "reconcile", p, n, NoAnswer),
         op[p][n].status # "none", ~Refused(p, n), row.status # "none",
         row = [status |-> row.status, failure |-> row.failure, result |-> row.result],
         row.failure = "rejected" => row.status = "failed",
         \A d \in Clerks \ {c}, at \in Telling : ~At(d, at, p, n),
         op[p][n].status \in {"provider_succeeded", "needs_reconciliation", "completed"}
           => row.status \in {"provider_succeeded", "needs_reconciliation", "completed"}
  PROVE  JournalInv'
<1>1. /\ op' = [q \in Payments |-> op'[q]]
      /\ \A q \in Payments : op'[q] = [m \in Attempts |-> op'[q][m]]
      /\ op'[p][n] = row
      /\ \A q \in Payments, m \in Attempts : q # p \/ m # n => op'[q][m] = op[q][m]
  BY Written DEF JournalInv
<1>2. /\ clerk' = [d \in Clerks |-> clerk'[d]]
      /\ \A d \in Clerks : \A to, q, m :
           to # "reconcile" => (At(d, to, q, m)' <=> d # c /\ At(d, to, q, m))
  BY Left, Moved DEF JournalInv
<1>3. Shape' /\ Told'
  <2>1. ASSUME NEW q \in Payments, NEW m \in Attempts
        PROVE  /\ op'[q][m] = [status |-> op'[q][m].status, failure |-> op'[q][m].failure,
                               result |-> op'[q][m].result]
               /\ op'[q][m].failure = "rejected" => op'[q][m].status = "failed"
    <3>1. CASE q = p /\ m = n
      BY <1>1, <3>1
    <3>2. CASE q # p \/ m # n
      BY <1>1, <3>2 DEF JournalInv, Shape, Told
    <3> QED BY <3>1, <3>2
  <2> QED BY <1>1, <1>2, <2>1 DEF Shape, Told
<1>4. \A q \in Payments, m \in Attempts : Refused(q, m) => Refused(q, m)'
  BY <1>1 DEF Refused
<1>5. \A q \in Payments, m \in Attempts :
        op'[q][m].status # "none" => op[q][m].status # "none"
  BY <1>1
<1>6. Chain'
  BY <1>4, <1>5 DEF JournalInv, Chain
<1>7. Creating'
  BY <1>2, <1>4 DEF JournalInv, Creating
<1>8. Owning'
  <2> SUFFICES ASSUME NEW d \in Clerks, NEW q \in Payments, NEW m \in Attempts,
                      NEW at \in Telling, At(d, at, q, m)'
               PROVE  op'[q][m].status = "pending_provider"
    BY DEF Owning
  <2>1. d # c /\ At(d, at, q, m)
    BY <1>2 DEF Telling
  <2> QED BY <1>1, <2>1 DEF JournalInv, Owning
<1>9. Alone'
  <2>1. \A d \in Clerks, at \in Telling : \A q, m :
          At(d, at, q, m)' => At(d, at, q, m)
    BY <1>2 DEF Telling
  <2> QED BY <2>1 DEF JournalInv, Alone
<1>10. Settling'
  <2> SUFFICES ASSUME NEW d \in Clerks, NEW q \in Payments, NEW m \in Attempts,
                      NEW at \in {"settle", "stuck"}, At(d, at, q, m)'
               PROVE  op'[q][m].status
                        \in {"provider_succeeded", "needs_reconciliation", "completed"}
    BY DEF Settling
  <2>1. At(d, at, q, m)
    BY <1>2
  <2> QED BY <1>1, <2>1 DEF JournalInv, Settling
<1> QED BY <1>3, <1>6, <1>7, <1>8, <1>9, <1>10 DEF JournalInv

\* The clerk that inserts the row of an attempt is the only one to make it.
LEMMA InsertKeeps ==
  ASSUME JournalInv, NEW c \in Clerks, NEW p \in Payments, NEW n \in Attempts,
         At(c, "create", p, n), op[p][n].status = "none",
         Write(p, n, [NoOperation EXCEPT !.status = "pending_provider"]),
         Move(c, "call", p, n, NoAnswer)
  PROVE  JournalInv'
<1> DEFINE row == [status |-> "pending_provider", failure |-> "none", result |-> NoAnswer]
<1>0. [NoOperation EXCEPT !.status = "pending_provider"] = row
  BY DEF NoOperation
<1>1. /\ op' = [q \in Payments |-> op'[q]]
      /\ \A q \in Payments : op'[q] = [m \in Attempts |-> op'[q][m]]
      /\ op'[p][n] = row
      /\ \A q \in Payments, m \in Attempts : q # p \/ m # n => op'[q][m] = op[q][m]
  BY <1>0, Written DEF JournalInv
<1>2. /\ clerk' = [d \in Clerks |-> clerk'[d]]
      /\ \A d \in Clerks : \A to, q, m :
           At(d, to, q, m)' <=> IF d = c THEN to = "call" /\ q = p /\ m = n
                                ELSE At(d, to, q, m)
  BY Moved DEF JournalInv
<1>3. Shape' /\ Told'
  <2>1. ASSUME NEW q \in Payments, NEW m \in Attempts
        PROVE  /\ op'[q][m] = [status |-> op'[q][m].status, failure |-> op'[q][m].failure,
                               result |-> op'[q][m].result]
               /\ op'[q][m].failure = "rejected" => op'[q][m].status = "failed"
    <3>1. CASE q = p /\ m = n
      BY <1>1, <3>1
    <3>2. CASE q # p \/ m # n
      BY <1>1, <3>2 DEF JournalInv, Shape, Told
    <3> QED BY <3>1, <3>2
  <2>2. /\ op' = [q \in Payments |-> op'[q]]
        /\ \A q \in Payments : op'[q] = [m \in Attempts |-> op'[q][m]]
        /\ clerk' = [d \in Clerks |-> clerk'[d]]
    BY <1>1, <1>2
  <2> QED BY <2>1, <2>2 DEF Shape, Told
<1>4. \A q \in Payments, m \in Attempts : Refused(q, m) => Refused(q, m)'
  BY <1>1 DEF Refused
<1>5. Chain'
  <2>1. \A m \in Attempts : m < n => Refused(p, m)
    BY DEF JournalInv, Creating
  <2> QED BY <1>1, <1>4, <2>1 DEF JournalInv, Chain
<1>6. Creating'
  BY <1>2, <1>4 DEF JournalInv, Creating
<1>7. \A d \in Clerks, at \in Telling : ~At(d, at, p, n)
  BY DEF JournalInv, Owning
<1>8. Owning' /\ Alone'
  <2>1. ASSUME NEW d \in Clerks, NEW at \in Telling, NEW q \in Payments,
               NEW m \in Attempts, At(d, at, q, m)'
        PROVE  \/ d = c /\ q = p /\ m = n
               \/ At(d, at, q, m) /\ (q # p \/ m # n)
    BY <1>2, <1>7, <2>1
  <2>2. ASSUME NEW d \in Clerks, NEW at \in Telling, NEW q \in Payments,
               NEW m \in Attempts, At(d, at, q, m)'
        PROVE  op'[q][m].status = "pending_provider"
    <3>1. CASE q = p /\ m = n
      BY <1>1, <3>1
    <3>2. CASE q # p \/ m # n
      BY <1>1, <2>1, <2>2, <3>2 DEF JournalInv, Owning
    <3> QED BY <3>1, <3>2
  <2>3. Alone'
    BY <2>1 DEF JournalInv, Alone
  <2> QED BY <2>2, <2>3 DEF Owning
<1>9. Settling'
  BY <1>1, <1>2 DEF JournalInv, Settling
<1> QED BY <1>3, <1>5, <1>6, <1>8, <1>9 DEF JournalInv

-------------------------------------------------------------------------------

LEMMA JournalInvInit == JournalInit => JournalInv
<1> SUFFICES ASSUME JournalInit PROVE JournalInv
  OBVIOUS
<1>1. Shape /\ Chain /\ Told
  BY DEF JournalInit, Shape, Chain, Told, NoOperation
<1>2. \A c \in Clerks : \A at, p, n : ~At(c, at, p, n)
  BY DEF JournalInit, At
<1> QED BY <1>1, <1>2 DEF JournalInv, Creating, Owning, Alone, Settling

LEMMA ClerkKeeps ==
  ASSUME JournalInv, NEW c \in Clerks, NEW p \in Payments, NEW n \in Attempts,
         StartRetry(c, p, n) \/ Resume(c, p, n) \/ Ask(c, p, n)
           \/ Record(c, p, n) \/ Reconcile(c, p, n)
  PROVE  JournalInv'
<1>0. /\ Attempts \subseteq Nat
      /\ op[p][n] = [status |-> op[p][n].status, failure |-> op[p][n].failure,
                     result |-> op[p][n].result]
  BY DEF Attempts, JournalInv, Shape
<1>1. CASE StartRetry(c, p, n)
  <2>1. n + 1 \in Attempts /\ Refused(p, n)
    BY <1>1, JournalAssumption DEF StartRetry, Attempts, Refused
  <2>2. \A m \in Attempts : m < n + 1 => Refused(p, m)
    BY <1>0, <2>1 DEF JournalInv, Chain, Refused
  <2> QED BY <1>1, <2>1, <2>2, MoveKeeps DEF StartRetry, Telling
<1>2. CASE Resume(c, p, n)
  BY <1>2, MoveKeeps DEF Resume, Reconcilable, Telling
<1>3. CASE Create(c, p, n)
  <2>1. CASE op[p][n].status = "none"
    BY <1>3, <2>1, InsertKeeps DEF Create
  <2>2. CASE op[p][n].status # "none"
    BY <1>3, <2>2, MoveKeeps DEF Create, Telling
  <2> QED BY <2>1, <2>2
<1>4. CASE Accept(c, p, n)
  <2>1. PICK at \in {"answered", "outcome_uncertain"} :
          \E answer : Move(c, at, p, n, answer)
    BY <1>4 DEF Accept
  <2> QED BY <1>4, <2>1, MoveKeeps DEF Accept, Telling
<1>5. CASE Refuse(c, p, n)
  <2>1. PICK at \in {"answered", "rejected", "outcome_uncertain"} :
          \E answer : Move(c, at, p, n, answer)
    BY <1>5 DEF Refuse
  <2> QED BY <1>5, <2>1, MoveKeeps DEF Refuse, Telling
<1>6. CASE RecordAnswer(c, p, n) \/ RecordFailure(c, p, n)
  <2>1. PICK at \in Telling : At(c, at, p, n)
    BY <1>6 DEF RecordAnswer, RecordFailure, Telling
  <2>2. /\ op[p][n].status = "pending_provider"
        /\ \A d \in Clerks \ {c}, to \in Telling : ~At(d, to, p, n)
    BY <2>1 DEF JournalInv, Owning, Alone
  <2>3. CASE RecordAnswer(c, p, n)
    BY <2>2, <2>3, WriteKeeps DEF RecordAnswer, Refused
  <2>4. CASE RecordFailure(c, p, n)
    <3>1. PICK kind \in {"rejected", "outcome_uncertain"} :
            Write(p, n, [status |-> "failed", failure |-> kind, result |-> op[p][n].result])
      BY <2>4 DEF RecordFailure
    <3> QED BY <2>2, <2>4, <3>1, WriteKeeps DEF RecordFailure, Refused
  <2> QED BY <1>6, <2>3, <2>4
<1>7. CASE Reread(c, p, n)
  BY <1>7, MoveKeeps, LeaveKeeps DEF Reread, Reconcilable, Telling
<1>8. CASE SettleAborts(c, p, n)
  BY <1>8, MoveKeeps DEF SettleAborts, Telling, JournalInv, Settling
<1>9. CASE Settle(c, p, n) \/ MarkStuck(c, p, n)
  <2>1. /\ op[p][n].status \in {"provider_succeeded", "needs_reconciliation", "completed"}
        /\ op[p][n].failure # "rejected"
    BY <1>9 DEF Settle, MarkStuck, JournalInv, Settling, Told
  <2>2. \A d \in Clerks, to \in Telling : ~At(d, to, p, n)
    BY <2>1 DEF JournalInv, Owning
  <2>3. PICK s \in {"completed", "needs_reconciliation"} :
          Write(p, n, [op[p][n] EXCEPT !.status = s]) /\ Leave(c)
    BY <1>9 DEF Settle, MarkStuck
  <2>4. [op[p][n] EXCEPT !.status = s]
          = [status |-> s, failure |-> op[p][n].failure, result |-> op[p][n].result]
    BY <1>0
  <2> QED BY <2>1, <2>2, <2>3, <2>4, WriteKeeps DEF Refused
<1> QED BY <1>1, <1>2, <1>3, <1>4, <1>5, <1>6, <1>7, <1>8, <1>9
        DEF Ask, Record, Reconcile

LEMMA JournalInvStep == JournalInv /\ [JournalNext]_journalVars => JournalInv'
<1> SUFFICES ASSUME JournalInv, [JournalNext]_journalVars PROVE JournalInv'
  OBVIOUS
<1>1. CASE UNCHANGED journal
  BY <1>1 DEF journal, JournalInv, Shape, Chain, Told, Creating, Owning, Alone,
              Settling, Refused, At
<1>2. CASE ClerkStep
  <2>1. PICK c \in Clerks :
          \/ ClerkCrash(c)
          \/ \E p \in Payments :
               \/ StartRefund(c, p)
               \/ \E n \in Attempts :
                    StartRetry(c, p, n) \/ Resume(c, p, n) \/ Ask(c, p, n)
                      \/ Record(c, p, n) \/ Reconcile(c, p, n)
    BY <1>2 DEF ClerkStep
  <2>2. CASE ClerkCrash(c)
    BY <2>2, LeaveKeeps DEF ClerkCrash
  <2>3. ASSUME NEW p \in Payments, StartRefund(c, p)
        PROVE  JournalInv'
    <3>1. 1 \in Attempts /\ \A m \in Attempts : ~(m < 1)
      BY JournalAssumption DEF Attempts
    <3> QED BY <2>3, <3>1, MoveKeeps DEF StartRefund, Telling
  <2> QED BY <2>1, <2>2, <2>3, ClerkKeeps
<1> QED BY <1>1, <1>2 DEF JournalNext, WebhookStep, journalVars

\* The journal asks the provider for a refund of a payment again only after
\* it refused, and never from two requests at once (createOrGetOperation,
\* retryBillingOperation, assertOperationCanProceed).
THEOREM AskedOnce == JournalSpec => []NeverAskedTwice
<1>1. JournalInv => NeverAskedTwice
  <2> SUFFICES ASSUME JournalInv, NEW p \in Payments
               PROVE  /\ \A m, n \in Attempts :
                           /\ op[p][m].status # "none" /\ op[p][m].failure # "rejected"
                           /\ op[p][n].status # "none" /\ op[p][n].failure # "rejected"
                           => m = n
                      /\ \A c, d \in Clerks : Asking(c, p) /\ Asking(d, p) => c = d
    BY DEF NeverAskedTwice
  <2>1. ASSUME NEW m \in Attempts, NEW n \in Attempts,
               op[p][m].status # "none", op[p][m].failure # "rejected",
               op[p][n].status # "none", op[p][n].failure # "rejected"
        PROVE  m = n
    <3>1. ~(m < n) /\ ~(n < m)
      BY <2>1 DEF JournalInv, Chain, Refused
    <3> QED BY <3>1, JournalAssumption DEF Attempts
  <2>2. ASSUME NEW c \in Clerks, NEW d \in Clerks, Asking(c, p), Asking(d, p)
        PROVE  c = d
    <3>1. PICK m \in Attempts, at \in Telling : At(c, at, p, m)
      BY <2>2 DEF Asking, Telling
    <3>2. PICK n \in Attempts, to \in Telling : At(d, to, p, n)
      BY <2>2 DEF Asking, Telling
    <3>3. op[p][m].status = "pending_provider" /\ op[p][n].status = "pending_provider"
      BY <3>1, <3>2 DEF JournalInv, Owning
    <3>4. op[p][m].failure # "rejected" /\ op[p][n].failure # "rejected"
      BY <3>3 DEF JournalInv, Told
    <3>5. m = n
      BY <2>1, <3>3, <3>4
    <3> QED BY <3>1, <3>2, <3>5 DEF JournalInv, Alone
  <2> QED BY <2>1, <2>2
<1> QED BY <1>1, JournalInvInit, JournalInvStep, PTL DEF JournalSpec

-------------------------------------------------------------------------------
(* The refunds, reported by webhooks and answered to clerks.               *)

\* A row that failed tells why, and a row has an answer once it may be settled.
Results ==
  \A p \in Payments, n \in Attempts :
    /\ op[p][n].status = "failed" <=> op[p][n].failure # "none"
    /\ Reconcilable(p, n) \/ op[p][n].status = "completed" <=> op[p][n].result # NoAnswer

Errand ==
  [at : {"create", "call", "answered", "rejected", "outcome_uncertain",
         "reconcile", "settle", "stuck"},
   payment : Payments, attempt : Attempts, answer : Answer \cup {NoAnswer}]
JournalTypes ==
  /\ op \in [Payments -> [Attempts -> Operation]]
  /\ clerk \in [Clerks -> {Idle} \cup Errand]

\* A payment on record has an amount, never more than the order's.
Charged == \A p \in Payments : pay[p] # "none" => paid[p] \in 1 .. OrderTotal

\* An answer names no refund, or one of all that was paid; unless it says the
\* refund failed, the provider has made it.
Stated(p, a) ==
  \/ a.refund = Synthetic /\ a.amount = NoAmount
  \/ /\ a.refund \in Refunds /\ a.amount = paid[p]
     /\ a.status # "failed" => made[p][a.refund] > 0
Answers ==
  /\ \A p \in Payments, n \in Attempts :
       op[p][n].result # NoAnswer => Stated(p, op[p][n].result)
  /\ \A c \in Clerks, p \in Payments, n \in Attempts :
       At(c, "answered", p, n) => clerk[c].answer # NoAnswer /\ Stated(p, clerk[c].answer)

\* The refund row k of payment p is what the journal wrote of an answer.
Settles(p, k) ==
  \E n \in Attempts :
    /\ op[p][n].result # NoAnswer
    /\ op[p][n].result.refund = k
    /\ op[p][n].result.status = fact[p][k].status
    /\ op[p][n].result.amount = fact[p][k].amount

\* Only the journal leaves rows that are pending or failed; a row of a refund
\* stands for one the provider made; a row that succeeded closes the payment
\* when it stands for everything, as one without an amount does.
RowStands(p, k) ==
  /\ fact[p][k].status # "none" => pay[p] # "none"
  /\ fact[p][k].status \in {"pending", "failed"} => Settles(p, k)
  /\ fact[p][k].status \in {"pending", "succeeded"} /\ k \in Refunds => made[p][k] > 0
  /\ fact[p][k].status = "superseded" => k = Synthetic
  /\ fact[p][k].status = "succeeded" /\ fact[p][k].amount = NoAmount => pay[p] = "refunded"
  /\ fact[p][k].status = "succeeded" /\ k \in Refunds /\ made[p][k] = OrderTotal
       => pay[p] = "refunded"
Rows == \A p \in Payments, k \in FactIds : RowStands(p, k)

\* Refunds that add up to what was paid close the payment.
Full == \A p \in Payments : pay[p] # "none" /\ Refunded(p) >= paid[p] => pay[p] = "refunded"

\* A refund is asked for only of a payment that gave its order access: a
\* bound payment that stands did, unless a refund was booked on it before.
Started(p) ==
  op[p][1].status # "none" \/ \E c \in Clerks, n \in Attempts : At(c, "create", p, n)
Starting ==
  \A p \in Payments : Started(p) => bound[p] /\ pay[p] # "none" /\ grantedBy # NoEvent
Ungranted ==
  \A p \in Payments :
    bound[p] /\ pay[p] = "succeeded" /\ grantedBy = NoEvent
      => \E k \in FactIds : fact[p][k].status = "succeeded"

Books == Charged /\ Rows /\ Full /\ Ungranted /\ Granted /\ AccessHasPayment

RefundInv ==
  /\ TypeOK /\ Working /\ JournalTypes /\ JournalInv /\ Results
  /\ Books /\ Reports /\ Spent /\ Answers /\ Starting
  /\ CompletedRefundHolds /\ ReportedRefundCloses

-------------------------------------------------------------------------------
(* The rows an event meets.                                                *)

\* What each row confirms, 0 for one without an amount.
Confirms(f) ==
  [k \in FactIds |-> IF f[k].status = "succeeded" /\ f[k].amount # NoAmount
                     THEN f[k].amount ELSE 0]

LEMMA SumConfirms ==
  ASSUME NEW f
  PROVE  /\ Sum(f, {k \in FactIds : f[k].status = "succeeded"}) = Total(Confirms(f), FactIds)
         /\ Total(Confirms(f), FactIds) \in Nat
<1> DEFINE T == {k \in FactIds : f[k].status = "succeeded"}
           v == [k \in FactIds |-> IF f[k].amount = NoAmount THEN 0 ELSE f[k].amount]
<1>1. \A k \in T : v[k] = Confirms(f)[k]
  BY DEF Confirms
<1>2. Total(v, T) = Total(Confirms(f), T)
  <2> HIDE DEF v, T
  <2> QED BY <1>1, TotalSame
<1>3. \A k \in FactIds \ T : Confirms(f)[k] = 0
  BY DEF Confirms
<1>4. Total(Confirms(f), FactIds) = Total(Confirms(f), T)
  <2>1. T \in SUBSET FactIds
    OBVIOUS
  <2> HIDE DEF T
  <2> QED BY <1>3, <2>1, FactIdsFinite, TotalDropZeros
<1> QED BY <1>2, <1>4, FactIdsFinite, TotalType DEF Sum

LEMMA SumType ==
  ASSUME NEW f, NEW S \in SUBSET FactIds
  PROVE  Sum(f, S) \in Nat
<1>1. IsFiniteSet(S)
  BY FactIdsFinite, FS_Subset
<1> QED BY <1>1, TotalType DEF Sum

\* The row the journal made up is superseded when the real id arrives; no
\* other row is touched.
Supersedes(x) ==
  /\ x.refund # NoRefund /\ Recorded(x).status = "none"
  /\ fact[x.payment][Synthetic].status = "pending"

LEMMA AlignedRows ==
  ASSUME TypeOK, NEW x \in Notice
  PROVE  /\ Aligned(x) \in [FactIds -> Fact]
         /\ \A k \in FactIds : Aligned(x)[k] = fact[x.payment][k]
                                 \/ (k = Synthetic /\ Supersedes(x))
         /\ Supersedes(x) => Aligned(x)[Synthetic].status = "superseded"
<1>1. /\ x.payment \in Payments /\ fact[x.payment] \in [FactIds -> Fact]
      /\ Synthetic \in FactIds
  BY DEF TypeOK, Notice, FactIds
<1>2. PICK row : row = fact[x.payment][Synthetic]
  OBVIOUS
<1>3. row \in Fact
  BY <1>1, <1>2
<1>4. [row EXCEPT !.status = "superseded"] \in Fact
      /\ [row EXCEPT !.status = "superseded"].status = "superseded"
      /\ [row EXCEPT !.status = row.status] = row
  BY <1>3 DEF Fact, FactStatus
<1>5. CASE Supersedes(x)
  <2>1. Aligned(x) = [fact[x.payment] EXCEPT ![Synthetic] =
                        [row EXCEPT !.status = "superseded"]]
    BY <1>1, <1>2, <1>5 DEF Aligned, Supersedes
  <2> QED BY <1>1, <1>4, <1>5, <2>1
<1>6. CASE ~Supersedes(x)
  <2>1. Aligned(x) = [fact[x.payment] EXCEPT ![Synthetic] = row]
    BY <1>1, <1>2, <1>4, <1>6 DEF Aligned, Supersedes
  <2> QED BY <1>1, <1>2, <1>6, <2>1
<1> QED BY <1>5, <1>6

LEMMA ConfirmedRows ==
  ASSUME TypeOK, NEW x \in Notice
  PROVE  /\ Confirmed(x) = {k \in FactIds : fact[x.payment][k].status = "succeeded"}
         /\ \A k \in Counted(x) :
              k \in FactIds /\ Aligned(x)[k] = fact[x.payment][k]
         /\ Sum(Aligned(x), Confirmed(x)) = Refunded(x.payment)
         /\ Refunded(x.payment) \in Nat
<1>1. /\ Aligned(x) \in [FactIds -> Fact]
      /\ \A k \in FactIds : Aligned(x)[k] = fact[x.payment][k]
                              \/ (k = Synthetic /\ Supersedes(x))
      /\ Supersedes(x) => Aligned(x)[Synthetic].status = "superseded"
  BY AlignedRows
<1>2. \A k \in FactIds : Aligned(x)[k].status \in {"pending", "succeeded"}
        => Aligned(x)[k] = fact[x.payment][k]
  BY <1>1
<1>3. \A k \in FactIds : fact[x.payment][k].status = "succeeded"
        => Aligned(x)[k] = fact[x.payment][k]
  BY <1>1 DEF Supersedes
<1>4. \A k \in FactIds : ~(Upgrades(x) /\ k = x.refund)
                           \/ fact[x.payment][k].status = "pending"
  BY DEF Upgrades, Recorded, NoFact
<1>5. Confirmed(x) = {k \in FactIds : fact[x.payment][k].status = "succeeded"}
  BY <1>2, <1>3, <1>4 DEF Confirmed, Counted
<1>6. \A k \in Confirmed(x) : k \in FactIds /\ Aligned(x)[k] = fact[x.payment][k]
  BY <1>3, <1>5
<1>7. Sum(Aligned(x), Confirmed(x)) = Sum(fact[x.payment], Confirmed(x))
  <2> DEFINE v == [k \in FactIds |-> IF Aligned(x)[k].amount = NoAmount THEN 0
                                     ELSE Aligned(x)[k].amount]
             u == [k \in FactIds |-> IF fact[x.payment][k].amount = NoAmount THEN 0
                                     ELSE fact[x.payment][k].amount]
  <2>1. \A k \in Confirmed(x) : v[k] = u[k]
    BY <1>6
  <2>2. Total(v, Confirmed(x)) = Total(u, Confirmed(x))
    <3> HIDE DEF v, u
    <3> QED BY <2>1, TotalSame
  <2> QED BY <2>2 DEF Sum
<1> QED BY <1>2, <1>5, <1>7, SumConfirms DEF Counted, Refunded

\* What a refund event books, when its transaction goes through.
LEMMA AppliedType ==
  ASSUME TypeOK, NEW e \in Events, NEW x \in Notice,
         x.type = "payment.refunded", ~Ignorable(x), ~Invalid(e, x)
  PROVE  /\ AmountFrom(x) \in Amounts /\ Captured(x) \in Amounts /\ Applied(x) \in Amounts
         /\ Headroom(x) \in Int /\ Headroom(x) <= Captured(x)
<1>0. /\ x.payment \in Payments /\ x.amount \in Amounts \cup {NoAmount}
      /\ paid[x.payment] \in Amounts /\ fact[x.payment] \in [FactIds -> Fact]
      /\ x.refund # NoRefund => x.refund \in FactIds
  BY DEF TypeOK, Notice, FactIds
<1>1. AmountFrom(x) \in Amounts
  BY AmountFromType DEF Invalid
<1>2. Captured(x) \in Amounts /\ Captured(x) \in Nat /\ Captured(x) <= MaxAmount
  BY <1>0, <1>1, MaxAmountAssumption DEF Captured, Amounts
<1>3. Headroom(x) \in Int /\ Headroom(x) <= Captured(x)
  <2>1. Counted(x) \in SUBSET FactIds
    BY DEF Counted
  <2>2. Sum(Aligned(x), Counted(x)) \in Nat
    BY <2>1, SumType
  <2> QED BY <1>2, <2>2 DEF Headroom
<1>4. Upgrades(x) => Recorded(x).amount \in Amounts \cup {NoAmount}
  BY <1>0 DEF Recorded, Upgrades, NoFact, Fact
<1>5. Applied(x) \in Int /\ Applied(x) <= MaxAmount
  <2>1. Recorded(x).amount \in Amounts \cup {NoAmount} \/ ~Upgrades(x)
    BY <1>4
  <2>2. /\ x.amount # NoAmount => x.amount \in Nat /\ x.amount <= MaxAmount
        /\ Upgrades(x) /\ Recorded(x).amount # NoAmount
             => Recorded(x).amount \in Nat /\ Recorded(x).amount <= MaxAmount
    BY <1>0, <1>4, MaxAmountAssumption DEF Amounts
  <2>3. CASE Upgrades(x)
    BY <1>2, <1>3, <2>2, <2>3, MaxAmountAssumption DEF Applied
  <2>4. CASE ~Upgrades(x)
    BY <1>2, <1>3, <2>2, <2>4, MaxAmountAssumption DEF Applied, Least
  <2> QED BY <2>3, <2>4
<1>6. ~(Applied(x) < 0)
  BY DEF Invalid
<1> QED BY <1>1, <1>2, <1>3, <1>5, <1>6, MaxAmountAssumption DEF Amounts

\* A payment has one answer at most: it is asked for again only after a refusal.
LEMMA OneAnswer ==
  ASSUME JournalInv, Results, NEW p \in Payments, NEW m \in Attempts, NEW n \in Attempts,
         op[p][m].result # NoAnswer, op[p][n].result # NoAnswer
  PROVE  m = n
<1>1. \A i \in {m, n} : op[p][i].status # "none" /\ op[p][i].status # "failed"
  BY DEF Results, Reconcilable
<1>2. ~(m < n) /\ ~(n < m)
  BY <1>1 DEF JournalInv, Chain, Refused
<1> QED BY <1>2, JournalAssumption DEF Attempts

\* When one refund has paid everything back, there is no other.
LEMMA NoOtherRefund ==
  ASSUME TypeOK, NEW p \in Payments, PaidBack(p) <= OrderTotal,
         NEW r \in Refunds, made[p][r] = OrderTotal, NEW k \in Refunds \ {r}
  PROVE  made[p][k] = 0
<1>1. OrderTotal \in Amounts /\ OrderTotal \in Nat /\ 0 \in Amounts
      /\ \A i \in Refunds : made[p][i] \in Amounts /\ made[p][i] \in Nat
  <2>1. made[p] \in [Refunds -> 0 .. OrderTotal]
    BY DEF TypeOK
  <2>2. OrderTotal \in Nat /\ OrderTotal <= MaxAmount /\ MaxAmount \in Nat
    BY PaymentAssumption, MaxAmountAssumption
  <2> QED BY <2>1, <2>2 DEF Amounts
<1>2. PICK g : g = [i \in Refunds |-> IF i = r THEN 0 ELSE made[p][i]]
  OBVIOUS
<1>3. g[r] = 0 /\ \A i \in Refunds \ {r} : g[i] = made[p][i]
  BY <1>2
<1>4. Total(g, Refunds) + made[p][r] = Total(made[p], Refunds) + 0
  <2>1. PICK h : h = made[p]
    OBVIOUS
  <2>2. /\ h[r] \in Amounts /\ g[r] \in Amounts
        /\ \A i \in Refunds \ {r} : g[i] = h[i]
    BY <1>1, <1>3, <2>1
  <2>3. Total(g, Refunds) + h[r] = Total(h, Refunds) + g[r]
    BY <2>2, PaymentAssumption, TotalChangeOne
  <2> QED BY <1>3, <2>1, <2>3
<1>5. g[k] <= Total(g, Refunds) /\ g[k] = made[p][k]
  BY <1>1, <1>3, PaymentAssumption, TotalAtLeast
<1>6. Total(g, Refunds) \in Nat /\ Total(made[p], Refunds) \in Nat
  BY PaymentAssumption, TotalType
<1> QED BY <1>1, <1>4, <1>5, <1>6 DEF PaidBack

\* The rows beside a refund of everything that has not been booked yet: none
\* is pending.
LEMMA NoOtherPending ==
  ASSUME RefundInv, NEW x \in Notice, Names(x),
         made[x.payment][x.refund] = OrderTotal, Recorded(x).status # "succeeded",
         NEW k \in Counted(x)
  PROVE  k \in FactIds /\ fact[x.payment][k].status = "succeeded"
<1>0. /\ TypeOK /\ JournalInv /\ Results /\ Rows /\ Spent /\ Answers
      /\ x.payment \in Payments /\ x.refund \in Refunds /\ Synthetic \notin Refunds
      /\ Synthetic \in FactIds /\ x.refund \in FactIds /\ x.refund # NoRefund
  BY PaymentAssumption DEF RefundInv, Books, Notice, Names, FactIds
<1>1. /\ k \in FactIds /\ Aligned(x)[k] = fact[x.payment][k]
      /\ fact[x.payment][k].status \in {"pending", "succeeded"}
      /\ ~(Upgrades(x) /\ k = x.refund)
  BY <1>0, ConfirmedRows DEF Counted
<1>2. Recorded(x) = fact[x.payment][x.refund]
  BY <1>0 DEF Recorded
<1>3. ASSUME fact[x.payment][k].status = "pending"
      PROVE  FALSE
  <2>1. PICK n \in Attempts : op[x.payment][n].result # NoAnswer
                              /\ op[x.payment][n].result.refund = k
    BY <1>0, <1>1, <1>3 DEF Rows, RowStands, Settles
  <2>2. k = Synthetic \/ k \in Refunds
    BY <1>0, <2>1 DEF Answers, Stated
  <2>3. CASE k \in Refunds
    <3>1. made[x.payment][k] > 0
      BY <1>0, <1>1, <1>3, <2>3 DEF Rows, RowStands
    <3>2. k = x.refund
      BY <1>0, <2>3, <3>1, NoOtherRefund DEF Spent
    <3> QED BY <1>1, <1>2, <1>3, <3>2 DEF Upgrades
  <2>4. CASE k = Synthetic
    <3>1. Recorded(x).status # "none"
      BY <1>0, <1>1, <1>3, <2>4, AlignedRows DEF Supersedes
    <3>2. Recorded(x).status \in {"pending", "failed"}
      <4>1. fact[x.payment][x.refund] \in Fact
        <5>1. fact[x.payment] \in [FactIds -> Fact]
          BY <1>0 DEF TypeOK
        <5> QED BY <1>0, <5>1
      <4>2. fact[x.payment][x.refund].status # "superseded"
        BY <1>0 DEF Rows, RowStands
      <4> QED BY <1>2, <3>1, <4>1, <4>2 DEF Fact, FactStatus
    <3>3. PICK m \in Attempts : op[x.payment][m].result # NoAnswer
                                /\ op[x.payment][m].result.refund = x.refund
      BY <1>0, <1>2, <3>2 DEF Rows, RowStands, Settles
    <3>4. m = n
      BY <1>0, <2>1, <3>3, OneAnswer
    <3> QED BY <1>0, <2>1, <2>4, <3>3, <3>4
  <2> QED BY <2>2, <2>3, <2>4
<1> QED BY <1>1, <1>3

\* A payment is charged no more than the order's total, the first event to
\* tell of it included.
LEMMA ChargedTotal ==
  ASSUME RefundInv, NEW e \in Events, NEW x \in Notice,
         x.amount \in {NoAmount} \cup 1 .. OrderTotal, ~Invalid(e, x)
  PROVE  Captured(x) \in 1 .. OrderTotal
<1>1. Exists(x.payment) => paid[x.payment] \in 1 .. OrderTotal
  BY DEF RefundInv, Books, Charged, Notice, Exists
<1>2. AmountFrom(x) # NoAmount
  BY DEF Invalid
<1>3. OrderTotal \in 1 .. OrderTotal
  BY PaymentAssumption, MaxAmountAssumption
<1> QED BY <1>1, <1>2, <1>3 DEF Captured, AmountFrom

\* The event of a refund of everything closes the payment, unless that is
\* closed already.
LEMMA FullReport ==
  ASSUME RefundInv, NEW e \in Events, inbox[e] # "none", NEW x, x = notice[e],
         Names(x), made[x.payment][x.refund] = OrderTotal, ~Invalid(e, x)
  PROVE  /\ ~Ignorable(x) => FullyRefunds(x)
         /\ Ignorable(x) => pay[x.payment] = "refunded"
<1>0. /\ TypeOK /\ Rows /\ Full /\ Answers /\ Charged
      /\ x \in Notice /\ x.payment \in Payments /\ x.refund \in Refunds
      /\ x.refund \in FactIds /\ x.refund # NoRefund /\ x.type = "payment.refunded"
      /\ Synthetic \notin Refunds
  BY PaymentAssumption DEF RefundInv, TypeOK, Books, Notice, Names, FactIds
<1>1. x.amount \in {OrderTotal, NoAmount} /\ x.amount \in {NoAmount} \cup 1 .. OrderTotal
  BY DEF RefundInv, Reports, Reported
<1>2. Captured(x) \in 1 .. OrderTotal
  BY <1>0, <1>1, ChargedTotal
<1>3. Recorded(x) = fact[x.payment][x.refund]
  BY <1>0 DEF Recorded
<1>4. CASE Recorded(x).status = "succeeded"
  <2>1. Repeats(x)
    BY <1>4 DEF Invalid
  <2>2. pay[x.payment] = "refunded"
    BY <1>0, <1>3, <1>4 DEF Rows, RowStands
  <2> QED BY <1>0, <2>1, <2>2 DEF Ignorable
<1>5. CASE Recorded(x).status # "succeeded"
  <2>1. \A k \in Counted(x) : k \in FactIds /\ fact[x.payment][k].status = "succeeded"
                              /\ Aligned(x)[k] = fact[x.payment][k]
    BY <1>0, <1>5, NoOtherPending, ConfirmedRows
  <2>2. Counted(x) = Confirmed(x)
    BY <2>1 DEF Confirmed
  <2>3. /\ Sum(Aligned(x), Counted(x)) = Refunded(x.payment)
        /\ Sum(Aligned(x), Confirmed(x)) = Refunded(x.payment)
        /\ Refunded(x.payment) \in Nat
    BY <1>0, <2>2, ConfirmedRows
  <2>4. ~Repeats(x) /\ OrderTotal \in Nat
    BY <1>5, PaymentAssumption DEF Repeats
  <2>5. CASE Upgrades(x)
    <3>1. PICK n \in Attempts :
            /\ op[x.payment][n].result # NoAnswer
            /\ op[x.payment][n].result.refund = x.refund
            /\ op[x.payment][n].result.amount = Recorded(x).amount
      BY <1>0, <1>3, <2>5 DEF Rows, RowStands, Settles, Upgrades
    <3>2. Recorded(x).amount = paid[x.payment]
      BY <1>0, <3>1 DEF Answers, Stated
    <3>3. Exists(x.payment)
      BY <1>0, <1>3, <2>5 DEF Rows, RowStands, Upgrades, Exists
    <3>4. Recorded(x).amount = Captured(x)
      BY <3>2, <3>3 DEF Captured
    <3>5. Recorded(x).amount # NoAmount
      BY <1>2, <3>4 DEF NoAmount
    <3>6. Applied(x) \in {OrderTotal, Captured(x)}
      BY <1>1, <2>5, <3>4, <3>5 DEF Applied
    <3>7. Refunded(x.payment) + Applied(x) >= Captured(x)
      BY <1>2, <2>3, <2>4, <3>6
    <3> QED BY <1>0, <2>3, <2>4, <2>5, <3>7 DEF Ignorable, FullyRefunds
  <2>6. CASE ~Upgrades(x)
    <3>1. CASE \E k \in Counted(x) : Aligned(x)[k].amount = NoAmount
      <4>1. Headroom(x) = 0
        BY <3>1 DEF Headroom
      <4>2. pay[x.payment] = "refunded"
        BY <1>0, <2>1, <3>1 DEF Rows, RowStands
      <4> QED BY <1>0, <2>6, <4>1, <4>2 DEF Ignorable
    <3>2. CASE ~ \E k \in Counted(x) : Aligned(x)[k].amount = NoAmount
      <4>1. Headroom(x) = Captured(x) - Refunded(x.payment)
        BY <2>3, <3>2 DEF Headroom
      <4>2. ASSUME ~Exists(x.payment)
            PROVE  Refunded(x.payment) = 0
        <5>1. \A k \in FactIds : fact[x.payment][k].status = "none"
          BY <1>0, <4>2 DEF Rows, RowStands, Exists
        <5>2. \A k \in FactIds : Confirms(fact[x.payment])[k] = 0
          BY <5>1 DEF Confirms
        <5> QED BY <5>2, SumConfirms, TotalZero DEF Refunded
      <4>3. CASE Headroom(x) <= 0
        <5>1. Exists(x.payment)
          BY <1>2, <2>4, <4>1, <4>2, <4>3
        <5>2. Refunded(x.payment) >= paid[x.payment]
          BY <1>2, <2>3, <2>4, <4>1, <4>3, <5>1 DEF Captured
        <5>3. pay[x.payment] = "refunded"
          BY <1>0, <5>1, <5>2 DEF Full, Exists
        <5> QED BY <1>0, <2>6, <4>3, <5>3 DEF Ignorable
      <4>4. CASE ~(Headroom(x) <= 0)
        <5>1. Applied(x) = Headroom(x)
          BY <1>1, <1>2, <2>3, <2>4, <2>6, <4>1 DEF Applied, Least
        <5>2. Refunded(x.payment) + Applied(x) >= Captured(x)
          BY <1>2, <2>3, <2>4, <4>1, <5>1
        <5> QED BY <1>0, <2>3, <2>4, <2>6, <4>4, <5>2 DEF Ignorable, FullyRefunds
      <4> QED BY <4>3, <4>4
    <3> QED BY <3>1, <3>2
  <2> QED BY <2>5, <2>6
<1> QED BY <1>4, <1>5

-------------------------------------------------------------------------------
(* What the transaction of an event does to the rows.                      *)

\* What no event takes back: a payment and what it was charged, its order,
\* its end, and the one grant of the order.
Lasting ==
  /\ \A p \in Payments :
       /\ bound[p] => bound'[p]
       /\ pay[p] # "none" => pay'[p] # "none" /\ paid'[p] = paid[p]
       /\ pay[p] = "refunded" => pay'[p] = "refunded"
  /\ grantedBy # NoEvent => grantedBy' = grantedBy /\ (access' = "active" => access = "active")

\* The rows of a payment that has none yet add up to nothing.
LEMMA NothingBooked ==
  ASSUME Rows, NEW p \in Payments, pay[p] = "none"
  PROVE  Refunded(p) = 0
<1>1. \A k \in FactIds : fact[p][k].status = "none"
  BY DEF Rows, RowStands
<1>2. \A k \in FactIds : Confirms(fact[p])[k] = 0
  BY <1>1 DEF Confirms
<1> QED BY <1>2, SumConfirms, TotalZero DEF Refunded

LEMMA SucceedBooks ==
  ASSUME RefundInv, NEW e \in Events, NEW x \in Notice,
         x.amount \in {NoAmount} \cup 1 .. OrderTotal,
         ~Ignorable(x), ~Invalid(e, x), Succeed(e, x), op' = op, made' = made
  PROVE  RowTypes' /\ Books' /\ Lasting
<1> DEFINE p == x.payment
<1>0. /\ p \in Payments /\ RowTypes /\ Books /\ AmountFrom(x) \in Amounts
      /\ KnowsOrder(x) \in BOOLEAN /\ fact' = fact /\ pay[p] # "refunded"
      /\ x.type = "payment.succeeded"
  BY TypeParts, AmountFromType
     DEF RefundInv, Notice, Invalid, KnowsOrder, RowTypes, Succeed, Ignorable
<1>1. /\ pay' \in [Payments -> PaymentStatus]
      /\ paid' \in [Payments -> Amounts]
      /\ bound' \in [Payments -> BOOLEAN]
      /\ pay'[p] = "succeeded" /\ paid'[p] = Captured(x) /\ bound'[p] = KnowsOrder(x)
      /\ \A q \in Payments \ {p} :
           pay'[q] = pay[q] /\ paid'[q] = paid[q] /\ bound'[q] = bound[q]
  BY <1>0, PaymentRow DEF Succeed, PaymentStatus
<1>2. Captured(x) \in 1 .. OrderTotal
  BY ChargedTotal
<1>3. /\ KnowsOrder(x) => grantedBy' # NoEvent
      /\ grantedBy' = NoEvent => grantedBy = NoEvent
      /\ grantedBy # NoEvent => grantedBy' = grantedBy /\ access' = access
      /\ access' # access => KnowsOrder(x)
      /\ access' # "none" => access # "none" \/ grantedBy' # NoEvent
  <2>1. e # NoEvent
    BY PaymentAssumption
  <2> QED BY <2>1 DEF Succeed, entitlement
<1>4. RowTypes'
  BY <1>0, <1>1 DEF Succeed, SetOrder, RowTypes, OrderStatus, entitlement
<1>5. Charged'
  BY <1>0, <1>1, <1>2 DEF Books, Charged
<1>6. Rows'
  <2> SUFFICES ASSUME NEW q \in Payments, NEW k \in FactIds
               PROVE  RowStands(q, k)'
    BY DEF Rows
  <2>1. RowStands(q, k)
    BY <1>0 DEF Books, Rows
  <2>2. Settles(q, k)' <=> Settles(q, k)
    BY <1>0 DEF Settles
  <2> QED BY <1>0, <1>1, <2>1, <2>2 DEF RowStands
<1>7. Full'
  <2>1. \A q \in Payments : Refunded(q)' = Refunded(q)
    BY <1>0 DEF Refunded
  <2>2. ASSUME Refunded(p) >= Captured(x)
        PROVE  FALSE
    <3>1. CASE Exists(p)
      BY <1>0, <2>2, <3>1 DEF Books, Full, Captured, Exists
    <3>2. CASE ~Exists(p)
      <4>1. Refunded(p) = 0
        BY <1>0, <3>2, NothingBooked DEF Books, Exists
      <4> QED BY <1>2, <2>2, <4>1, PaymentAssumption
    <3> QED BY <3>1, <3>2
  <2> QED BY <1>0, <1>1, <2>1, <2>2 DEF Books, Full
<1>8. Ungranted'
  BY <1>0, <1>1, <1>3 DEF Books, Ungranted
<1>9. Granted' /\ AccessHasPayment'
  <2>1. Granted'
    BY <1>0, <1>3 DEF Books, Granted
  <2>2. AccessHasPayment'
    BY <1>0, <1>1, <1>3 DEF Books, AccessHasPayment, KnowsOrder
  <2> QED BY <2>1, <2>2
<1>10. Lasting
  BY <1>0, <1>1, <1>3 DEF Lasting, KnowsOrder, Captured, Exists
<1> QED BY <1>4, <1>5, <1>6, <1>7, <1>8, <1>9, <1>10 DEF Books

LEMMA DeclineBooks ==
  ASSUME RefundInv, NEW e \in Events, NEW x \in Notice,
         x.amount \in {NoAmount} \cup 1 .. OrderTotal,
         ~Ignorable(x), ~Invalid(e, x), Decline(e, x), op' = op, made' = made
  PROVE  RowTypes' /\ Books' /\ Lasting
<1> DEFINE p == x.payment
<1>0. /\ p \in Payments /\ RowTypes /\ Books /\ AmountFrom(x) \in Amounts
      /\ KnowsOrder(x) \in BOOLEAN /\ fact' = fact
      /\ pay[p] \notin {"succeeded", "refunded"} /\ access' = access /\ grantedBy' = grantedBy
  BY TypeParts, AmountFromType
     DEF RefundInv, Notice, Invalid, KnowsOrder, RowTypes, Decline, Ignorable, entitlement
<1>1. /\ pay' \in [Payments -> PaymentStatus]
      /\ paid' \in [Payments -> Amounts]
      /\ bound' \in [Payments -> BOOLEAN]
      /\ pay'[p] = "failed" /\ paid'[p] = Captured(x) /\ bound'[p] = KnowsOrder(x)
      /\ \A q \in Payments \ {p} :
           pay'[q] = pay[q] /\ paid'[q] = paid[q] /\ bound'[q] = bound[q]
  BY <1>0, PaymentRow DEF Decline, PaymentStatus
<1>2. Captured(x) \in 1 .. OrderTotal
  BY ChargedTotal
<1>4. RowTypes'
  BY <1>0, <1>1 DEF Decline, SetOrder, RowTypes, OrderStatus
<1>5. Charged'
  BY <1>0, <1>1, <1>2 DEF Books, Charged
<1>6. Rows'
  <2> SUFFICES ASSUME NEW q \in Payments, NEW k \in FactIds
               PROVE  RowStands(q, k)'
    BY DEF Rows
  <2>1. RowStands(q, k)
    BY <1>0 DEF Books, Rows
  <2>2. Settles(q, k)' <=> Settles(q, k)
    BY <1>0 DEF Settles
  <2> QED BY <1>0, <1>1, <2>1, <2>2 DEF RowStands
<1>7. Full'
  <2>1. \A q \in Payments : Refunded(q)' = Refunded(q)
    BY <1>0 DEF Refunded
  <2>2. ASSUME Refunded(p) >= Captured(x)
        PROVE  FALSE
    <3>1. CASE Exists(p)
      BY <1>0, <2>2, <3>1 DEF Books, Full, Captured, Exists
    <3>2. CASE ~Exists(p)
      <4>1. Refunded(p) = 0
        BY <1>0, <3>2, NothingBooked DEF Books, Exists
      <4> QED BY <1>2, <2>2, <4>1, PaymentAssumption
    <3> QED BY <3>1, <3>2
  <2> QED BY <1>0, <1>1, <2>1, <2>2 DEF Books, Full
<1>8. Ungranted'
  BY <1>0, <1>1 DEF Books, Ungranted
<1>9. Granted' /\ AccessHasPayment'
  BY <1>0, <1>1 DEF Books, Granted, AccessHasPayment
<1>10. Lasting
  BY <1>0, <1>1 DEF Lasting, KnowsOrder, Captured, Exists
<1> QED BY <1>4, <1>5, <1>6, <1>7, <1>8, <1>9, <1>10 DEF Books

\* A refund event writes one row, beside the one it supersedes.
LEMMA RefundRows ==
  ASSUME RefundInv, NEW e \in Events, NEW x \in Notice,
         ~Ignorable(x), ~Invalid(e, x), Refund(e, x)
  PROVE  /\ RefundId(e, x) \in FactIds
         /\ fact' \in [Payments -> [FactIds -> Fact]]
         /\ fact'[x.payment][RefundId(e, x)] =
              [status |-> "succeeded", amount |-> Applied(x)]
         /\ \A k \in FactIds \ {RefundId(e, x)} :
              fact'[x.payment][k] = Aligned(x)[k]
         /\ \A q \in Payments \ {x.payment} : fact'[q] = fact[q]
<1> DEFINE id == RefundId(e, x)
           row == [status |-> "succeeded", amount |-> Applied(x)]
<1>1. /\ x.payment \in Payments /\ id \in FactIds
      /\ fact \in [Payments -> [FactIds -> Fact]]
      /\ Aligned(x) \in [FactIds -> Fact]
  BY AlignedRows DEF RefundInv, TypeOK, Notice, FactIds, RefundId
<1>2. row \in Fact
  BY AppliedType DEF RefundInv, Refund, Fact, FactStatus
<1>3. fact' = [fact EXCEPT ![x.payment] = [Aligned(x) EXCEPT ![id] = row]]
  BY DEF Refund, RefundId
<1>4. [Aligned(x) EXCEPT ![id] = row] \in [FactIds -> Fact]
  BY <1>1, <1>2
<1> HIDE DEF id, row
<1>5. /\ fact' \in [Payments -> [FactIds -> Fact]]
      /\ fact'[x.payment][id] = row
      /\ \A k \in FactIds \ {id} : fact'[x.payment][k] = Aligned(x)[k]
      /\ \A q \in Payments \ {x.payment} : fact'[q] = fact[q]
  BY <1>1, <1>3, <1>4
<1> QED BY <1>1, <1>5 DEF id, row

\* ... which adds what it books, less what that row held before.
LEMMA RefundAdds ==
  ASSUME RefundInv, NEW e \in Events, NEW x \in Notice,
         ~Ignorable(x), ~Invalid(e, x), Refund(e, x)
  PROVE  /\ Refunded(x.payment)' \in Nat
         /\ Refunded(x.payment)' <= Refunded(x.payment) + Applied(x)
         /\ \A q \in Payments \ {x.payment} : Refunded(q)' = Refunded(q)
<1>0. x.payment \in Payments /\ TypeOK /\ x.type = "payment.refunded"
  BY DEF Notice, RefundInv, Refund
<1> PICK f, g : f = fact[x.payment] /\ g = fact'[x.payment]
  OBVIOUS
<1>1. PICK id \in FactIds :
        /\ f = fact[x.payment] /\ g = fact'[x.payment]
        /\ g[id] = [status |-> "succeeded", amount |-> Applied(x)]
        /\ \A k \in FactIds \ {id} : g[k] = Aligned(x)[k]
        /\ \A q \in Payments \ {x.payment} : fact'[q] = fact[q]
  BY RefundRows
<1>2. \A q \in Payments \ {x.payment} : Refunded(q)' = Refunded(q)
  BY <1>1 DEF Refunded
<1>3. Applied(x) \in Amounts /\ Applied(x) \in Nat /\ Applied(x) # NoAmount
  BY <1>0, AppliedType, MaxAmountAssumption DEF Amounts, NoAmount
<1>4. /\ Refunded(x.payment) = Total(Confirms(f), FactIds)
      /\ Refunded(x.payment) \in Nat
  BY <1>1, SumConfirms DEF Refunded
<1>5. /\ Refunded(x.payment)' = Total(Confirms(g), FactIds)
      /\ Total(Confirms(g), FactIds) \in Nat
  BY <1>1, SumConfirms DEF Refunded
<1>6. /\ Confirms(f)[id] \in Amounts
      /\ Confirms(g)[id] = Applied(x)
      /\ \A k \in FactIds \ {id} : Confirms(g)[k] = Confirms(f)[k]
  <2>1. 0 \in Amounts /\ f[id] \in Fact
    <3>1. f \in [FactIds -> Fact]
      <4>1. fact[x.payment] \in [FactIds -> Fact]
        BY <1>0 DEF TypeOK
      <4> QED BY <1>1, <4>1
    <3> QED BY <1>1, <3>1, MaxAmountAssumption DEF Amounts
  <2>2. Confirms(f)[id] \in Amounts
    BY <2>1 DEF Confirms, Fact
  <2>3. Confirms(g)[id] = Applied(x)
    BY <1>1, <1>3 DEF Confirms
  <2>4. ASSUME NEW k \in FactIds \ {id}
        PROVE  Confirms(g)[k] = Confirms(f)[k]
    <3>1. g[k] = f[k] \/ (g[k].status = "superseded" /\ f[k].status = "pending")
      BY <1>0, <1>1, AlignedRows DEF Supersedes
    <3> QED BY <3>1 DEF Confirms
  <2> QED BY <2>2, <2>3, <2>4
<1>7. Total(Confirms(g), FactIds) + Confirms(f)[id] = Total(Confirms(f), FactIds) + Applied(x)
  BY <1>3, <1>6, FactIdsFinite, TotalChangeOne
<1>8. Confirms(f)[id] \in Nat
  BY <1>6, MaxAmountAssumption DEF Amounts
<1> QED BY <1>2, <1>3, <1>4, <1>5, <1>7, <1>8

LEMMA RefundBooks ==
  ASSUME RefundInv, NEW e \in Events, inbox[e] # "none", NEW x \in Notice, x = notice[e],
         ~Ignorable(x), ~Invalid(e, x), Refund(e, x), op' = op, made' = made
  PROVE  RowTypes' /\ Books' /\ Lasting
<1> DEFINE p == x.payment
           next == IF FullyRefunds(x) THEN "refunded"
                   ELSE IF Exists(p) THEN pay[p] ELSE "succeeded"
<1>0. /\ p \in Payments /\ TypeOK /\ RowTypes /\ Books /\ AmountFrom(x) \in Amounts
      /\ KnowsOrder(x) \in BOOLEAN /\ x.type = "payment.refunded"
      /\ next \in PaymentStatus \ {"none"}
  BY TypeParts, AmountFromType
     DEF RefundInv, Notice, Invalid, KnowsOrder, RowTypes, Refund, PaymentStatus, Exists
<1>1. /\ pay' \in [Payments -> PaymentStatus]
      /\ paid' \in [Payments -> Amounts]
      /\ bound' \in [Payments -> BOOLEAN]
      /\ pay'[p] = next /\ paid'[p] = Captured(x) /\ bound'[p] = KnowsOrder(x)
      /\ \A q \in Payments \ {p} :
           pay'[q] = pay[q] /\ paid'[q] = paid[q] /\ bound'[q] = bound[q]
  <2>1. SetPayment(x, next)
    BY DEF Refund
  <2> HIDE DEF next
  <2> QED BY <1>0, <2>1, PaymentRow
<1>2. /\ RefundId(e, x) \in FactIds
      /\ fact' \in [Payments -> [FactIds -> Fact]]
      /\ fact'[p][RefundId(e, x)] = [status |-> "succeeded", amount |-> Applied(x)]
      /\ \A k \in FactIds \ {RefundId(e, x)} : fact'[p][k] = Aligned(x)[k]
      /\ \A q \in Payments \ {p} : fact'[q] = fact[q]
  BY RefundRows
<1>3. /\ Captured(x) \in Amounts /\ Applied(x) \in Amounts /\ Applied(x) # NoAmount
      /\ grantedBy' = grantedBy
      /\ access' = IF FullyRefunds(x) /\ KnowsOrder(x) /\ access = "active"
                   THEN "revoked" ELSE access
  BY <1>0, AppliedType, MaxAmountAssumption DEF Refund, Amounts, NoAmount
<1>4. Captured(x) \in 1 .. OrderTotal
  BY ChargedTotal DEF RefundInv, Reports
<1>5. RowTypes'
  <2>1. order' \in OrderStatus
    BY <1>0 DEF Refund, SetOrder, RowTypes, OrderStatus
  <2>2. access' \in {"none", "active", "revoked"} /\ grantedBy' \in Events \cup {NoEvent}
    BY <1>0, <1>3 DEF RowTypes
  <2> QED BY <1>1, <1>2, <2>1, <2>2 DEF RowTypes
<1>6. Charged'
  BY <1>0, <1>1, <1>4 DEF Books, Charged
<1>7. Rows'
  <2> SUFFICES ASSUME NEW q \in Payments, NEW k \in FactIds
               PROVE  RowStands(q, k)'
    BY DEF Rows
  <2>1. RowStands(q, k)
    BY <1>0 DEF Books, Rows
  <2>2. \A r \in Payments, i \in FactIds :
          fact'[r][i] = fact[r][i] => (Settles(r, i)' <=> Settles(r, i))
    BY DEF Settles
  <2>3. CASE q # p
    BY <1>1, <1>2, <2>1, <2>2, <2>3 DEF RowStands
  <2>4. CASE q = p /\ k = RefundId(e, x)
    <3>1. /\ fact'[q][k].status = "succeeded" /\ fact'[q][k].amount # NoAmount
          /\ pay'[q] # "none"
      BY <1>0, <1>1, <1>2, <1>3, <2>4
    <3>2. ASSUME k \in Refunds
          PROVE  /\ made'[q][k] > 0
                 /\ made'[q][k] = OrderTotal => pay'[q] = "refunded"
      <4>1. k = x.refund /\ Names(x)
        BY <1>0, <2>4, <3>2, PaymentAssumption DEF RefundId, Names
      <4>2. made[q][k] > 0
        BY <2>4, <4>1 DEF RefundInv, Reports, Reported
      <4>3. made[q][k] = OrderTotal => FullyRefunds(x)
        BY <2>4, <4>1, FullReport
      <4> QED BY <1>1, <2>4, <4>2, <4>3
    <3> QED BY <3>1, <3>2 DEF RowStands
  <2>5. CASE q = p /\ k # RefundId(e, x)
    <3>1. fact'[q][k] = Aligned(x)[k] /\ pay'[q] # "none"
          /\ (pay[q] = "refunded" => pay'[q] = "refunded")
      BY <1>0, <1>1, <1>2, <2>5 DEF Exists
    <3>2. CASE fact'[q][k] = fact[q][k]
      BY <2>1, <2>2, <3>1, <3>2 DEF RowStands
    <3>3. CASE fact'[q][k] # fact[q][k]
      <4>1. k = Synthetic /\ fact'[q][k].status = "superseded"
        BY <1>0, <2>5, <3>1, <3>3, AlignedRows
      <4> QED BY <3>1, <4>1 DEF RowStands
    <3> QED BY <3>2, <3>3
  <2> QED BY <2>3, <2>4, <2>5
<1>8. Full'
  <2>1. /\ Refunded(p)' \in Nat /\ Refunded(p)' <= Refunded(p) + Applied(x)
        /\ \A q \in Payments \ {p} : Refunded(q)' = Refunded(q)
    BY RefundAdds
  <2>2. Sum(Aligned(x), Confirmed(x)) = Refunded(p) /\ Refunded(p) \in Nat
    BY <1>0, ConfirmedRows
  <2>3. Applied(x) \in Nat /\ Captured(x) \in Nat
    BY <1>3, MaxAmountAssumption DEF Amounts
  <2>4. ASSUME Refunded(p)' >= Captured(x)
        PROVE  pay'[p] = "refunded"
    <3>1. Refunded(p) + Applied(x) >= Captured(x)
      <4> HIDE DEF p
      <4> QED BY <2>1, <2>2, <2>3, <2>4
    <3> QED BY <1>1, <2>2, <3>1 DEF FullyRefunds
  <2> QED BY <1>0, <1>1, <2>1, <2>4 DEF Books, Full
<1>9. Ungranted'
  <2> SUFFICES ASSUME NEW q \in Payments, bound'[q], pay'[q] = "succeeded",
                      grantedBy' = NoEvent
               PROVE  \E k \in FactIds : fact'[q][k].status = "succeeded"
    BY DEF Ungranted
  <2>1. CASE q = p
    BY <1>2, <2>1
  <2>2. CASE q # p
    BY <1>0, <1>1, <1>2, <1>3, <2>2 DEF Books, Ungranted
  <2> QED BY <2>1, <2>2
<1>10. Granted' /\ AccessHasPayment'
  <2>1. Granted'
    BY <1>0, <1>3 DEF Books, Granted
  <2>2. ASSUME access' = "active", NEW q \in Payments, bound[q], pay[q] = "succeeded"
        PROVE  bound'[q] /\ pay'[q] = "succeeded"
    <3>1. CASE q # p
      BY <1>1, <2>2, <3>1
    <3>2. CASE q = p
      <4>1. KnowsOrder(x)
        BY <2>2, <3>2 DEF KnowsOrder
      <4>2. ~FullyRefunds(x)
        BY <1>3, <2>2, <4>1
      <4> QED BY <1>1, <2>2, <3>2, <4>1, <4>2 DEF Exists
    <3> QED BY <3>1, <3>2
  <2>3. access' = "active" => access = "active"
    BY <1>3
  <2> QED BY <1>0, <2>1, <2>2, <2>3 DEF Books, AccessHasPayment
<1>11. Lasting
  BY <1>0, <1>1, <1>3 DEF Lasting, KnowsOrder, Captured, Exists
<1> QED BY <1>5, <1>6, <1>7, <1>8, <1>9, <1>10, <1>11 DEF Books

\* An event that is acknowledged without effect may still supersede the row
\* the journal made up.
LEMMA IgnoreBooks ==
  ASSUME RefundInv, NEW w \in Workers, NEW e \in Events, Ignore(w, e), op' = op
  PROVE  RowTypes' /\ Books' /\ Lasting
<1>0. PICK x \in Notice : x = notice[e]
  BY DEF RefundInv, TypeOK, Ignore, Pending
<1>1. /\ TypeOK /\ RowTypes /\ Books /\ x.payment \in Payments
      /\ UNCHANGED <<pay, paid, bound, order, access, grantedBy, made>>
  BY TypeParts DEF RefundInv, Ignore, Notice, payment, entitlement
<1>2. fact' = [fact EXCEPT ![x.payment] = Aligned(x)]
  BY <1>0 DEF Ignore
<1>3. /\ fact' \in [Payments -> [FactIds -> Fact]]
      /\ \A q \in Payments, k \in FactIds :
           \/ fact'[q][k] = fact[q][k]
           \/ /\ k = Synthetic /\ fact'[q][k].status = "superseded"
              /\ fact[q][k].status = "pending"
  <2>1. fact \in [Payments -> [FactIds -> Fact]] /\ Aligned(x) \in [FactIds -> Fact]
    BY <1>1, AlignedRows DEF TypeOK
  <2>2. fact'[x.payment] = Aligned(x) /\ \A q \in Payments \ {x.payment} : fact'[q] = fact[q]
    BY <1>1, <1>2, <2>1
  <2>3. \A k \in FactIds :
           \/ fact'[x.payment][k] = fact[x.payment][k]
           \/ /\ k = Synthetic /\ fact'[x.payment][k].status = "superseded"
              /\ fact[x.payment][k].status = "pending"
    BY <1>1, <2>2, AlignedRows DEF Supersedes
  <2> QED BY <1>1, <1>2, <2>1, <2>2, <2>3
<1>4. RowTypes'
  BY <1>1, <1>3 DEF RowTypes
<1>5. Rows'
  <2> SUFFICES ASSUME NEW q \in Payments, NEW k \in FactIds
               PROVE  RowStands(q, k)'
    BY DEF Rows
  <2>1. RowStands(q, k)
    BY <1>1 DEF Books, Rows
  <2>2. CASE fact'[q][k] = fact[q][k]
    <3>1. Settles(q, k)' <=> Settles(q, k)
      BY <2>2 DEF Settles
    <3> QED BY <1>1, <2>1, <2>2, <3>1 DEF RowStands
  <2>3. CASE fact'[q][k] # fact[q][k]
    BY <1>1, <1>3, <2>1, <2>3 DEF RowStands
  <2> QED BY <2>2, <2>3
<1>6. Full'
  <2>1. ASSUME NEW q \in Payments
        PROVE  Refunded(q)' = Refunded(q)
    <3>1. \A k \in FactIds : Confirms(fact'[q])[k] = Confirms(fact[q])[k]
      <4> SUFFICES ASSUME NEW k \in FactIds
                   PROVE  Confirms(fact'[q])[k] = Confirms(fact[q])[k]
        OBVIOUS
      <4>1. fact'[q][k] = fact[q][k]
              \/ (fact'[q][k].status = "superseded" /\ fact[q][k].status = "pending")
        BY <1>3
      <4> QED BY <4>1 DEF Confirms
    <3>2. Total(Confirms(fact'[q]), FactIds) = Total(Confirms(fact[q]), FactIds)
      BY <3>1, TotalSame
    <3>3. Refunded(q)' = Total(Confirms(fact'[q]), FactIds)
      BY SumConfirms DEF Refunded
    <3> QED BY <3>2, <3>3, SumConfirms DEF Refunded
  <2> QED BY <1>1, <2>1 DEF Books, Full
<1>7. Ungranted'
  <2>1. \A q \in Payments, k \in FactIds :
          fact[q][k].status = "succeeded" => fact'[q][k].status = "succeeded"
    BY <1>3
  <2> QED BY <1>1, <2>1 DEF Books, Ungranted
<1>8. Charged' /\ Granted' /\ AccessHasPayment'
  BY <1>1 DEF Books, Charged, Granted, AccessHasPayment
<1>9. Lasting
  BY <1>1 DEF Lasting
<1> QED BY <1>4, <1>5, <1>6, <1>7, <1>8, <1>9 DEF Books

-------------------------------------------------------------------------------
(* The steps of the webhooks.                                              *)

\* What the provider answered stays.
Keeps ==
  \A p \in Payments, n \in Attempts :
    op[p][n].result # NoAnswer => op'[p][n].result = op[p][n].result

LEMMA StillBooks ==
  ASSUME RefundInv, UNCHANGED <<pay, paid, bound, order, access, grantedBy, fact>>,
         Grows, Keeps
  PROVE  RowTypes' /\ Books' /\ Lasting
<1>0. RowTypes /\ Books
  BY TypeParts DEF RefundInv
<1>1. Rows'
  <2> SUFFICES ASSUME NEW q \in Payments, NEW k \in FactIds
               PROVE  RowStands(q, k)'
    BY DEF Rows
  <2>1. RowStands(q, k)
    BY <1>0 DEF Books, Rows
  <2>2. Settles(q, k) => Settles(q, k)'
    BY DEF Settles, Keeps
  <2> QED BY <2>1, <2>2 DEF RowStands, Grows
<1>2. Charged' /\ Full' /\ Ungranted' /\ Granted' /\ AccessHasPayment' /\ RowTypes'
  BY <1>0 DEF Books, Charged, Full, Refunded, Ungranted, Granted, AccessHasPayment, RowTypes
<1>3. Lasting
  BY DEF Lasting
<1> QED BY <1>1, <1>2, <1>3 DEF Books

\* An answer comes of an attempt that was started.
LEMMA AnswerStarted ==
  ASSUME RefundInv, NEW p \in Payments, NEW n \in Attempts, op[p][n].status # "none"
  PROVE  /\ Started(p) /\ bound[p] /\ pay[p] # "none" /\ grantedBy # NoEvent
         /\ 1 \in Attempts
<1>1. 1 \in Attempts /\ Attempts \subseteq Nat /\ (n # 1 => 1 < n)
  BY JournalAssumption DEF Attempts
<1>2. op[p][1].status # "none"
  BY <1>1 DEF RefundInv, JournalInv, Chain, Refused
<1> QED BY <1>1, <1>2 DEF Started, RefundInv, Starting

LEMMA StatedStays ==
  ASSUME RefundInv, Lasting, Grows, NEW p \in Payments, pay[p] # "none",
         NEW a, Stated(p, a)
  PROVE  Stated(p, a)'
<1>1. paid'[p] = paid[p]
  BY DEF Lasting
<1> QED BY <1>1 DEF Stated, Grows

\* Nothing an event does undoes what the journal completed, and the answers
\* stay true.
LEMMA JournalStays ==
  ASSUME RefundInv, Lasting, Grows, UNCHANGED journal, TypeOK'
  PROVE  JournalTypes' /\ JournalInv' /\ Results' /\ Answers' /\ Starting'
           /\ CompletedRefundHolds'
<1>0. op' = op /\ clerk' = clerk
  BY DEF journal
<1>1. JournalTypes' /\ Results'
  BY <1>0 DEF RefundInv, JournalTypes, Results, Reconcilable
<1>2. JournalInv'
  BY <1>0 DEF RefundInv, JournalInv, Shape, Chain, Told, Creating, Owning, Alone,
              Settling, Refused, At
<1>3. Answers'
  <2>1. ASSUME NEW p \in Payments, NEW n \in Attempts, op'[p][n].result # NoAnswer
        PROVE  Stated(p, op[p][n].result)'
    <3>1. op[p][n].status # "none" /\ Stated(p, op[p][n].result)
      BY <1>0, <2>1 DEF RefundInv, Results, Reconcilable, Answers
    <3>2. pay[p] # "none"
      BY <3>1, AnswerStarted
    <3>3. PICK a : a = op[p][n].result
      OBVIOUS
    <3>4. Stated(p, a)'
      BY <3>1, <3>2, <3>3, StatedStays
    <3> QED BY <1>0, <3>3, <3>4 DEF Stated
  <2>2. ASSUME NEW c \in Clerks, NEW p \in Payments, NEW n \in Attempts,
               At(c, "answered", p, n)'
        PROVE  clerk'[c].answer # NoAnswer /\ Stated(p, clerk[c].answer)'
    <3>1. At(c, "answered", p, n)
      BY <1>0, <2>2 DEF At
    <3>2. op[p][n].status # "none"
      BY <3>1 DEF RefundInv, JournalInv, Owning, Telling
    <3>3. pay[p] # "none"
      BY <3>2, AnswerStarted
    <3>4. PICK a : a = clerk[c].answer
      OBVIOUS
    <3>5. a # NoAnswer /\ Stated(p, a)
      BY <3>1, <3>4 DEF RefundInv, Answers
    <3>6. Stated(p, a)'
      BY <3>3, <3>5, StatedStays
    <3> QED BY <1>0, <3>4, <3>5, <3>6 DEF Stated
  <2> QED BY <2>1, <2>2 DEF Answers
<1>4. Starting'
  <2> SUFFICES ASSUME NEW p \in Payments, Started(p)'
               PROVE  bound'[p] /\ pay'[p] # "none" /\ grantedBy' # NoEvent
    BY DEF Starting
  <2>1. Started(p)
    BY <1>0 DEF Started, At
  <2>2. bound[p] /\ pay[p] # "none" /\ grantedBy # NoEvent
    BY <2>1 DEF RefundInv, Starting
  <2> QED BY <2>2 DEF Lasting
<1>5. CompletedRefundHolds'
  <2> SUFFICES ASSUME NEW p \in Payments, NEW n \in Attempts,
                      op'[p][n].status = "completed", op'[p][n].result.status = "succeeded"
               PROVE  pay'[p] = "refunded" /\ access' # "active"
    BY DEF CompletedRefundHolds
  <2>1. pay[p] = "refunded" /\ access # "active"
    BY <1>0 DEF RefundInv, CompletedRefundHolds
  <2>2. grantedBy # NoEvent
    BY <1>0, AnswerStarted
  <2> QED BY <2>1, <2>2 DEF Lasting
<1> QED BY <1>1, <1>2, <1>3, <1>4, <1>5

\* An event that has settled stays true to its notice; one that settles now
\* closes the payment when it reports a refund of everything.
LEMMA ReportsClose ==
  ASSUME RefundInv, Next, Lasting
  PROVE  ReportedRefundCloses'
<1> SUFFICES ASSUME NEW e \in Events, Settled(e)',
                    notice'[e].type = "payment.refunded", Complete(e)',
                    made'[notice'[e].payment][notice'[e].refund] = OrderTotal
             PROVE  pay'[notice'[e].payment] = "refunded"
  BY DEF ReportedRefundCloses
<1>0. /\ TypeOK /\ OrderTotal \in Nat \ {0}
      /\ Grows /\ \A d \in Events : inbox[d] # "none" => notice'[d] = notice[d]
  BY NoticesKept, PaymentAssumption DEF RefundInv
<1>1. ASSUME inbox[e] # "none"
      PROVE  /\ notice'[e] = notice[e] /\ notice[e] \in Notice
             /\ notice[e].payment \in Payments /\ Names(notice[e])
             /\ made[notice[e].payment][notice[e].refund] = OrderTotal
  <2>1. notice'[e] = notice[e] /\ notice[e] \in Notice
    BY <1>0, <1>1 DEF TypeOK
  <2>2. Names(notice[e]) /\ notice[e].payment \in Payments /\ notice[e].refund \in Refunds
    BY <2>1 DEF Names, Complete, Notice
  <2>3. made[notice[e].payment][notice[e].refund] > 0
    BY <1>1, <2>2 DEF RefundInv, Reports, Reported
  <2> QED BY <1>0, <2>1, <2>2, <2>3 DEF Grows
<1>2. CASE Settled(e)
  <2>1. inbox[e] # "none"
    BY <1>2 DEF Settled
  <2>2. pay[notice[e].payment] = "refunded"
    BY <1>1, <1>2, <2>1 DEF RefundInv, ReportedRefundCloses, Complete
  <2> QED BY <1>1, <2>1, <2>2 DEF Lasting
<1>3. CASE ~Settled(e)
  <2>1. PICK w \in Workers : Apply(w, e) \/ Ignore(w, e)
    <3>1. PICK w \in Workers :
            (\E d \in Events : Arrive(w, d) \/ Handle(w, d) \/ Abort(w, d)) \/ Crash(w)
      BY DEF Next
    <3>2. inbox'[e] # inbox[e] /\ inbox'[e] \in {"processed", "ignored"}
      BY <1>3 DEF Settled
    <3>3. ~Crash(w)
      BY <3>2 DEF Crash
    <3>4. PICK d \in Events : Arrive(w, d) \/ Handle(w, d) \/ Abort(w, d)
      BY <3>1, <3>3
    <3>5. ~Arrive(w, d) /\ ~Abort(w, d)
      BY <1>0, <3>2 DEF Arrive, ReceivePayment, ReceiveRefund, Receive, Redeliver, Abort, TypeOK
    <3>6. Apply(w, d) \/ Ignore(w, d)
      BY <1>0, <3>2, <3>4, <3>5 DEF Handle, Replay, Reject, MarkFailed, Publish, TypeOK
    <3>7. d = e
      BY <1>0, <3>2, <3>6 DEF Apply, Ignore, TypeOK
    <3> QED BY <3>6, <3>7
  <2>2. PICK x : x = notice[e]
    OBVIOUS
  <2>3. inbox[e] # "none" /\ ~Invalid(e, x)
    BY <2>1, <2>2 DEF Apply, Ignore, Pending
  <2>4. /\ x \in Notice /\ Names(x) /\ x.payment \in Payments
        /\ made[x.payment][x.refund] = OrderTotal /\ notice'[e] = x
    BY <1>1, <2>2, <2>3
  <2>5. /\ ~Ignorable(x) => FullyRefunds(x)
        /\ Ignorable(x) => pay[x.payment] = "refunded"
    BY <2>2, <2>3, <2>4, FullReport
  <2>6. CASE Ignore(w, e)
    <3>1. pay[x.payment] = "refunded"
      BY <2>2, <2>5, <2>6 DEF Ignore
    <3> QED BY <2>4, <3>1 DEF Lasting
  <2>7. CASE Apply(w, e)
    <3>1. FullyRefunds(x)
      BY <2>2, <2>5, <2>7 DEF Apply
    <3>2. Refund(e, x)
      BY <2>2, <2>4, <2>7 DEF Apply, Succeed, Decline, Names
    <3>3. pay' = [pay EXCEPT ![x.payment] = "refunded"]
      BY <3>1, <3>2 DEF Refund, SetPayment
    <3> QED BY <1>0, <2>4, <3>3 DEF TypeOK
  <2> QED BY <2>1, <2>6, <2>7
<1> QED BY <1>2, <1>3

LEMMA WebhooksKeep ==
  ASSUME RefundInv, WebhookStep
  PROVE  RefundInv'
<1>0. /\ TypeOK /\ Working /\ Next /\ UNCHANGED journal /\ op' = op
  BY DEF RefundInv, WebhookStep, journal
<1>1. InboxTypes' /\ RequestTypes' /\ Working'
  BY <1>0, InboxAndRequestTypes, WorkingStep
<1>2. Grows /\ Reports' /\ Spent'
  BY <1>0, NoticesKept DEF RefundInv
<1>3. RowTypes' /\ Books' /\ Lasting
  <2>1. CASE \E w \in Workers, e \in Events : Apply(w, e)
    <3>1. PICK w \in Workers, e \in Events : Apply(w, e)
      BY <2>1
    <3>2. PICK x : x = notice[e]
      OBVIOUS
    <3>3. inbox[e] # "none" /\ x \in Notice /\ ~Ignorable(x) /\ ~Invalid(e, x) /\ made' = made
      BY <1>0, <3>1, <3>2 DEF Apply, Pending, TypeOK
    <3>4. x.amount \in {NoAmount} \cup 1 .. OrderTotal
      BY <3>2, <3>3 DEF RefundInv, Reports
    <3>5. Succeed(e, x) \/ Decline(e, x) \/ Refund(e, x)
      BY <3>1, <3>2 DEF Apply
    <3> QED BY <1>0, <3>2, <3>3, <3>4, <3>5, SucceedBooks, DeclineBooks, RefundBooks
  <2>2. CASE \E w \in Workers, e \in Events : Ignore(w, e)
    BY <1>0, <2>2, IgnoreBooks
  <2>3. CASE ~ \E w \in Workers, e \in Events : Apply(w, e) \/ Ignore(w, e)
    <3>1. UNCHANGED commerce
      <4>1. PICK w \in Workers :
              (\E e \in Events : Arrive(w, e) \/ Handle(w, e) \/ Abort(w, e)) \/ Crash(w)
        BY <1>0 DEF Next
      <4>2. CASE Crash(w)
        BY <4>2 DEF Crash
      <4>3. ASSUME NEW e \in Events, Arrive(w, e)
            PROVE  UNCHANGED commerce
        BY <4>3 DEF Arrive, ReceivePayment, ReceiveRefund, Receive, Redeliver
      <4>4. ASSUME NEW e \in Events, Handle(w, e) \/ Abort(w, e)
            PROVE  UNCHANGED commerce
        BY <2>3, <4>4 DEF Handle, Replay, Reject, MarkFailed, Publish, Abort
      <4> QED BY <4>1, <4>2, <4>3, <4>4
    <3>2. UNCHANGED <<pay, paid, bound, order, access, grantedBy, fact>>
      BY <3>1 DEF commerce, payment, entitlement
    <3>3. Keeps
      BY <1>0 DEF Keeps
    <3> QED BY <1>2, <3>2, <3>3, StillBooks
  <2> QED BY <2>1, <2>2, <2>3
<1>4. TypeOK'
  BY <1>1, <1>3 DEF TypeOK, RowTypes, InboxTypes, RequestTypes, Stages
<1>5. /\ JournalTypes' /\ JournalInv' /\ Results' /\ Answers' /\ Starting'
      /\ CompletedRefundHolds'
  BY <1>0, <1>2, <1>3, <1>4, JournalStays
<1>6. ReportedRefundCloses'
  BY <1>0, <1>3, ReportsClose
<1> QED BY <1>1, <1>2, <1>3, <1>4, <1>5, <1>6 DEF RefundInv

-------------------------------------------------------------------------------
(* The steps of the clerks.                                                *)

JournalParts ==
  JournalTypes /\ Results /\ Answers /\ Starting /\ CompletedRefundHolds

LEMMA OperationsAre ==
  ASSUME JournalTypes
  PROVE  /\ \A p \in Payments, n \in Attempts : op[p][n] \in Operation
         /\ \A c \in Clerks : clerk[c] = Idle \/ clerk[c] \in Errand
         /\ \A c \in Clerks : \A at, p, n :
              At(c, at, p, n) => clerk[c] \in Errand /\ clerk[c].answer \in Answer \cup {NoAnswer}
<1>1. /\ op \in [Payments -> [Attempts -> Operation]]
      /\ clerk \in [Clerks -> {Idle} \cup Errand]
  BY DEF JournalTypes
<1>2. \A c \in Clerks : clerk[c] = Idle \/ clerk[c] \in Errand
  BY <1>1
<1>3. \A e \in Errand : e.answer \in Answer \cup {NoAnswer}
  BY DEF Errand
<1> QED BY <1>1, <1>2, <1>3 DEF At

\* What an answer stated stays so.
LEMMA AllStatedStay ==
  ASSUME RefundInv, Lasting, Grows
  PROVE  \A p \in Payments, n \in Attempts : op[p][n].status # "none"
           => \A a : Stated(p, a) => Stated(p, a)'
<1> SUFFICES ASSUME NEW p \in Payments, NEW n \in Attempts, op[p][n].status # "none",
                    NEW a, Stated(p, a)
             PROVE  Stated(p, a)'
  OBVIOUS
<1>1. pay[p] # "none"
  BY AnswerStarted
<1> QED BY <1>1, StatedStays

\* A clerk goes on: it begins an attempt on a payment that gave access, and
\* holds an answer that is true.
LEMMA MoveRefunds ==
  ASSUME RefundInv, Lasting, Grows, NEW c \in Clerks, NEW p \in Payments, NEW n \in Attempts,
         NEW at \in {"create", "call", "answered", "rejected", "outcome_uncertain",
                     "reconcile", "settle", "stuck"},
         NEW answer \in Answer \cup {NoAnswer},
         Move(c, at, p, n, answer), op' = op,
         at = "create" => bound[p] /\ pay[p] # "none" /\ grantedBy # NoEvent,
         at = "answered" => answer # NoAnswer /\ Stated(p, answer)'
  PROVE  JournalParts' /\ Keeps
<1>0. JournalTypes /\ Results /\ Answers /\ Starting /\ CompletedRefundHolds /\ JournalInv
  BY DEF RefundInv
<1>1. \A d \in Clerks : \A to, q, m :
        At(d, to, q, m)' <=> IF d = c THEN to = at /\ q = p /\ m = n ELSE At(d, to, q, m)
  BY <1>0, Moved DEF JournalInv
<1>2. clerk'[c].answer = answer /\ \A d \in Clerks \ {c} : clerk'[d] = clerk[d]
  BY <1>0 DEF JournalTypes, Move
<1>3. JournalTypes'
  <2>1. [at |-> at, payment |-> p, attempt |-> n, answer |-> answer] \in Errand
    BY DEF Errand
  <2> QED BY <1>0, <2>1 DEF JournalTypes, Move
<1>4. Results' /\ Keeps
  BY <1>0 DEF Results, Reconcilable, Keeps
<1>5. Answers'
  <2>1. ASSUME NEW q \in Payments, NEW m \in Attempts, op'[q][m].result # NoAnswer
        PROVE  Stated(q, op[q][m].result)'
    <3>1. PICK a : a = op[q][m].result
      OBVIOUS
    <3>2. Stated(q, a) /\ op[q][m].status # "none"
      BY <1>0, <2>1, <3>1 DEF Answers, Results, Reconcilable
    <3>3. Stated(q, a)'
      BY <3>2, AllStatedStay
    <3> QED BY <3>1, <3>3 DEF Stated
  <2>2. ASSUME NEW d \in Clerks, NEW q \in Payments, NEW m \in Attempts,
               At(d, "answered", q, m)'
        PROVE  clerk'[d].answer # NoAnswer /\ Stated(q, clerk[d].answer)'
    <3>1. CASE d = c
      <4>1. at = "answered" /\ q = p
        BY <1>1, <2>2, <3>1
      <4> QED BY <1>2, <3>1, <4>1 DEF Stated
    <3>2. CASE d # c
      <4>1. At(d, "answered", q, m)
        BY <1>1, <2>2, <3>2
      <4>2. PICK a : a = clerk[d].answer
        OBVIOUS
      <4>3. a # NoAnswer /\ Stated(q, a)
        BY <1>0, <4>1, <4>2 DEF Answers
      <4>4. op[q][m].status # "none"
        BY <1>0, <4>1 DEF JournalInv, Owning, Telling
      <4>5. Stated(q, a)'
        BY <4>3, <4>4, AllStatedStay
      <4> QED BY <1>2, <3>2, <4>2, <4>3, <4>5 DEF Stated
    <3> QED BY <3>1, <3>2
  <2> QED BY <2>1, <2>2 DEF Answers
<1>6. Starting'
  <2> SUFFICES ASSUME NEW q \in Payments, Started(q)'
               PROVE  bound'[q] /\ pay'[q] # "none" /\ grantedBy' # NoEvent
    BY DEF Starting
  <2>1. Started(q) \/ (q = p /\ at = "create")
    BY <1>1 DEF Started
  <2>2. bound[q] /\ pay[q] # "none" /\ grantedBy # NoEvent
    BY <1>0, <2>1 DEF Starting
  <2> QED BY <2>2 DEF Lasting
<1>7. CompletedRefundHolds'
  <2> SUFFICES ASSUME NEW q \in Payments, NEW m \in Attempts,
                      op[q][m].status = "completed", op[q][m].result.status = "succeeded"
               PROVE  pay'[q] = "refunded" /\ access' # "active"
    BY DEF CompletedRefundHolds
  <2>1. pay[q] = "refunded" /\ access # "active"
    BY <1>0 DEF CompletedRefundHolds
  <2>2. grantedBy # NoEvent
    BY AnswerStarted
  <2> QED BY <2>1, <2>2 DEF Lasting
<1> QED BY <1>3, <1>4, <1>5, <1>6, <1>7 DEF JournalParts

LEMMA LeaveRefunds ==
  ASSUME RefundInv, Lasting, Grows, NEW c \in Clerks, Leave(c), op' = op
  PROVE  JournalParts' /\ Keeps
<1>0. JournalTypes /\ Results /\ Answers /\ Starting /\ CompletedRefundHolds /\ JournalInv
  BY DEF RefundInv
<1>1. \A d \in Clerks : \A to, q, m : At(d, to, q, m)' <=> d # c /\ At(d, to, q, m)
  BY <1>0, Left DEF JournalInv
<1>2. \A d \in Clerks \ {c} : clerk'[d] = clerk[d]
  BY <1>0 DEF JournalTypes, Leave
<1>3. JournalTypes'
  BY <1>0 DEF JournalTypes, Leave
<1>4. Results' /\ Keeps
  BY <1>0 DEF Results, Reconcilable, Keeps
<1>5. Answers'
  <2>1. ASSUME NEW q \in Payments, NEW m \in Attempts, op'[q][m].result # NoAnswer
        PROVE  Stated(q, op[q][m].result)'
    <3>1. PICK a : a = op[q][m].result
      OBVIOUS
    <3>2. Stated(q, a) /\ op[q][m].status # "none"
      BY <1>0, <2>1, <3>1 DEF Answers, Results, Reconcilable
    <3>3. Stated(q, a)'
      BY <3>2, AllStatedStay
    <3> QED BY <3>1, <3>3 DEF Stated
  <2>2. ASSUME NEW d \in Clerks, NEW q \in Payments, NEW m \in Attempts,
               At(d, "answered", q, m)'
        PROVE  clerk'[d].answer # NoAnswer /\ Stated(q, clerk[d].answer)'
    <3>1. d # c /\ At(d, "answered", q, m)
      BY <1>1, <2>2
    <3>2. PICK a : a = clerk[d].answer
      OBVIOUS
    <3>3. a # NoAnswer /\ Stated(q, a)
      BY <1>0, <3>1, <3>2 DEF Answers
    <3>4. op[q][m].status # "none"
      BY <1>0, <3>1 DEF JournalInv, Owning, Telling
    <3>5. Stated(q, a)'
      BY <3>3, <3>4, AllStatedStay
    <3> QED BY <1>2, <3>1, <3>2, <3>3, <3>5 DEF Stated
  <2> QED BY <2>1, <2>2 DEF Answers
<1>6. Starting'
  <2> SUFFICES ASSUME NEW q \in Payments, Started(q)'
               PROVE  bound'[q] /\ pay'[q] # "none" /\ grantedBy' # NoEvent
    BY DEF Starting
  <2>1. Started(q)
    BY <1>1 DEF Started
  <2>2. bound[q] /\ pay[q] # "none" /\ grantedBy # NoEvent
    BY <1>0, <2>1 DEF Starting
  <2> QED BY <2>2 DEF Lasting
<1>7. CompletedRefundHolds'
  <2> SUFFICES ASSUME NEW q \in Payments, NEW m \in Attempts,
                      op[q][m].status = "completed", op[q][m].result.status = "succeeded"
               PROVE  pay'[q] = "refunded" /\ access' # "active"
    BY DEF CompletedRefundHolds
  <2>1. pay[q] = "refunded" /\ access # "active"
    BY <1>0 DEF CompletedRefundHolds
  <2>2. grantedBy # NoEvent
    BY AnswerStarted
  <2> QED BY <2>1, <2>2 DEF Lasting
<1> QED BY <1>3, <1>4, <1>5, <1>6, <1>7 DEF JournalParts

\* A clerk writes the row of an attempt that was started.
LEMMA WriteRefunds ==
  ASSUME RefundInv, Lasting, Grows, NEW c \in Clerks, NEW p \in Payments, NEW n \in Attempts,
         NEW row \in Operation, Write(p, n, row),
         Leave(c) \/ \E at \in {"call", "reconcile"} : Move(c, at, p, n, NoAnswer),
         Started(p),
         row.status = "failed" <=> row.failure # "none",
         row.status \in {"provider_succeeded", "needs_reconciliation", "completed"}
           <=> row.result # NoAnswer,
         op[p][n].result # NoAnswer => row.result = op[p][n].result,
         row.result # NoAnswer => op[p][n].status # "none" /\ Stated(p, row.result),
         row.status = "completed" /\ row.result.status = "succeeded"
           => pay'[p] = "refunded" /\ access' # "active"
  PROVE  JournalParts' /\ Keeps
<1>0. /\ JournalTypes /\ Results /\ Answers /\ Starting /\ CompletedRefundHolds /\ JournalInv
      /\ grantedBy # NoEvent
  BY DEF RefundInv, Starting
<1>1. /\ op'[p][n] = row
      /\ \A q \in Payments, m \in Attempts : q # p \/ m # n => op'[q][m] = op[q][m]
  BY <1>0, Written DEF JournalInv
<1>2. \A d \in Clerks : \A q, m :
        /\ At(d, "answered", q, m)' => d # c /\ At(d, "answered", q, m)
        /\ At(d, "create", q, m)' => At(d, "create", q, m)
  BY <1>0, Left, Moved DEF JournalInv
<1>3. \A d \in Clerks \ {c} : clerk'[d] = clerk[d]
  BY <1>0 DEF JournalTypes, Leave, Move
<1>4. JournalTypes'
  <2>1. clerk' \in [Clerks -> {Idle} \cup Errand]
    <3>1. \A at \in {"call", "reconcile"} :
            [at |-> at, payment |-> p, attempt |-> n, answer |-> NoAnswer] \in Errand
      BY DEF Errand
    <3> QED BY <1>0, <3>1 DEF JournalTypes, Leave, Move
  <2>2. op' \in [Payments -> [Attempts -> Operation]]
    <3>1. op \in [Payments -> [Attempts -> Operation]]
      BY <1>0 DEF JournalTypes
    <3>2. [op[p] EXCEPT ![n] = row] \in [Attempts -> Operation]
      BY <3>1
    <3> QED BY <3>1, <3>2 DEF Write
  <2> QED BY <2>1, <2>2 DEF JournalTypes
<1>5. Keeps
  BY <1>1 DEF Keeps
<1>6. Results'
  <2> SUFFICES ASSUME NEW q \in Payments, NEW m \in Attempts
               PROVE  /\ op'[q][m].status = "failed" <=> op'[q][m].failure # "none"
                      /\ op'[q][m].status
                           \in {"provider_succeeded", "needs_reconciliation", "completed"}
                           <=> op'[q][m].result # NoAnswer
    BY DEF Results, Reconcilable
  <2>1. CASE q = p /\ m = n
    BY <1>1, <2>1
  <2>2. CASE q # p \/ m # n
    <3>1. op'[q][m] = op[q][m]
      BY <1>1, <2>2
    <3> QED BY <1>0, <3>1 DEF Results, Reconcilable
  <2> QED BY <2>1, <2>2
<1>7. Answers'
  <2>1. ASSUME NEW q \in Payments, NEW m \in Attempts, op'[q][m].result # NoAnswer
        PROVE  Stated(q, op[q][m].result)'
    <3>1. PICK a : a = op'[q][m].result
      OBVIOUS
    <3>2. Stated(q, a) /\ op[q][m].status # "none"
      <4>1. CASE q = p /\ m = n
        BY <1>1, <2>1, <3>1, <4>1
      <4>2. CASE q # p \/ m # n
        <5>1. op'[q][m] = op[q][m]
          BY <1>1, <4>2
        <5> QED BY <1>0, <2>1, <3>1, <5>1 DEF Answers, Results, Reconcilable
      <4> QED BY <4>1, <4>2
    <3>3. Stated(q, a)'
      BY <3>2, AllStatedStay
    <3> QED BY <3>1, <3>3 DEF Stated
  <2>2. ASSUME NEW d \in Clerks, NEW q \in Payments, NEW m \in Attempts,
               At(d, "answered", q, m)'
        PROVE  clerk'[d].answer # NoAnswer /\ Stated(q, clerk[d].answer)'
    <3>1. d # c /\ At(d, "answered", q, m)
      BY <1>2, <2>2
    <3>2. PICK a : a = clerk[d].answer
      OBVIOUS
    <3>3. a # NoAnswer /\ Stated(q, a)
      BY <1>0, <3>1, <3>2 DEF Answers
    <3>4. op[q][m].status # "none"
      BY <1>0, <3>1 DEF JournalInv, Owning, Telling
    <3>5. Stated(q, a)'
      BY <3>3, <3>4, AllStatedStay
    <3> QED BY <1>3, <3>1, <3>2, <3>3, <3>5 DEF Stated
  <2> QED BY <2>1, <2>2 DEF Answers
<1>8. Starting'
  <2> SUFFICES ASSUME NEW q \in Payments, Started(q)'
               PROVE  bound'[q] /\ pay'[q] # "none" /\ grantedBy' # NoEvent
    BY DEF Starting
  <2>1. 1 \in Attempts
    BY JournalAssumption DEF Attempts
  <2>2. Started(q)
    BY <1>1, <1>2, <2>1 DEF Started
  <2>3. bound[q] /\ pay[q] # "none" /\ grantedBy # NoEvent
    BY <1>0, <2>2 DEF Starting
  <2> QED BY <2>3 DEF Lasting
<1>9. CompletedRefundHolds'
  <2> SUFFICES ASSUME NEW q \in Payments, NEW m \in Attempts,
                      op'[q][m].status = "completed", op'[q][m].result.status = "succeeded"
               PROVE  pay'[q] = "refunded" /\ access' # "active"
    BY DEF CompletedRefundHolds
  <2>1. CASE q = p /\ m = n
    BY <1>1, <2>1
  <2>2. CASE q # p \/ m # n
    <3>1. op'[q][m] = op[q][m]
      BY <1>1, <2>2
    <3>2. pay[q] = "refunded" /\ access # "active"
      BY <1>0, <3>1 DEF CompletedRefundHolds
    <3> QED BY <1>0, <3>2 DEF Lasting
  <2> QED BY <2>1, <2>2
<1> QED BY <1>4, <1>5, <1>6, <1>7, <1>8, <1>9 DEF JournalParts

\* The transaction of a settlement: one row says what the answer said, and a
\* refund that succeeded closes the payment and takes the access.
LEMMA SettleBooks ==
  ASSUME RefundInv, NEW c \in Clerks, NEW p \in Payments, NEW n \in Attempts, Settle(c, p, n)
  PROVE  /\ RowTypes' /\ Books' /\ Lasting /\ Grows
         /\ op[p][n].result \in Answer
         /\ op[p][n].result.status = "succeeded" => pay'[p] = "refunded" /\ access' # "active"
<1>0. /\ TypeOK /\ JournalTypes /\ JournalInv /\ Results /\ Answers /\ RowTypes /\ Books
      /\ At(c, "settle", p, n)
  BY TypeParts DEF RefundInv, Settle
<1>1. /\ op[p][n].status \in {"provider_succeeded", "needs_reconciliation", "completed"}
      /\ op[p][n].result # NoAnswer
  BY <1>0 DEF JournalInv, Settling, Results, Reconcilable
<1>2. PICK a : a = op[p][n].result
  OBVIOUS
<1>3. a \in Answer /\ Stated(p, a)
  <2>1. op[p][n] \in Operation
    BY <1>0, OperationsAre
  <2> QED BY <1>0, <1>1, <1>2, <2>1 DEF Operation, Answers
<1>4. bound[p] /\ pay[p] # "none" /\ grantedBy # NoEvent
  BY <1>1, AnswerStarted
<1>5. PICK k \in FactIds : k = a.refund
  BY <1>3 DEF Answer, FactIds
<1>6. PICK row : row = [status |-> a.status, amount |-> a.amount]
  OBVIOUS
<1>7. /\ row \in Fact /\ row.status = a.status /\ row.amount = a.amount
      /\ a.status \in {"pending", "succeeded", "failed"}
  BY <1>3, <1>6 DEF Answer, Fact, FactStatus
<1>8. /\ fact' = [fact EXCEPT ![p][k] = row]
      /\ pay' = IF a.status = "succeeded" THEN [pay EXCEPT ![p] = "refunded"] ELSE pay
      /\ access' = IF a.status = "succeeded" /\ access = "active" THEN "revoked" ELSE access
      /\ Write(p, n, [op[p][n] EXCEPT !.status = "completed"])
      /\ UNCHANGED <<paid, bound, grantedBy, made>>
      /\ order' \in {order, "refunded"}
  BY <1>2, <1>4, <1>5, <1>6 DEF Settle
<1>9. /\ fact' \in [Payments -> [FactIds -> Fact]] /\ fact'[p][k] = row
      /\ \A i \in FactIds \ {k} : fact'[p][i] = fact[p][i]
      /\ \A q \in Payments \ {p} : fact'[q] = fact[q]
  <2>1. fact \in [Payments -> [FactIds -> Fact]]
    BY <1>0 DEF TypeOK
  <2>2. [fact[p] EXCEPT ![k] = row] \in [FactIds -> Fact]
    BY <1>7, <2>1
  <2>3. fact' = [fact EXCEPT ![p] = [fact[p] EXCEPT ![k] = row]]
    BY <1>8, <2>1
  <2> QED BY <2>1, <2>2, <2>3
<1>10. /\ a.status = "succeeded" => pay'[p] = "refunded" /\ access' # "active"
       /\ pay'[p] # "none" /\ pay'[p] \in {pay[p], "refunded"}
       /\ \A q \in Payments \ {p} : pay'[q] = pay[q]
       /\ a.status # "succeeded" => pay' = pay
  BY <1>0, <1>4, <1>8 DEF TypeOK
<1>11. RowTypes'
  <2>1. pay' \in [Payments -> PaymentStatus] /\ access' \in {"none", "active", "revoked"}
    BY <1>0, <1>8 DEF RowTypes, PaymentStatus
  <2>2. order' \in OrderStatus
    BY <1>0, <1>8 DEF RowTypes, OrderStatus
  <2> QED BY <1>0, <1>8, <1>9, <2>1, <2>2 DEF RowTypes
<1>12. Keeps /\ op'[p][n].result = a
  <2>1. /\ op'[p][n] = [op[p][n] EXCEPT !.status = "completed"]
        /\ \A q \in Payments, m \in Attempts : q # p \/ m # n => op'[q][m] = op[q][m]
    BY <1>0, <1>8, Written DEF JournalInv
  <2>2. op[p][n] \in Operation
    BY <1>0, OperationsAre
  <2>3. op'[p][n].result = a
    BY <1>2, <2>1, <2>2 DEF Operation
  <2> QED BY <1>2, <2>1, <2>3 DEF Keeps
<1>13. Rows'
  <2> SUFFICES ASSUME NEW q \in Payments, NEW i \in FactIds
               PROVE  RowStands(q, i)'
    BY DEF Rows
  <2>1. CASE q = p /\ i = k
    <3>1. a.status \in {"pending", "failed"} => Settles(q, i)'
      BY <1>1, <1>2, <1>5, <1>7, <1>9, <1>12, <2>1 DEF Settles
    <3>2. a.status # "failed" /\ i \in Refunds => made'[q][i] > 0
      BY <1>3, <1>5, <1>8, <2>1, PaymentAssumption DEF Stated
    <3> QED BY <1>7, <1>9, <1>10, <2>1, <3>1, <3>2 DEF RowStands
  <2>2. CASE ~(q = p /\ i = k)
    <3>1. fact'[q][i] = fact[q][i] /\ RowStands(q, i)
      BY <1>0, <1>9, <2>2 DEF Books, Rows
    <3>2. Settles(q, i) => Settles(q, i)'
      BY <1>12, <3>1 DEF Settles, Keeps
    <3> QED BY <1>8, <1>10, <3>1, <3>2 DEF RowStands
  <2> QED BY <2>1, <2>2
<1>14. Full'
  <2>1. \A q \in Payments \ {p} : Refunded(q)' = Refunded(q)
    BY <1>9 DEF Refunded
  <2>2. ASSUME a.status # "succeeded"
        PROVE  Refunded(p)' <= Refunded(p) /\ Refunded(p)' \in Nat /\ Refunded(p) \in Nat
    <3> PICK f, g : f = fact[p] /\ g = fact'[p]
      OBVIOUS
    <3>1. /\ Refunded(p) = Total(Confirms(f), FactIds) /\ Refunded(p) \in Nat
          /\ Refunded(p)' = Total(Confirms(g), FactIds) /\ Refunded(p)' \in Nat
      BY SumConfirms DEF Refunded
    <3>2. /\ Confirms(f)[k] \in Amounts /\ Confirms(g)[k] = 0 /\ 0 \in Amounts
          /\ \A i \in FactIds \ {k} : Confirms(g)[i] = Confirms(f)[i]
      <4>1. f \in [FactIds -> Fact]
        <5>1. fact[p] \in [FactIds -> Fact]
          BY <1>0 DEF TypeOK
        <5> QED BY <5>1
      <4>2. f[k] \in Fact /\ 0 \in Amounts
        BY <4>1, MaxAmountAssumption DEF Amounts
      <4>3. Confirms(f)[k] \in Amounts
        BY <4>2 DEF Confirms, Fact
      <4>4. Confirms(g)[k] = 0
        BY <1>7, <1>9, <2>2 DEF Confirms
      <4>5. \A i \in FactIds \ {k} : Confirms(g)[i] = Confirms(f)[i]
        BY <1>9 DEF Confirms
      <4> QED BY <4>2, <4>3, <4>4, <4>5
    <3>3. Total(Confirms(g), FactIds) + Confirms(f)[k] = Total(Confirms(f), FactIds) + 0
      BY <3>2, FactIdsFinite, TotalChangeOne
    <3>4. Confirms(f)[k] \in Nat
      BY <3>2, MaxAmountAssumption DEF Amounts
    <3> QED BY <3>1, <3>3, <3>4
  <2>3. ASSUME a.status # "succeeded", Refunded(p)' >= paid[p]
        PROVE  pay[p] = "refunded"
    <3>1. paid[p] \in Nat
      BY <1>0, MaxAmountAssumption DEF RowTypes, Amounts
    <3>2. Refunded(p) >= paid[p]
      BY <2>2, <2>3, <3>1
    <3> QED BY <1>0, <1>4, <3>2 DEF Books, Full
  <2> QED BY <1>0, <1>8, <1>10, <2>1, <2>3 DEF Books, Full
<1>15. Charged'
  BY <1>0, <1>4, <1>8, <1>10 DEF Books, Charged
<1>16. Ungranted' /\ Granted'
  BY <1>0, <1>4, <1>8 DEF Books, Ungranted, Granted
<1>17. AccessHasPayment'
  BY <1>0, <1>8, <1>10 DEF Books, AccessHasPayment
<1>18. Lasting /\ Grows
  BY <1>4, <1>8, <1>10 DEF Lasting, Grows
<1> QED BY <1>2, <1>3, <1>10, <1>11, <1>13, <1>14, <1>15, <1>16, <1>17, <1>18 DEF Books

LEMMA InboxStill ==
  ASSUME RefundInv, UNCHANGED <<inbox, notice>>, Grows, Lasting
  PROVE  Reports' /\ ReportedRefundCloses'
<1>0. TypeOK
  BY DEF RefundInv
<1>1. \A e \in Events : inbox[e] # "none" /\ Names(notice[e])
        => notice[e].payment \in Payments /\ notice[e].refund \in Refunds
  BY <1>0 DEF TypeOK, Names, Notice
<1>2. Reports'
  BY <1>1 DEF RefundInv, Reports, Names, Reported, Grows
<1>3. ReportedRefundCloses'
  <2> SUFFICES ASSUME NEW e \in Events, Settled(e), notice[e].type = "payment.refunded",
                      Complete(e),
                      made'[notice[e].payment][notice[e].refund] = OrderTotal
               PROVE  pay'[notice[e].payment] = "refunded"
    BY DEF ReportedRefundCloses, Settled, Complete
  <2>1. inbox[e] # "none" /\ Names(notice[e])
    BY DEF Settled, Complete, Names
  <2>2. made[notice[e].payment][notice[e].refund] > 0
    BY <2>1 DEF RefundInv, Reports, Reported
  <2>3. made[notice[e].payment][notice[e].refund] = OrderTotal
    BY <1>1, <2>1, <2>2 DEF Grows
  <2>4. pay[notice[e].payment] = "refunded"
    BY <2>3 DEF RefundInv, ReportedRefundCloses
  <2> QED BY <1>1, <2>1, <2>4 DEF Lasting
<1> QED BY <1>2, <1>3

\* What stays when a clerk changes no row of the commerce.
LEMMA CommerceStill ==
  ASSUME RefundInv, UNCHANGED commerce
  PROVE  Lasting /\ UNCHANGED <<pay, paid, bound, order, access, grantedBy, fact>>
BY DEF commerce, payment, entitlement, Lasting

LEMMA ClerkStill ==
  ASSUME RefundInv, UNCHANGED <<commerce, inbox, notice, work, published>>,
         faults' = faults \/ (faults < MaxFaults /\ faults' = faults + 1),
         made' \in [Payments -> [Refunds -> 0 .. OrderTotal]], Grows, Spent',
         Keeps, JournalParts', JournalInv'
  PROVE  RefundInv'
<1>0. TypeOK /\ Working
  BY DEF RefundInv
<1>1. /\ Lasting
      /\ UNCHANGED <<pay, paid, bound, order, access, grantedBy, fact>>
  BY CommerceStill
<1>2. Books' /\ Lasting
  BY <1>1, StillBooks
<1>3. faults' \in 0 .. MaxFaults
  <2>1. faults \in 0 .. MaxFaults /\ MaxFaults \in Nat
    BY <1>0, PaymentAssumption DEF TypeOK
  <2> QED BY <2>1
<1>4. TypeOK' /\ Working'
  BY <1>0, <1>1, <1>3 DEF TypeOK, Working
<1>5. Reports' /\ ReportedRefundCloses'
  BY <1>2, InboxStill
<1> QED BY <1>2, <1>4, <1>5 DEF RefundInv, JournalParts

\* An attempt may begin on a payment that can be refunded: it gave access.
LEMMA EligibleGave ==
  ASSUME RefundInv, NEW p \in Payments, Eligible(p)
  PROVE  bound[p] /\ pay[p] # "none" /\ grantedBy # NoEvent
BY DEF RefundInv, Books, Ungranted, Eligible

LEMMA QuietClerk ==
  ASSUME RefundInv, UNCHANGED <<commerce, made>>, NEW c \in Clerks, NEW p \in Payments,
         NEW n \in Attempts,
         \/ StartRetry(c, p, n) \/ Resume(c, p, n) \/ Create(c, p, n) \/ Refuse(c, p, n)
         \/ Record(c, p, n) \/ Reread(c, p, n) \/ SettleAborts(c, p, n) \/ MarkStuck(c, p, n)
  PROVE  JournalParts' /\ Keeps
<1>0. /\ Lasting /\ Grows /\ TypeOK /\ JournalTypes /\ JournalInv /\ Results /\ Answers
      /\ CompletedRefundHolds /\ paid' = paid /\ made' = made /\ pay' = pay
      /\ access' = access
      /\ NoAnswer \notin Answer
  BY CommerceStill, NoAnswerAssumption DEF RefundInv, Grows
<1>1. op[p][n] \in Operation
  BY <1>0, OperationsAre
<1>2. CASE StartRetry(c, p, n)
  <2>1. n + 1 \in Attempts
    BY <1>2, JournalAssumption DEF StartRetry, Attempts
  <2> QED BY <1>0, <1>2, <2>1, EligibleGave, MoveRefunds DEF StartRetry
<1>3. CASE Resume(c, p, n) \/ SettleAborts(c, p, n)
  BY <1>0, <1>3, MoveRefunds DEF Resume, SettleAborts
<1>4. CASE Create(c, p, n)
  <2>1. CASE op[p][n].status = "none"
    <3>1. PICK row : row = [NoOperation EXCEPT !.status = "pending_provider"]
      OBVIOUS
    <3>2. /\ row \in Operation /\ row.status = "pending_provider"
          /\ row.failure = "none" /\ row.result = NoAnswer
      BY <3>1 DEF NoOperation, Operation
    <3>3. op[p][n].result = NoAnswer
      BY <1>0, <2>1 DEF Results, Reconcilable
    <3>4. Started(p)
      BY <1>4 DEF Create, Started
    <3>5. Write(p, n, row) /\ Move(c, "call", p, n, NoAnswer)
      BY <1>4, <2>1, <3>1 DEF Create
    <3> QED BY <1>0, <3>2, <3>3, <3>4, <3>5, WriteRefunds
  <2>2. CASE op[p][n].status # "none"
    BY <1>0, <1>4, <2>2, MoveRefunds DEF Create
  <2> QED BY <2>1, <2>2
<1>5. CASE Refuse(c, p, n)
  <2>1. CASE \E at \in {"rejected", "outcome_uncertain"} : Move(c, at, p, n, NoAnswer)
    BY <1>0, <1>5, <2>1, MoveRefunds DEF Refuse
  <2>2. CASE \E reply \in Replies, r \in Refunds :
               Move(c, "answered", p, n,
                    [refund |-> IF reply.named THEN r ELSE Synthetic, status |-> "failed",
                     amount |-> IF reply.named THEN paid[p] ELSE NoAmount])
    <3>1. PICK reply \in Replies, r \in Refunds :
               Move(c, "answered", p, n,
                    [refund |-> IF reply.named THEN r ELSE Synthetic, status |-> "failed",
                     amount |-> IF reply.named THEN paid[p] ELSE NoAmount])
      BY <2>2
    <3>2. PICK a : a = [refund |-> IF reply.named THEN r ELSE Synthetic, status |-> "failed",
                        amount |-> IF reply.named THEN paid[p] ELSE NoAmount]
      OBVIOUS
    <3>3. reply.named \in BOOLEAN /\ paid[p] \in Amounts
      BY <1>0, JournalAssumption DEF TypeOK
    <3>4. a \in Answer /\ a.status = "failed"
          /\ a.refund = (IF reply.named THEN r ELSE Synthetic)
          /\ a.amount = (IF reply.named THEN paid[p] ELSE NoAmount)
      BY <3>2, <3>3 DEF Answer
    <3>5. Stated(p, a)'
      BY <1>0, <3>3, <3>4 DEF Stated
    <3>6. Move(c, "answered", p, n, a) /\ a # NoAnswer /\ op' = op
      BY <1>0, <1>5, <3>1, <3>2, <3>4 DEF Refuse
    <3> QED BY <1>0, <3>4, <3>5, <3>6, MoveRefunds
  <2> QED BY <1>5, <2>1, <2>2 DEF Refuse
<1>6. CASE RecordAnswer(c, p, n)
  <2>1. At(c, "answered", p, n) /\ op[p][n].status = "pending_provider"
    BY <1>0, <1>6 DEF RecordAnswer, JournalInv, Owning, Telling
  <2>2. PICK a : a = clerk[c].answer
    OBVIOUS
  <2>3. a \in Answer /\ a # NoAnswer /\ Stated(p, a)
    BY <1>0, <2>1, <2>2, OperationsAre DEF Answers
  <2>4. PICK row : row = [status |-> "provider_succeeded", failure |-> "none", result |-> a]
    OBVIOUS
  <2>5. /\ row \in Operation /\ row.status = "provider_succeeded"
        /\ row.failure = "none" /\ row.result = a
    BY <2>3, <2>4 DEF Operation
  <2>6. op[p][n].result = NoAnswer
    BY <1>0, <2>1 DEF Results, Reconcilable
  <2>7. Started(p)
    BY <2>1, AnswerStarted
  <2>8. Write(p, n, row) /\ Move(c, "reconcile", p, n, NoAnswer)
    BY <1>6, <2>2, <2>4 DEF RecordAnswer
  <2> QED BY <1>0, <2>1, <2>3, <2>5, <2>6, <2>7, <2>8, WriteRefunds
<1>7. CASE RecordFailure(c, p, n)
  <2>1. PICK kind \in {"rejected", "outcome_uncertain"} :
          /\ At(c, kind, p, n)
          /\ Write(p, n, [status |-> "failed", failure |-> kind, result |-> op[p][n].result])
    BY <1>7 DEF RecordFailure
  <2>2. op[p][n].status = "pending_provider"
    BY <1>0, <2>1 DEF JournalInv, Owning, Telling
  <2>3. op[p][n].result = NoAnswer
    BY <1>0, <2>2 DEF Results, Reconcilable
  <2>4. PICK row : row = [status |-> "failed", failure |-> kind, result |-> op[p][n].result]
    OBVIOUS
  <2>5. /\ row \in Operation /\ row.status = "failed"
        /\ row.failure # "none" /\ row.result = NoAnswer
    BY <2>3, <2>4 DEF Operation
  <2>6. Started(p)
    BY <2>2, AnswerStarted
  <2>7. Write(p, n, row) /\ Leave(c)
    BY <1>7, <2>1, <2>4 DEF RecordFailure
  <2> QED BY <1>0, <2>3, <2>5, <2>6, <2>7, WriteRefunds
<1>8. CASE Reread(c, p, n)
  BY <1>0, <1>8, MoveRefunds, LeaveRefunds DEF Reread
<1>9. CASE MarkStuck(c, p, n)
  <2>1. op[p][n].status \in {"provider_succeeded", "needs_reconciliation", "completed"}
    BY <1>0, <1>9 DEF MarkStuck, JournalInv, Settling
  <2>2. op[p][n].result # NoAnswer /\ op[p][n].failure = "none"
    BY <1>0, <2>1 DEF Results, Reconcilable
  <2>3. PICK row : row = [op[p][n] EXCEPT !.status = "needs_reconciliation"]
    OBVIOUS
  <2>4. /\ row \in Operation /\ row.status = "needs_reconciliation"
        /\ row.failure = "none" /\ row.result = op[p][n].result
    BY <1>1, <2>2, <2>3 DEF Operation
  <2>5. Started(p)
    BY <2>1, AnswerStarted
  <2>6. Stated(p, row.result)
    BY <1>0, <2>2, <2>4 DEF Answers
  <2>7. Write(p, n, row) /\ Leave(c)
    BY <1>9, <2>3 DEF MarkStuck
  <2> QED BY <1>0, <2>1, <2>2, <2>4, <2>5, <2>6, <2>7, WriteRefunds
<1> QED BY <1>2, <1>3, <1>4, <1>5, <1>6, <1>7, <1>8, <1>9 DEF Record

\* The provider refunds all of the payment when none of it is paid back.
LEMMA AcceptRefunds ==
  ASSUME RefundInv, NEW c \in Clerks, NEW p \in Payments, NEW n \in Attempts, Accept(c, p, n)
  PROVE  /\ made' \in [Payments -> [Refunds -> 0 .. OrderTotal]]
         /\ Grows /\ Spent' /\ JournalParts' /\ Keeps
<1>0. /\ TypeOK /\ JournalInv /\ UNCHANGED commerce /\ op' = op
      /\ OrderTotal \in Nat /\ OrderTotal <= MaxAmount /\ MaxAmount \in Nat
      /\ NoAnswer \notin Answer
  BY NoAnswerAssumption, PaymentAssumption, MaxAmountAssumption DEF RefundInv, Accept
<1>1. Lasting /\ paid' = paid
  BY <1>0, CommerceStill
<1>2. op[p][n].status # "none"
  BY <1>0 DEF Accept, JournalInv, Owning, Telling
<1>3. paid[p] \in 1 .. OrderTotal
  BY <1>2, AnswerStarted DEF RefundInv, Books, Charged
<1>4. PICK r \in Refunds :
        /\ made' = [made EXCEPT ![p][r] = paid[p]]
        /\ \/ Move(c, "outcome_uncertain", p, n, NoAnswer)
           \/ \E reply \in Replies :
                /\ reply.status # "failed"
                /\ Move(c, "answered", p, n,
                        [refund |-> IF reply.named THEN r ELSE Synthetic,
                         status |-> reply.status,
                         amount |-> IF reply.named THEN paid[p] ELSE NoAmount])
  BY DEF Accept
<1>5. /\ made \in [Payments -> [Refunds -> 0 .. OrderTotal]]
      /\ made[p] \in [Refunds -> 0 .. OrderTotal]
  BY <1>0 DEF TypeOK
<1>6. /\ made' \in [Payments -> [Refunds -> 0 .. OrderTotal]]
      /\ made'[p][r] = paid[p]
      /\ \A k \in Refunds \ {r} : made'[p][k] = made[p][k]
      /\ \A q \in Payments \ {p} : made'[q] = made[q]
  <2>1. [made[p] EXCEPT ![r] = paid[p]] \in [Refunds -> 0 .. OrderTotal]
    BY <1>0, <1>3, <1>5
  <2>2. made' = [made EXCEPT ![p] = [made[p] EXCEPT ![r] = paid[p]]]
    BY <1>4, <1>5
  <2> QED BY <1>5, <2>1, <2>2
<1>7. ASSUME NEW k \in Refunds
      PROVE  made[p][k] = 0
  <2>1. made[p][k] \in 0 .. OrderTotal
    BY <1>5
  <2>2. made[p][k] \in Amounts /\ made[p][k] \in Nat
    BY <1>0, <2>1 DEF Amounts
  <2>3. made[p][k] <= Total(made[p], Refunds)
    BY <2>2, PaymentAssumption, TotalAtLeast
  <2>4. Total(made[p], Refunds) = 0
    BY DEF Accept, PaidBack
  <2> QED BY <2>2, <2>3, <2>4
<1>8. Grows
  BY <1>6, <1>7 DEF Grows
<1>9. Spent'
  <2> PICK f, g : f = made[p] /\ g = made'[p]
    OBVIOUS
  <2>1. /\ f[r] \in Amounts /\ g[r] \in Amounts /\ f[r] = 0 /\ g[r] = paid[p]
        /\ \A k \in Refunds \ {r} : g[k] = f[k]
    BY <1>0, <1>3, <1>6, <1>7 DEF Amounts
  <2>2. Total(g, Refunds) + f[r] = Total(f, Refunds) + g[r]
    BY <2>1, PaymentAssumption, TotalChangeOne
  <2>3. Total(f, Refunds) = 0 /\ Total(g, Refunds) \in Nat
    BY PaymentAssumption, TotalType DEF Accept, PaidBack
  <2>4. Total(made'[p], Refunds) <= OrderTotal
    BY <1>0, <1>3, <2>1, <2>2, <2>3
  <2>5. \A q \in Payments \ {p} : Total(made'[q], Refunds) = PaidBack(q)
    BY <1>6 DEF PaidBack
  <2> QED BY <2>4, <2>5 DEF RefundInv, Spent, PaidBack
<1>10. JournalParts' /\ Keeps
  <2>1. CASE Move(c, "outcome_uncertain", p, n, NoAnswer)
    BY <1>0, <1>1, <1>8, <2>1, MoveRefunds
  <2>2. CASE \E reply \in Replies :
                /\ reply.status # "failed"
                /\ Move(c, "answered", p, n,
                        [refund |-> IF reply.named THEN r ELSE Synthetic,
                         status |-> reply.status,
                         amount |-> IF reply.named THEN paid[p] ELSE NoAmount])
    <3>1. PICK reply \in Replies :
                /\ reply.status # "failed"
                /\ Move(c, "answered", p, n,
                        [refund |-> IF reply.named THEN r ELSE Synthetic,
                         status |-> reply.status,
                         amount |-> IF reply.named THEN paid[p] ELSE NoAmount])
      BY <2>2
    <3>2. PICK a : a = [refund |-> IF reply.named THEN r ELSE Synthetic,
                        status |-> reply.status,
                        amount |-> IF reply.named THEN paid[p] ELSE NoAmount]
      OBVIOUS
    <3>3. reply.named \in BOOLEAN /\ reply.status \in {"pending", "succeeded", "failed"}
          /\ paid[p] \in Amounts
      BY <1>0, JournalAssumption DEF TypeOK
    <3>4. a \in Answer
          /\ a.refund = (IF reply.named THEN r ELSE Synthetic)
          /\ a.amount = (IF reply.named THEN paid[p] ELSE NoAmount)
      BY <3>2, <3>3 DEF Answer
    <3>5. Stated(p, a)'
      BY <1>1, <1>3, <1>6, <3>3, <3>4 DEF Stated
    <3>6. Move(c, "answered", p, n, a) /\ a # NoAnswer
      BY <1>0, <3>1, <3>2, <3>4
    <3> QED BY <1>0, <1>1, <1>8, <3>4, <3>5, <3>6, MoveRefunds
  <2> QED BY <1>4, <2>1, <2>2
<1> QED BY <1>6, <1>8, <1>9, <1>10

LEMMA SettleRefunds ==
  ASSUME RefundInv, NEW c \in Clerks, NEW p \in Payments, NEW n \in Attempts,
         Settle(c, p, n), JournalInv'
  PROVE  RefundInv'
<1>0. /\ TypeOK /\ Working /\ JournalTypes /\ JournalInv /\ Results /\ Answers
      /\ InboxTypes /\ RequestTypes
      /\ UNCHANGED <<inbox, notice, work, published, made, faults>>
  BY TypeParts DEF RefundInv, Settle
<1>1. /\ RowTypes' /\ Books' /\ Lasting /\ Grows
      /\ op[p][n].result \in Answer
      /\ op[p][n].result.status = "succeeded" => pay'[p] = "refunded" /\ access' # "active"
  BY SettleBooks
<1>2. op[p][n].status \in {"provider_succeeded", "needs_reconciliation", "completed"}
  BY <1>0 DEF Settle, JournalInv, Settling
<1>3. op[p][n].result # NoAnswer /\ op[p][n].failure = "none" /\ op[p][n] \in Operation
  BY <1>0, <1>2, OperationsAre DEF Results, Reconcilable, Operation
<1>4. JournalParts' /\ Keeps
  <2>1. PICK row : row = [op[p][n] EXCEPT !.status = "completed"]
    OBVIOUS
  <2>2. /\ row \in Operation /\ row.status = "completed"
        /\ row.failure = "none" /\ row.result = op[p][n].result
    BY <1>3, <2>1 DEF Operation
  <2>3. Started(p)
    BY <1>2, AnswerStarted
  <2>4. Stated(p, row.result)
    BY <1>0, <1>3, <2>2 DEF Answers
  <2>5. Write(p, n, row) /\ Leave(c)
    BY <2>1 DEF Settle
  <2> QED BY <1>1, <1>2, <1>3, <2>2, <2>3, <2>4, <2>5, WriteRefunds
<1>5. Reports' /\ ReportedRefundCloses'
  BY <1>0, <1>1, InboxStill
<1>6. Working' /\ Spent' /\ InboxTypes' /\ RequestTypes'
  BY <1>0 DEF RefundInv, Working, Spent, PaidBack, InboxTypes, RequestTypes
<1>7. TypeOK'
  BY <1>1, <1>6 DEF TypeOK, RowTypes, InboxTypes, RequestTypes, Stages
<1> QED BY <1>1, <1>4, <1>5, <1>6, <1>7 DEF RefundInv, JournalParts

LEMMA ClerksKeep ==
  ASSUME RefundInv, ClerkStep
  PROVE  RefundInv'
<1>0. /\ TypeOK /\ JournalInv'
      /\ made \in [Payments -> [Refunds -> 0 .. OrderTotal]]
  BY JournalInvStep DEF RefundInv, JournalNext, TypeOK
<1>1. ASSUME UNCHANGED made
      PROVE  /\ made' \in [Payments -> [Refunds -> 0 .. OrderTotal]]
             /\ Grows /\ Spent'
  BY <1>0, <1>1 DEF RefundInv, Grows, Spent, PaidBack
<1>2. ASSUME NEW c \in Clerks, ClerkCrash(c)
      PROVE  RefundInv'
  <2>1. /\ UNCHANGED <<commerce, inbox, notice, work, published, made, op>>
        /\ faults < MaxFaults /\ faults' = faults + 1 /\ Leave(c)
    BY <1>2 DEF ClerkCrash
  <2>2. Lasting
    BY <2>1, CommerceStill
  <2>3. JournalParts' /\ Keeps
    BY <1>1, <2>1, <2>2, LeaveRefunds
  <2> QED BY <1>0, <1>1, <2>1, <2>3, ClerkStill
<1>3. ASSUME NEW c \in Clerks, NEW p \in Payments, StartRefund(c, p)
      PROVE  RefundInv'
  <2>1. UNCHANGED <<commerce, inbox, notice, work, published, made, faults>> /\ op' = op
    BY <1>3 DEF StartRefund, vars
  <2>2. Lasting
    BY <2>1, CommerceStill
  <2>3. 1 \in Attempts
    BY JournalAssumption DEF Attempts
  <2>4. JournalParts' /\ Keeps
    BY <1>1, <1>3, <2>1, <2>2, <2>3, EligibleGave, MoveRefunds DEF StartRefund
  <2> QED BY <1>0, <1>1, <2>1, <2>4, ClerkStill
<1>4. ASSUME NEW c \in Clerks, NEW p \in Payments, NEW n \in Attempts,
             \/ StartRetry(c, p, n) \/ Resume(c, p, n) \/ Create(c, p, n) \/ Refuse(c, p, n)
             \/ Record(c, p, n) \/ Reread(c, p, n) \/ SettleAborts(c, p, n) \/ MarkStuck(c, p, n)
      PROVE  RefundInv'
  <2>1. /\ UNCHANGED <<commerce, inbox, notice, work, published, made>>
        /\ faults' = faults \/ (faults < MaxFaults /\ faults' = faults + 1)
    BY <1>4 DEF StartRetry, Resume, Create, Refuse, Record, RecordAnswer, RecordFailure,
                Reread, SettleAborts, MarkStuck, vars
  <2>2. JournalParts' /\ Keeps
    BY <1>4, <2>1, QuietClerk
  <2> QED BY <1>0, <1>1, <2>1, <2>2, ClerkStill
<1>5. ASSUME NEW c \in Clerks, NEW p \in Payments, NEW n \in Attempts, Accept(c, p, n)
      PROVE  RefundInv'
  <2>1. UNCHANGED <<commerce, inbox, notice, work, published, faults>>
    BY <1>5 DEF Accept
  <2> QED BY <1>0, <1>5, <2>1, AcceptRefunds, ClerkStill
<1>6. ASSUME NEW c \in Clerks, NEW p \in Payments, NEW n \in Attempts, Settle(c, p, n)
      PROVE  RefundInv'
  BY <1>0, <1>6, SettleRefunds
<1> QED BY <1>2, <1>3, <1>4, <1>5, <1>6 DEF ClerkStep, Ask, Reconcile

LEMMA RefundStart ==
  ASSUME JournalInit
  PROVE  RefundInv
<1>0. /\ TypeOK /\ Working /\ Granted /\ AccessHasPayment /\ JournalInv /\ Init
  BY InvInit, JournalInvInit DEF PaymentInv, JournalInit
<1>1. NoOperation \in Operation /\ NoOperation.status = "none"
      /\ NoOperation.failure = "none" /\ NoOperation.result = NoAnswer
  BY DEF NoOperation, Operation
<1>2. \A c \in Clerks : \A at, p, n : ~At(c, at, p, n)
  BY DEF JournalInit, At
<1>3. \A p \in Payments, n \in Attempts : op[p][n] = NoOperation
  BY DEF JournalInit
<1>4. JournalTypes /\ Results
  BY <1>1, <1>3 DEF JournalInit, JournalTypes, Results, Reconcilable
<1>5. Answers /\ Starting /\ CompletedRefundHolds
  <2>1. 1 \in Attempts
    BY JournalAssumption DEF Attempts
  <2> QED BY <1>1, <1>2, <1>3, <2>1 DEF Answers, Starting, Started, CompletedRefundHolds
<1>6. \A p \in Payments : pay[p] = "none" /\ bound[p] = FALSE
        /\ \A k \in FactIds : fact[p][k].status = "none"
  BY <1>0 DEF Init, NoFact
<1>7. Charged /\ Rows /\ Full /\ Ungranted
  BY <1>6 DEF Charged, Rows, RowStands, Full, Ungranted
<1>8. Reports /\ ReportedRefundCloses
  BY <1>0 DEF Init, Reports, ReportedRefundCloses, Settled
<1>9. Spent
  <2>1. \A p \in Payments : \A r \in Refunds : made[p][r] = 0
    BY <1>0 DEF Init
  <2>2. \A p \in Payments : PaidBack(p) = 0
    BY <2>1, TotalZero DEF PaidBack
  <2> QED BY <2>2, PaymentAssumption DEF Spent
<1> QED BY <1>0, <1>4, <1>5, <1>7, <1>8, <1>9 DEF RefundInv, Books

LEMMA RefundKeeps ==
  RefundInv /\ [JournalNext]_journalVars => RefundInv'
<1> SUFFICES ASSUME RefundInv, [JournalNext]_journalVars PROVE RefundInv'
  OBVIOUS
<1>1. CASE JournalNext
  BY <1>1, WebhooksKeep, ClerksKeep DEF JournalNext
<1>2. CASE UNCHANGED journalVars
  <2>1. /\ UNCHANGED <<commerce, inbox, notice, work, published, made, faults>>
        /\ op' = op /\ clerk' = clerk
    BY <1>2 DEF journalVars, vars, journal
  <2>2. Grows /\ Keeps /\ Spent'
    BY <2>1 DEF RefundInv, Grows, Keeps, Spent, PaidBack
  <2>3. Lasting
    BY <2>1, CommerceStill
  <2>4. TypeOK'
    BY <2>1 DEF RefundInv, TypeOK, commerce, payment, entitlement
  <2>5. JournalParts' /\ JournalInv'
    BY <2>1, <2>2, <2>3, <2>4, JournalStays DEF JournalParts, journal
  <2>6. made' \in [Payments -> [Refunds -> 0 .. OrderTotal]]
    BY <2>4 DEF TypeOK
  <2> QED BY <2>1, <2>2, <2>5, <2>6, ClerkStill
<1> QED BY <1>1, <1>2

\* Webhook and journal agree on what is paid back, for good: a refund of
\* everything closes the payment whichever of them learns of it first, and
\* what either has closed no later event of the other opens, however many
\* payments, attempts and requests there are (assertPaymentTransition and
\* alignSyntheticRefundFact in webhook-payment-events.ts, the transaction of
\* reconcileBillingOperation in billing-operation-actions.ts).
THEOREM RefundsAlwaysHold == JournalSpec => []RefundsHold
<1>1. RefundInv => RefundsHold
  BY DEF RefundInv, RefundsHold
<1>2. JournalInit => RefundInv
  BY RefundStart
<1> QED BY <1>1, <1>2, RefundKeeps, PTL DEF JournalSpec

\* With the journal running beside the webhooks, access still needs a payment
\* of the order that stands.
THEOREM AccessStillPaid == JournalSpec => []AccessHasPayment
<1>1. RefundInv => AccessHasPayment
  BY DEF RefundInv, Books
<1>2. JournalInit => RefundInv
  BY RefundStart
<1> QED BY <1>1, <1>2, RefundKeeps, PTL DEF JournalSpec

-------------------------------------------------------------------------------
(* The team.                                                               *)

Bootstrapping == [at : {"bootstrap"}, operator : Events]
Inviting ==
  [at : {"invite", "invite pending"}, email : Events, access : Accesses, by : Roles]
Tendering == [at : {"accept", "revoke"}, invitation : Invitations]
Updating == [at : {"update"}, target : Members, change : Changes, by : Roles]
Changing == [at : {"demote", "rescope"}, target : Members, change : Changes, by : Roles,
             seen : Team!Access]
Rewriting == [at : {"update write"}, target : Members, by : Roles, change : Changes,
              access : Team!Access]
Dismissing == [at : {"remove"}, target : Members, by : Roles]
Removing == [at : {"remove owner", "remove write"}, target : Members, operator : Events]
Rotating == [at : {"rotate"}, operator : Events, seen : Nat]
TeamRequest ==
  {Team!Idle} \cup Bootstrapping \cup Inviting \cup Tendering \cup Updating \cup Changing
    \cup Rewriting \cup Dismissing \cup Removing \cup Rotating

\* What a request goes by: whoever gives the role of an owner is one, and the
\* rows it has read of were there.
ByOwner(role, by) == role = "owner" => by = "owner"
Entitled(q) ==
  /\ q.at \in {"invite", "invite pending"} => ByOwner(q.access.role, q.by)
  /\ q.at \in {"demote", "rescope"} =>
       ByOwner(Team!Given(q.change.role, q.seen.role), q.by)
  /\ q.at = "update write" => ByOwner(q.access.role, q.by)
Rooted(q) ==
  /\ q.at \in {"accept", "revoke"} => invitation[q.invitation] # Team!NoInvitation
  /\ q.at \in {"remove owner", "remove write", "rotate"} =>
       operator[q.operator] # Team!NoOperator

\* An invitation to be an owner came from one.  A member's operator is there.
Tendered ==
  \A i \in Invitations : invitation[i] # Team!NoInvitation =>
    ByOwner(invitation[i].access.role, invitation[i].by)
Peopled ==
  \A m \in Members : member[m] \notin Team!Absent =>
    operator[member[m].operator] # Team!NoOperator

\* Hashes are numbered, and a password that was replaced is older than the
\* one in use.
Numbered == \A o \in Events : operator[o].hash <= hashes
Outdated ==
  /\ rotations \subseteq Events \X Nat \X Nat
  /\ \A x \in rotations : x[2] < operator[x[1]].hash

TeamInv ==
  /\ Team!TypeOK
  /\ request \in [Clerks -> TeamRequest]
  /\ \A r \in Clerks : Entitled(request[r]) /\ Rooted(request[r])
  /\ Tendered /\ Peopled /\ Numbered /\ Outdated
  /\ Team!OwnersComeFromOwners /\ Team!RotationsNeverLost

LEMMA RequestsAre ==
  /\ Team!Idle \in TeamRequest /\ Team!Idle.at = "idle"
  /\ \A q \in TeamRequest :
       /\ q.at = "bootstrap" => q \in Bootstrapping
       /\ q.at \in {"invite", "invite pending"} => q \in Inviting
       /\ q.at \in {"accept", "revoke"} => q \in Tendering
       /\ q.at = "update" => q \in Updating
       /\ q.at \in {"demote", "rescope"} => q \in Changing
       /\ q.at = "update write" => q \in Rewriting
       /\ q.at = "remove" => q \in Dismissing
       /\ q.at \in {"remove owner", "remove write"} => q \in Removing
       /\ q.at = "rotate" => q \in Rotating
<1>1. Team!Idle.at = "idle" /\ \A q \in Bootstrapping : q.at = "bootstrap"
  BY DEF Team!Idle, Bootstrapping
<1>2. \A q \in Inviting : q.at \in {"invite", "invite pending"}
  BY DEF Inviting
<1>3. \A q \in Tendering : q.at \in {"accept", "revoke"}
  BY DEF Tendering
<1>4. \A q \in Updating : q.at = "update"
  BY DEF Updating
<1>5. \A q \in Changing : q.at \in {"demote", "rescope"}
  BY DEF Changing
<1>6. \A q \in Rewriting : q.at = "update write"
  BY DEF Rewriting
<1>7. \A q \in Dismissing : q.at = "remove"
  BY DEF Dismissing
<1>8. \A q \in Removing : q.at \in {"remove owner", "remove write"}
  BY DEF Removing
<1>9. \A q \in Rotating : q.at = "rotate"
  BY DEF Rotating
<1> QED BY <1>1, <1>2, <1>3, <1>4, <1>5, <1>6, <1>7, <1>8, <1>9 DEF TeamRequest

LEMMA MembersAre ==
  /\ Team!NoMember \in Team!Absent /\ Team!Gone \in Team!Absent
  /\ \A x \in Team!Member : /\ x \notin Team!Absent /\ x.operator \in Events
                            /\ x.access \in Team!Access
  /\ \A o \in Events, given \in Team!Access :
       [status |-> "member", operator |-> o, access |-> given] \in Team!Member
<1>1. Team!NoMember.status = "none" /\ Team!Gone.status = "gone"
  BY DEF Team!NoMember, Team!Gone
<1>2. \A x \in Team!Member : x.status = "member"
  BY DEF Team!Member
<1>3. \A x \in Team!Member : x \notin Team!Absent
  BY <1>1, <1>2 DEF Team!Absent
<1> QED BY <1>3 DEF Team!Member, Team!Absent

\* A request that has only read.
LEMMA TeamReads ==
  ASSUME TeamInv, NEW r \in Clerks, NEW q \in TeamRequest, Entitled(q), Rooted(q),
         request' = [request EXCEPT ![r] = q],
         UNCHANGED <<operator, member, invitation, hashes, appointed, rotations>>
  PROVE  TeamInv'
<1>1. /\ request' \in [Clerks -> TeamRequest] /\ request'[r] = q
      /\ \A c \in Clerks \ {r} : request'[c] = request[c]
  BY DEF TeamInv
<1>2. \A c \in Clerks : Entitled(request'[c]) /\ Rooted(request'[c])
  BY <1>1 DEF TeamInv
<1>3. \A c \in Clerks : Entitled(request[c])' /\ Rooted(request[c])'
  BY <1>2 DEF Entitled, Rooted
<1>4. Team!TypeOK'
  BY DEF TeamInv, Team!TypeOK
<1>5. Tendered' /\ Peopled' /\ Numbered' /\ Outdated'
  BY DEF TeamInv, Tendered, Peopled, Numbered, Outdated
<1>6. Team!OwnersComeFromOwners' /\ Team!RotationsNeverLost'
  BY DEF TeamInv, Team!OwnersComeFromOwners, Team!RotationsNeverLost, Team!Owners
<1> QED BY <1>1, <1>3, <1>4, <1>5, <1>6 DEF TeamInv

\* A request that ends with a write: the others go by what they did.
LEMMA TeamWrites ==
  ASSUME TeamInv, NEW r \in Clerks, Team!Ends(r),
         \A i \in Invitations : invitation[i] # Team!NoInvitation =>
           invitation'[i] # Team!NoInvitation,
         \A o \in Events : operator[o] # Team!NoOperator =>
           operator'[o] # Team!NoOperator
  PROVE  /\ request' \in [Clerks -> TeamRequest]
         /\ \A c \in Clerks : Entitled(request[c])' /\ Rooted(request[c])'
<1>1. request' = [request EXCEPT ![r] = Team!Idle]
  BY DEF Team!Ends, Team!Goes
<1>2. /\ request' \in [Clerks -> TeamRequest] /\ request'[r] = Team!Idle
      /\ \A c \in Clerks \ {r} : request'[c] = request[c]
  BY <1>1, RequestsAre DEF TeamInv
<1>3. Entitled(request[r])' /\ Rooted(request[r])'
  BY <1>2, RequestsAre DEF Entitled, Rooted
<1>4. ASSUME NEW c \in Clerks \ {r}
      PROVE  Entitled(request[c])' /\ Rooted(request[c])'
  <2>1. request'[c] = request[c] /\ request[c] \in TeamRequest
        /\ Entitled(request[c]) /\ Rooted(request[c])
    BY <1>2 DEF TeamInv
  <2>2. Entitled(request[c])'
    BY <2>1 DEF Entitled
  <2>3. request[c].at \in {"accept", "revoke"} =>
          /\ request[c].invitation \in Invitations
          /\ invitation[request[c].invitation] # Team!NoInvitation
    BY <2>1, RequestsAre DEF Rooted, Tendering
  <2>4. request[c].at \in {"remove owner", "remove write", "rotate"} =>
          /\ request[c].operator \in Events
          /\ operator[request[c].operator] # Team!NoOperator
    BY <2>1, RequestsAre DEF Rooted, Removing, Rotating
  <2> QED BY <2>1, <2>2, <2>3, <2>4 DEF Rooted
<1> QED BY <1>2, <1>3, <1>4

LEMMA TeamGoesOn ==
  ASSUME TeamInv, NEW r \in Clerks, NEW q \in TeamRequest, Entitled(q), Rooted(q),
         Team!Start(r, q) \/ Team!Reads(r, q)
  PROVE  TeamInv'
BY TeamReads DEF Team!Start, Team!Reads, Team!Goes, Team!history

LEMMA ActorsAre ==
  ASSUME TeamInv, NEW o \in Events, Team!MembershipOf(o) # {}
  PROVE  Team!RoleOf(o) \in Roles
<1>1. PICK m : m = CHOOSE n \in Team!MembershipOf(o) : TRUE
  OBVIOUS
<1>2. m \in Team!MembershipOf(o)
  BY <1>1
<1>3. m \in Members /\ member[m] \in Team!Member
  BY <1>2 DEF Team!MembershipOf, TeamInv, Team!TypeOK
<1>4. member[m].access.role \in Roles
  BY <1>3 DEF Team!Member, Team!Access
<1> QED BY <1>1, <1>4 DEF Team!RoleOf

\* The first statements of a request: what it was asked for, and by whom.
LEMMA TeamStarts ==
  ASSUME TeamInv, NEW r \in Clerks,
         \/ \E o \in Events : Team!BootstrapRead(r, o) \/ Team!RotateRead(r, o)
         \/ \E i \in Invitations : Team!AcceptRead(r, i)
         \/ \E actor, email \in Events, given \in Accesses :
              Team!InviteStart(r, actor, email, given)
         \/ \E actor \in Events, i \in Invitations : Team!RevokeInvitation(r, actor, i)
         \/ \E actor \in Events, m \in Members :
              \/ Team!RemoveStart(r, actor, m)
              \/ \E c \in Changes : Team!UpdateStart(r, actor, m, c)
  PROVE  TeamInv'
<1>1. ASSUME NEW o \in Events, Team!BootstrapRead(r, o)
      PROVE  TeamInv'
  <2>1. PICK q : q = [at |-> "bootstrap", operator |-> o]
    OBVIOUS
  <2>2. q \in TeamRequest /\ q.at = "bootstrap"
    BY <2>1 DEF TeamRequest, Bootstrapping
  <2>3. Entitled(q) /\ Rooted(q)
    BY <2>2 DEF Entitled, Rooted
  <2> QED BY <1>1, <2>1, <2>2, <2>3, TeamGoesOn DEF Team!BootstrapRead
<1>2. ASSUME NEW o \in Events, Team!RotateRead(r, o)
      PROVE  TeamInv'
  <2>1. operator[o] # Team!NoOperator /\ operator[o].hash \in Nat
    <3>1. Team!NoOperator.status = "none" /\ Team!NoOperator.hash = 0
      BY DEF Team!NoOperator
    <3>2. operator[o].status # "none"
      BY <1>2 DEF Team!RotateRead
    <3> QED BY <3>1, <3>2 DEF TeamInv, Team!TypeOK
  <2>2. PICK q : q = [at |-> "rotate", operator |-> o, seen |-> operator[o].hash]
    OBVIOUS
  <2>3. q \in TeamRequest /\ q.at = "rotate" /\ q.operator = o
    BY <2>1, <2>2 DEF TeamRequest, Rotating
  <2>4. Entitled(q) /\ Rooted(q)
    BY <2>1, <2>3 DEF Entitled, Rooted
  <2> QED BY <1>2, <2>2, <2>3, <2>4, TeamGoesOn DEF Team!RotateRead
<1>3. ASSUME NEW i \in Invitations, NEW at \in {"accept", "revoke"},
             invitation[i] # Team!NoInvitation,
             Team!Start(r, [at |-> at, invitation |-> i])
      PROVE  TeamInv'
  <2>1. PICK q : q = [at |-> at, invitation |-> i]
    OBVIOUS
  <2>2. q \in TeamRequest /\ q.at = at /\ q.invitation = i
    BY <2>1 DEF TeamRequest, Tendering
  <2>3. Entitled(q) /\ Rooted(q)
    BY <1>3, <2>2 DEF Entitled, Rooted
  <2> QED BY <1>3, <2>1, <2>2, <2>3, TeamGoesOn
<1>4. ASSUME NEW i \in Invitations, Team!AcceptRead(r, i)
      PROVE  TeamInv'
  <2>1. Team!NoInvitation.status = "none"
    BY DEF Team!NoInvitation
  <2> QED BY <1>3, <1>4, <2>1 DEF Team!AcceptRead
<1>5. ASSUME NEW actor \in Events, NEW email \in Events, NEW given \in Accesses,
             Team!InviteStart(r, actor, email, given)
      PROVE  TeamInv'
  <2>1. /\ Team!RoleOf(actor) \in Roles /\ ByOwner(given.role, Team!RoleOf(actor))
    BY <1>5, ActorsAre DEF Team!InviteStart, Team!Guarded, Team!assertCanManageTarget, ByOwner
  <2>2. PICK q : q = [at |-> "invite", email |-> email, access |-> given,
                      by |-> Team!RoleOf(actor)]
    OBVIOUS
  <2>3. q \in TeamRequest /\ q.at = "invite" /\ q.access = given
        /\ q.by = Team!RoleOf(actor)
    BY <2>1, <2>2 DEF TeamRequest, Inviting
  <2>4. Entitled(q) /\ Rooted(q)
    BY <2>1, <2>3 DEF Entitled, Rooted
  <2> QED BY <1>5, <2>2, <2>3, <2>4, TeamGoesOn DEF Team!InviteStart
<1>6. ASSUME NEW actor \in Events, NEW m \in Members, NEW c \in Changes,
             Team!UpdateStart(r, actor, m, c)
      PROVE  TeamInv'
  <2>1. Team!RoleOf(actor) \in Roles
    BY <1>6, ActorsAre DEF Team!UpdateStart, Team!Guarded
  <2>2. PICK q : q = [at |-> "update", target |-> m, change |-> c,
                      by |-> Team!RoleOf(actor)]
    OBVIOUS
  <2>3. q \in TeamRequest /\ q.at = "update"
    BY <2>1, <2>2 DEF TeamRequest, Updating
  <2>4. Entitled(q) /\ Rooted(q)
    BY <2>3 DEF Entitled, Rooted
  <2> QED BY <1>6, <2>2, <2>3, <2>4, TeamGoesOn DEF Team!UpdateStart
<1>7. ASSUME NEW actor \in Events, NEW m \in Members, Team!RemoveStart(r, actor, m)
      PROVE  TeamInv'
  <2>1. Team!RoleOf(actor) \in Roles
    BY <1>7, ActorsAre DEF Team!RemoveStart, Team!Guarded
  <2>2. PICK q : q = [at |-> "remove", target |-> m, by |-> Team!RoleOf(actor)]
    OBVIOUS
  <2>3. q \in TeamRequest /\ q.at = "remove"
    BY <2>1, <2>2 DEF TeamRequest, Dismissing
  <2>4. Entitled(q) /\ Rooted(q)
    BY <2>3 DEF Entitled, Rooted
  <2> QED BY <1>7, <2>2, <2>3, <2>4, TeamGoesOn DEF Team!RemoveStart
<1>8. ASSUME NEW actor \in Events, NEW i \in Invitations, Team!RevokeInvitation(r, actor, i)
      PROVE  TeamInv'
  BY <1>3, <1>8 DEF Team!RevokeInvitation
<1> QED BY <1>1, <1>2, <1>4, <1>5, <1>6, <1>7, <1>8

\* The statements that follow, up to the transaction.
LEMMA TeamLooks ==
  ASSUME TeamInv, NEW r \in Clerks,
         \/ Team!Drop(r) \/ Team!InviteRead(r)
         \/ Team!UpdateRead(r) \/ Team!UpdateCount(r) \/ Team!UpdateScope(r)
         \/ Team!RemoveRead(r) \/ Team!RemoveCount(r)
  PROVE  TeamInv'
<1>r. request[r] \in TeamRequest /\ Entitled(request[r]) /\ Rooted(request[r])
  BY DEF TeamInv
<1>1. CASE Team!Drop(r)
  <2>1. Entitled(Team!Idle) /\ Rooted(Team!Idle)
    BY RequestsAre DEF Entitled, Rooted
  <2> QED BY <1>1, <2>1, RequestsAre, TeamGoesOn DEF Team!Drop
<1>2. CASE Team!InviteRead(r)
  <2>1. request[r].at = "invite" /\ request[r] \in Inviting
    BY <1>2, <1>r, RequestsAre DEF Team!InviteRead, Team!At
  <2>2. PICK q : q = [request[r] EXCEPT !.at = "invite pending"]
    OBVIOUS
  <2>3. q \in TeamRequest /\ q.at = "invite pending" /\ q.access = request[r].access
        /\ q.by = request[r].by
    BY <2>1, <2>2 DEF TeamRequest, Inviting
  <2>4. Entitled(q) /\ Rooted(q)
    BY <1>r, <2>1, <2>3 DEF Entitled, Rooted
  <2> QED BY <1>2, <2>2, <2>3, <2>4, TeamGoesOn DEF Team!InviteRead
<1>3. CASE Team!UpdateRead(r)
  <2>1. request[r].at = "update" /\ request[r] \in Updating
    BY <1>3, <1>r, RequestsAre DEF Team!UpdateRead, Team!At
  <2>2. /\ request[r].target \in Members /\ request[r].change \in Changes
        /\ request[r].by \in Roles
    BY <2>1 DEF Updating
  <2>3. /\ member[request[r].target] \in Team!Member
        /\ member[request[r].target].access \in Team!Access
    BY <1>3, <2>2, MembersAre DEF Team!UpdateRead, TeamInv, Team!TypeOK
  <2>4. PICK seen : seen = member[request[r].target].access
    OBVIOUS
  <2>5. PICK q : \E at \in {"demote", "rescope"} :
                   /\ q = [at |-> at, target |-> request[r].target,
                           change |-> request[r].change, by |-> request[r].by,
                           seen |-> seen]
                   /\ Team!Reads(r, q)
    BY <1>3, <2>4 DEF Team!UpdateRead
  <2>6. /\ q \in TeamRequest /\ q.at \in {"demote", "rescope"} /\ q.seen = seen
        /\ q.change = request[r].change /\ q.by = request[r].by
    BY <2>2, <2>3, <2>4, <2>5 DEF TeamRequest, Changing
  <2>7. ByOwner(Team!Given(request[r].change.role, seen.role), request[r].by)
    BY <1>3, <2>4 DEF Team!UpdateRead, Team!MayUpdate, Team!assertCanManageTarget,
       Team!Given, ByOwner
  <2>8. Entitled(q) /\ Rooted(q)
    BY <2>6, <2>7 DEF Entitled, Rooted
  <2> QED BY <2>5, <2>6, <2>8, TeamGoesOn
<1>4. CASE Team!UpdateCount(r)
  <2>1. request[r].at = "demote" /\ request[r] \in Changing
    BY <1>4, <1>r, RequestsAre DEF Team!UpdateCount, Team!At
  <2>2. PICK q : q = [request[r] EXCEPT !.at = "rescope"]
    OBVIOUS
  <2>3. q \in TeamRequest /\ q.at = "rescope" /\ q.seen = request[r].seen
        /\ q.by = request[r].by /\ q.change = request[r].change
    BY <2>1, <2>2 DEF TeamRequest, Changing
  <2>4. Entitled(q) /\ Rooted(q)
    BY <1>r, <2>1, <2>3 DEF Entitled, Rooted
  <2> QED BY <1>4, <2>2, <2>3, <2>4, TeamGoesOn DEF Team!UpdateCount
<1>5. CASE Team!UpdateScope(r)
  <2>1. request[r].at = "rescope" /\ request[r] \in Changing
    BY <1>5, <1>r, RequestsAre DEF Team!UpdateScope, Team!At
  <2>2. /\ request[r].target \in Members /\ request[r].change \in Changes
        /\ request[r].by \in Roles /\ request[r].seen \in Team!Access
    BY <2>1 DEF Changing
  <2>3. /\ request[r].change.role \in Roles \cup {Keep}
        /\ request[r].change.scope \in Team!Scopes \cup {Keep}
        /\ request[r].change.apps \in (SUBSET Apps) \cup {Keep}
        /\ request[r].seen.role \in Roles /\ request[r].seen.scope \in Team!Scopes
    BY <2>2, OperatorsAssumption DEF Team!TeamAssumption, Team!Change, Team!Access
  <2>4. PICK rows : rows = IF member[request[r].target] \in Team!Absent THEN {}
                           ELSE member[request[r].target].access.apps
    OBVIOUS
  <2>5. rows \in SUBSET Apps
    <3>1. member[request[r].target] \notin Team!Absent =>
            member[request[r].target].access \in Team!Access
      BY <2>2, MembersAre DEF TeamInv, Team!TypeOK
    <3> QED BY <2>4, <3>1 DEF Team!Access
  <2>6. PICK role, scope, apps :
          /\ role = Team!Given(request[r].change.role, request[r].seen.role)
          /\ scope = Team!Given(request[r].change.scope, request[r].seen.scope)
          /\ apps = Team!Given(request[r].change.apps,
                               IF scope = "restricted" THEN rows ELSE {})
    OBVIOUS
  <2>7. role \in Roles /\ scope \in Team!Scopes /\ apps \in SUBSET Apps
    BY <2>3, <2>5, <2>6 DEF Team!Given
  <2>8. PICK given : given = [role |-> role, scope |-> scope, apps |-> apps]
    OBVIOUS
  <2>9. given \in Team!Access /\ given.role = role
    BY <2>7, <2>8 DEF Team!Access
  <2>10. PICK q : q = [at |-> "update write", target |-> request[r].target,
                       by |-> request[r].by, change |-> request[r].change,
                       access |-> given]
    OBVIOUS
  <2>11. /\ q \in TeamRequest /\ q.at = "update write" /\ q.access = given
         /\ q.by = request[r].by
    BY <2>2, <2>9, <2>10 DEF TeamRequest, Rewriting
  <2>12. Team!Reads(r, q)
    BY <1>5, <2>4, <2>6, <2>8, <2>10 DEF Team!UpdateScope
  <2>13. Entitled(q) /\ Rooted(q)
    BY <1>r, <2>1, <2>6, <2>9, <2>11 DEF Entitled, Rooted
  <2> QED BY <2>11, <2>12, <2>13, TeamGoesOn
<1>6. CASE Team!RemoveRead(r)
  <2>1. request[r].at = "remove" /\ request[r].target \in Members
    BY <1>6, <1>r, RequestsAre DEF Team!RemoveRead, Team!At, Dismissing
  <2>2. /\ member[request[r].target] \notin Team!Absent
        /\ member[request[r].target].operator \in Events
        /\ operator[member[request[r].target].operator] # Team!NoOperator
    BY <1>6, <2>1, MembersAre DEF Team!RemoveRead, TeamInv, Team!TypeOK, Peopled
  <2>3. PICK at \in {"remove owner", "remove write"} :
          Team!Reads(r, [at |-> at, target |-> request[r].target,
                         operator |-> member[request[r].target].operator])
    BY <1>6 DEF Team!RemoveRead
  <2>q. PICK q : q = [at |-> at, target |-> request[r].target,
                      operator |-> member[request[r].target].operator]
    OBVIOUS
  <2>4. /\ q \in TeamRequest /\ q.at \in {"remove owner", "remove write"}
        /\ q.operator = member[request[r].target].operator
    BY <2>1, <2>2, <2>q DEF TeamRequest, Removing
  <2>5. Entitled(q) /\ Rooted(q)
    BY <2>2, <2>4 DEF Entitled, Rooted
  <2> QED BY <2>3, <2>q, <2>4, <2>5, TeamGoesOn
<1>7. CASE Team!RemoveCount(r)
  <2>1. request[r].at = "remove owner" /\ request[r] \in Removing
    BY <1>7, <1>r, RequestsAre DEF Team!RemoveCount, Team!At
  <2>2. PICK q : q = [request[r] EXCEPT !.at = "remove write"]
    OBVIOUS
  <2>3. q \in TeamRequest /\ q.at = "remove write" /\ q.operator = request[r].operator
    BY <2>1, <2>2 DEF TeamRequest, Removing
  <2>4. Entitled(q) /\ Rooted(q)
    BY <1>r, <2>1, <2>3 DEF Entitled, Rooted
  <2> QED BY <1>7, <2>2, <2>3, <2>4, TeamGoesOn DEF Team!RemoveCount
<1> QED BY <1>1, <1>2, <1>3, <1>4, <1>5, <1>6, <1>7

\* What a write of invitations leaves.
LEMMA TeamInvites ==
  ASSUME TeamInv, NEW i \in Invitations, NEW x \in Team!Invitation,
         ByOwner(x.access.role, x.by), invitation' = [invitation EXCEPT ![i] = x],
         UNCHANGED <<operator, member, hashes, appointed, rotations>>,
         request' \in [Clerks -> TeamRequest],
         \A c \in Clerks : Entitled(request[c])' /\ Rooted(request[c])'
  PROVE  TeamInv'
<1>1. /\ invitation' \in [Invitations -> {Team!NoInvitation} \cup Team!Invitation]
      /\ invitation'[i] = x /\ \A j \in Invitations \ {i} : invitation'[j] = invitation[j]
  BY DEF TeamInv, Team!TypeOK
<1>2. Team!TypeOK'
  BY <1>1 DEF TeamInv, Team!TypeOK
<1>3. Tendered'
  BY <1>1 DEF TeamInv, Tendered
<1>4. Peopled' /\ Numbered' /\ Outdated'
  BY DEF TeamInv, Peopled, Numbered, Outdated
<1>5. Team!OwnersComeFromOwners' /\ Team!RotationsNeverLost'
  BY DEF TeamInv, Team!OwnersComeFromOwners, Team!RotationsNeverLost, Team!Owners
<1> QED BY <1>2, <1>3, <1>4, <1>5 DEF TeamInv

LEMMA InvitationsAre ==
  /\ Team!NoInvitation \notin Team!Invitation
  /\ \A x \in Team!Invitation : x.access \in Team!Access /\ x.email \in Events /\ x.by \in Roles
<1>1. Team!NoInvitation.status = "none" /\ \A x \in Team!Invitation : x.status # "none"
  BY DEF Team!NoInvitation, Team!Invitation
<1> QED BY <1>1 DEF Team!Invitation

LEMMA TeamInvitations ==
  ASSUME TeamInv,
         \/ \E r \in Clerks : \/ Team!RevokeWrite(r)
                              \/ \E i \in Invitations : Team!InviteInsert(r, i)
         \/ \E i \in Invitations : Team!ExpireInvitation(i)
  PROVE  TeamInv'
<1>1. ASSUME NEW r \in Clerks, NEW i \in Invitations, Team!InviteInsert(r, i)
      PROVE  TeamInv'
  <2>1. request[r].at = "invite pending" /\ request[r] \in Inviting
        /\ ByOwner(request[r].access.role, request[r].by)
    BY <1>1, RequestsAre DEF Team!InviteInsert, Team!At, TeamInv, Entitled
  <2>2. request[r].email \in Events /\ request[r].access \in Team!Access
        /\ request[r].by \in Roles
    BY <2>1, OperatorsAssumption DEF Inviting, Team!TeamAssumption
  <2>3. PICK x : x = [status |-> "pending", email |-> request[r].email, live |-> TRUE,
                      access |-> request[r].access, by |-> request[r].by]
    OBVIOUS
  <2>4. x \in Team!Invitation /\ ByOwner(x.access.role, x.by)
    BY <2>1, <2>2, <2>3 DEF Team!Invitation
  <2>5. /\ invitation' = [invitation EXCEPT ![i] = x] /\ Team!Ends(r)
        /\ UNCHANGED <<operator, member, hashes, appointed, rotations>>
    BY <1>1, <2>3 DEF Team!InviteInsert, Team!history
  <2>6. \A j \in Invitations : invitation[j] # Team!NoInvitation =>
          invitation'[j] # Team!NoInvitation
    BY <2>4, <2>5, InvitationsAre DEF TeamInv, Team!TypeOK
  <2>7. /\ request' \in [Clerks -> TeamRequest]
        /\ \A c \in Clerks : Entitled(request[c])' /\ Rooted(request[c])'
    BY <2>5, <2>6, TeamWrites
  <2> QED BY <2>4, <2>5, <2>7, TeamInvites
<1>2. ASSUME NEW r \in Clerks, Team!RevokeWrite(r)
      PROVE  TeamInv'
  <2>1. request[r].at = "revoke" /\ request[r] \in Tendering
        /\ invitation[request[r].invitation] # Team!NoInvitation
    BY <1>2, RequestsAre DEF Team!RevokeWrite, Team!At, TeamInv, Rooted
  <2>2. PICK i \in Invitations : i = request[r].invitation
    BY <2>1 DEF Tendering
  <2>3. invitation[i] \in Team!Invitation /\ ByOwner(invitation[i].access.role, invitation[i].by)
    BY <2>1, <2>2 DEF TeamInv, Team!TypeOK, Tendered
  <2>4. PICK x : x = [invitation[i] EXCEPT !.status = "revoked"]
    OBVIOUS
  <2>5. x \in Team!Invitation /\ x.access = invitation[i].access /\ x.by = invitation[i].by
    BY <2>3, <2>4 DEF Team!Invitation
  <2>6. /\ invitation' = [invitation EXCEPT ![i] = x] /\ Team!Ends(r)
        /\ UNCHANGED <<operator, member, hashes, appointed, rotations>>
    BY <1>2, <2>2, <2>4 DEF Team!RevokeWrite, Team!history
  <2>7. \A j \in Invitations : invitation[j] # Team!NoInvitation =>
          invitation'[j] # Team!NoInvitation
    BY <2>5, <2>6, InvitationsAre DEF TeamInv, Team!TypeOK
  <2>8. /\ request' \in [Clerks -> TeamRequest]
        /\ \A c \in Clerks : Entitled(request[c])' /\ Rooted(request[c])'
    BY <2>6, <2>7, TeamWrites
  <2> QED BY <2>3, <2>5, <2>6, <2>8, TeamInvites
<1>3. ASSUME NEW i \in Invitations, Team!ExpireInvitation(i)
      PROVE  TeamInv'
  <2>1. invitation[i] \in Team!Invitation /\ ByOwner(invitation[i].access.role, invitation[i].by)
    BY <1>3 DEF Team!ExpireInvitation, TeamInv, Team!TypeOK, Tendered
  <2>2. PICK x : x = [invitation[i] EXCEPT !.live = FALSE]
    OBVIOUS
  <2>3. x \in Team!Invitation /\ x.access = invitation[i].access /\ x.by = invitation[i].by
    BY <2>1, <2>2 DEF Team!Invitation
  <2>4. /\ invitation' = [invitation EXCEPT ![i] = x]
        /\ UNCHANGED <<operator, member, request, hashes, appointed, rotations>>
    BY <1>3, <2>2 DEF Team!ExpireInvitation, Team!history
  <2>5. \A j \in Invitations : invitation[j] # Team!NoInvitation =>
          invitation'[j] # Team!NoInvitation
    BY <2>3, <2>4, InvitationsAre DEF TeamInv, Team!TypeOK
  <2>6. request' \in [Clerks -> TeamRequest]
        /\ \A c \in Clerks : Entitled(request[c])'
    BY <2>4 DEF TeamInv, Entitled
  <2>7. ASSUME NEW c \in Clerks
        PROVE  Rooted(request[c])'
    <3>0. request[c] \in TeamRequest
      BY DEF TeamInv
    <3>1. request[c].at \in {"accept", "revoke"} => request[c].invitation \in Invitations
      BY <3>0, RequestsAre DEF Tendering
    <3> QED BY <2>4, <2>5, <3>1 DEF TeamInv, Rooted
  <2> QED BY <2>1, <2>3, <2>4, <2>6, <2>7, TeamInvites
<1> QED BY <1>1, <1>2, <1>3

LEMMA OperatorsAre ==
  LET Someone == [status : {"active", "disabled"}, hash : 1 .. MaxHashes, version : Nat] IN
  /\ Team!NoOperator \notin Someone
  /\ \A x \in Someone : /\ x.hash \in 1 .. MaxHashes /\ x.version \in Nat
                        /\ [x EXCEPT !.status = "disabled"] \in Someone
                        /\ [x EXCEPT !.status = "disabled"].hash = x.hash
<1> DEFINE Someone == [status : {"active", "disabled"}, hash : 1 .. MaxHashes, version : Nat]
<1>1. Team!NoOperator.status = "none" /\ \A x \in Someone : x.status # "none"
  BY DEF Team!NoOperator
<1> QED BY <1>1

LEMMA TeamRotates ==
  ASSUME TeamInv, NEW r \in Clerks, Team!RotateWrite(r)
  PROVE  TeamInv'
<1> DEFINE Someone == [status : {"active", "disabled"}, hash : 1 .. MaxHashes, version : Nat]
<1>1. PICK o \in Events, seen \in Nat :
        /\ o = request[r].operator /\ seen = request[r].seen
        /\ operator[o] # Team!NoOperator
  <2>1. request[r].at = "rotate" /\ request[r] \in TeamRequest /\ Rooted(request[r])
    BY DEF Team!RotateWrite, Team!At, TeamInv
  <2>2. request[r].operator \in Events /\ request[r].seen \in Nat
    BY <2>1, RequestsAre DEF Rotating
  <2> QED BY <2>1, <2>2 DEF Rooted
<1>2. operator[o] \in Someone /\ hashes \in 0 .. MaxHashes /\ MaxHashes \in Nat
      /\ hashes < MaxHashes
  BY <1>1, OperatorsAssumption DEF TeamInv, Team!TypeOK, Team!TeamAssumption, Team!RotateWrite
<1>3. /\ Team!Ends(r) /\ UNCHANGED <<member, invitation, appointed>>
  BY DEF Team!RotateWrite
<1>4. CASE operator[o].hash = seen
  <2>1. PICK x : x = [operator[o] EXCEPT !.hash = hashes + 1, !.version = @ + 1]
    OBVIOUS
  <2>2. x \in Someone /\ x.hash = hashes + 1
    <3>1. hashes + 1 \in 1 .. MaxHashes /\ operator[o].version + 1 \in Nat
      BY <1>2
    <3>2. x = [status |-> operator[o].status, hash |-> hashes + 1,
               version |-> operator[o].version + 1]
      BY <1>2, <2>1
    <3>3. operator[o].status \in {"active", "disabled"}
      BY <1>2
    <3> QED BY <3>1, <3>2, <3>3
  <2>3. /\ operator' = [operator EXCEPT ![o] = x] /\ hashes' = hashes + 1
        /\ rotations' = rotations \cup {<<o, seen, hashes + 1>>}
    BY <1>1, <1>4, <2>1 DEF Team!RotateWrite, Team!Unrotated
  <2>4. operator'[o] = x /\ \A p \in Events \ {o} : operator'[p] = operator[p]
    BY <2>3 DEF TeamInv, Team!TypeOK
  <2>5. \A p \in Events : operator[p] # Team!NoOperator => operator'[p] # Team!NoOperator
    BY <2>2, <2>4, OperatorsAre
  <2>6. /\ request' \in [Clerks -> TeamRequest]
        /\ \A c \in Clerks : Entitled(request[c])' /\ Rooted(request[c])'
    BY <1>3, <2>5, TeamWrites
  <2>7. operator' \in [Events -> {Team!NoOperator} \cup Someone] /\ hashes' \in 0 .. MaxHashes
    BY <1>2, <2>2, <2>3 DEF TeamInv, Team!TypeOK
  <2>8. Team!TypeOK'
    BY <1>3, <2>7 DEF TeamInv, Team!TypeOK
  <2>9. Tendered' /\ Team!OwnersComeFromOwners'
    BY <1>3 DEF TeamInv, Tendered, Team!OwnersComeFromOwners, Team!Owners
  <2>10. ASSUME NEW m \in Members, member'[m] \notin Team!Absent
         PROVE  operator'[member'[m].operator] # Team!NoOperator
    <3>1. member[m].operator \in Events /\ operator[member[m].operator] # Team!NoOperator
      BY <1>3, <2>10, MembersAre DEF TeamInv, Team!TypeOK, Peopled
    <3> QED BY <1>3, <2>5, <3>1
  <2>11. \A p \in Events : operator[p].hash \in Nat /\ operator[p].hash <= hashes
    <3>1. Team!NoOperator.hash = 0
      BY DEF Team!NoOperator
    <3>2. \A p \in Events : operator[p].hash \in Nat
      BY <1>2, <3>1, OperatorsAre DEF TeamInv, Team!TypeOK
    <3> QED BY <3>2 DEF TeamInv, Numbered
  <2>12. Numbered'
    BY <1>2, <2>2, <2>3, <2>4, <2>11 DEF Numbered
  <2>13. /\ rotations' \subseteq Events \X Nat \X Nat
         /\ \A y \in rotations : y[2] \in Nat /\ y[1] \in Events /\ y[2] < operator[y[1]].hash
    BY <1>1, <1>2, <2>3 DEF TeamInv, Outdated
  <2>14. ASSUME NEW y \in rotations'
         PROVE  y[2] < operator'[y[1]].hash
    <3>1. CASE y = <<o, seen, hashes + 1>>
      <4>1. y[1] = o /\ y[2] = seen
        BY <3>1
      <4> QED BY <1>2, <1>4, <2>2, <2>4, <2>11, <4>1
    <3>2. CASE y \in rotations
      <4>1. CASE y[1] = o
        BY <1>2, <2>2, <2>4, <2>11, <2>13, <3>2, <4>1
      <4>2. CASE y[1] # o
        BY <2>4, <2>13, <3>2, <4>2
      <4> QED BY <4>1, <4>2
    <3> QED BY <2>3, <3>1, <3>2
  <2>15. Outdated'
    BY <2>13, <2>14 DEF Outdated
  <2>16. \A y \in rotations : y[1] = o => y[2] < seen
    BY <1>4, <2>13
  <2>17. Team!RotationsNeverLost'
    BY <2>3, <2>16 DEF TeamInv, Team!RotationsNeverLost
  <2> QED BY <2>6, <2>8, <2>9, <2>10, <2>12, <2>15, <2>17 DEF TeamInv, Peopled
<1>5. CASE operator[o].hash # seen
  <2>1. UNCHANGED <<operator, hashes, rotations>>
    BY <1>1, <1>5 DEF Team!RotateWrite, Team!Unrotated
  <2>2. request' = [request EXCEPT ![r] = Team!Idle]
    BY <1>3 DEF Team!Ends, Team!Goes
  <2>3. Entitled(Team!Idle) /\ Rooted(Team!Idle)
    BY RequestsAre DEF Entitled, Rooted
  <2> QED BY <1>3, <2>1, <2>2, <2>3, RequestsAre, TeamReads
<1> QED BY <1>4, <1>5

\* The hashes of the operators are numbers up to the last one made.
LEMMA HashesAre ==
  ASSUME TeamInv
  PROVE  \A o \in Events : operator[o].hash \in Nat /\ operator[o].hash <= hashes
<1> DEFINE Someone == [status : {"active", "disabled"}, hash : 1 .. MaxHashes, version : Nat]
<1>1. Team!NoOperator.hash = 0
  BY DEF Team!NoOperator
<1>2. \A x \in Someone : x.hash \in Nat
  BY OperatorsAssumption DEF Team!TeamAssumption
<1>3. \A o \in Events : operator[o].hash \in Nat
  BY <1>1, <1>2 DEF TeamInv, Team!TypeOK
<1> QED BY <1>3 DEF TeamInv, Numbered

\* An operator that gets a membership in place of those it had.
LEMMA TeamJoins ==
  ASSUME TeamInv, NEW r \in Clerks, Team!Ends(r), NEW m \in Members, NEW o \in Events,
         NEW given \in Team!Access, NEW version \in Nat, hashes < MaxHashes,
         operator' = [operator EXCEPT ![o] =
                        [status |-> "active", hash |-> hashes + 1, version |-> version]],
         member' = [n \in Members |->
           IF n = m THEN [status |-> "member", operator |-> o, access |-> given]
           ELSE IF n \in Team!MembershipOf(o) THEN Team!Gone ELSE member[n]],
         hashes' = hashes + 1, rotations' = rotations,
         invitation' \in [Invitations -> {Team!NoInvitation} \cup Team!Invitation], Tendered',
         \A i \in Invitations : invitation[i] # Team!NoInvitation =>
           invitation'[i] # Team!NoInvitation,
         appointed' \subseteq Events, appointed \ {o} \subseteq appointed',
         given.role = "owner" => o \in appointed'
  PROVE  TeamInv'
<1> DEFINE Someone == [status : {"active", "disabled"}, hash : 1 .. MaxHashes, version : Nat]
<1>1. PICK x, y : /\ x = [status |-> "active", hash |-> hashes + 1, version |-> version]
                  /\ y = [status |-> "member", operator |-> o, access |-> given]
  OBVIOUS
<1>2. hashes \in Nat /\ hashes + 1 \in 1 .. MaxHashes /\ hashes' \in 0 .. MaxHashes
  BY OperatorsAssumption DEF TeamInv, Team!TypeOK, Team!TeamAssumption
<1>3. x \in Someone /\ x.hash = hashes + 1
  BY <1>1, <1>2
<1>4. y \in Team!Member /\ y \notin Team!Absent /\ y.operator = o /\ y.access = given
  BY <1>1, MembersAre
<1>5. /\ operator' \in [Events -> {Team!NoOperator} \cup Someone]
      /\ operator'[o] = x /\ \A p \in Events \ {o} : operator'[p] = operator[p]
  BY <1>1, <1>3 DEF TeamInv, Team!TypeOK
<1>6. ASSUME NEW n \in Members
      PROVE  /\ member'[n] \in Team!Absent \cup Team!Member
             /\ n = m => member'[n] = y
             /\ n # m /\ member'[n] \notin Team!Absent =>
                  member'[n] = member[n] /\ member[n].operator \in Events \ {o}
  <2>1. member[n] \in Team!Absent \cup Team!Member
    BY DEF TeamInv, Team!TypeOK
  <2>2. CASE n = m
    BY <1>1, <1>4, <2>2
  <2>3. CASE n # m /\ n \in Team!MembershipOf(o)
    BY <2>3, MembersAre
  <2>4. CASE n # m /\ n \notin Team!MembershipOf(o)
    BY <2>1, <2>4, MembersAre DEF Team!MembershipOf
  <2> QED BY <2>2, <2>3, <2>4
<1>7. \A n \in Members : member'[n] \notin Team!Absent =>
        member'[n].operator \in Events /\ (member'[n].operator = o <=> n = m)
  BY <1>4, <1>6
<1>8. \A p \in Events : operator[p] # Team!NoOperator => operator'[p] # Team!NoOperator
  BY <1>3, <1>5, OperatorsAre
<1>9. /\ request' \in [Clerks -> TeamRequest]
      /\ \A c \in Clerks : Entitled(request[c])' /\ Rooted(request[c])'
  BY <1>8, TeamWrites
<1>10. ASSUME NEW n \in Members, NEW k \in Members, member'[n] \notin Team!Absent,
              member'[k] \notin Team!Absent, n # k
       PROVE  member'[n].operator # member'[k].operator
  <2>1. CASE n = m \/ k = m
    BY <1>7, <1>10, <2>1
  <2>2. CASE n # m /\ k # m
    BY <1>6, <1>10, <2>2 DEF TeamInv, Team!TypeOK
  <2> QED BY <2>1, <2>2
<1>11. member' \in [Members -> Team!Absent \cup Team!Member]
  BY <1>6
<1>12. Team!TypeOK'
  BY <1>2, <1>5, <1>10, <1>11 DEF Team!TypeOK
<1>13. ASSUME NEW n \in Members, member'[n] \notin Team!Absent
       PROVE  operator'[member'[n].operator] # Team!NoOperator
  <2>1. CASE n = m
    BY <1>3, <1>4, <1>5, <1>6, <2>1, OperatorsAre
  <2>2. CASE n # m
    BY <1>6, <1>8, <1>13, <2>2 DEF TeamInv, Peopled
  <2> QED BY <2>1, <2>2
<1>14. Peopled'
  BY <1>13 DEF Peopled
<1>15. Numbered'
  BY <1>2, <1>3, <1>5, HashesAre DEF Numbered
<1>16. /\ rotations \subseteq Events \X Nat \X Nat
       /\ \A z \in rotations : z[2] \in Nat /\ z[1] \in Events /\ z[2] < operator[z[1]].hash
  BY DEF TeamInv, Outdated
<1>17. \A z \in rotations : z[2] < operator'[z[1]].hash
  BY <1>2, <1>3, <1>5, <1>16, HashesAre
<1>18. Outdated' /\ Team!RotationsNeverLost'
  BY <1>16, <1>17 DEF Outdated, TeamInv, Team!RotationsNeverLost
<1>19. ASSUME NEW n \in Members, member'[n] \notin Team!Absent,
              member'[n].access.role = "owner"
       PROVE  member'[n].operator \in appointed'
  <2>1. CASE n = m
    BY <1>4, <1>6, <1>19, <2>1
  <2>2. CASE n # m
    BY <1>6, <1>19, <2>2 DEF TeamInv, Team!OwnersComeFromOwners, Team!Owners
  <2> QED BY <2>1, <2>2
<1>20. Team!OwnersComeFromOwners'
  BY <1>19 DEF Team!OwnersComeFromOwners, Team!Owners
<1> QED BY <1>9, <1>12, <1>14, <1>15, <1>18, <1>20 DEF TeamInv

LEMMA TeamBegins ==
  ASSUME TeamInv, NEW r \in Clerks, NEW m \in Members, Team!BootstrapWrite(r, m)
  PROVE  TeamInv'
<1>1. request[r].at = "bootstrap" /\ request[r] \in TeamRequest
  BY DEF Team!BootstrapWrite, Team!At, TeamInv
<1>2. PICK o \in Events : o = request[r].operator
  BY <1>1, RequestsAre DEF Bootstrapping
<1>3. PICK given : given = [role |-> "owner", scope |-> "all", apps |-> {}]
  OBVIOUS
<1>4. given \in Team!Access
  BY <1>3, OperatorsAssumption DEF Team!Access, Team!Scopes, Team!TeamAssumption
<1>5. /\ operator[o] = Team!NoOperator /\ Team!Ends(r) /\ hashes < MaxHashes
      /\ operator' = [operator EXCEPT ![o] =
                        [status |-> "active", hash |-> hashes + 1, version |-> 0]]
      /\ member' = [member EXCEPT ![m] =
                      [status |-> "member", operator |-> o, access |-> given]]
      /\ appointed' = appointed \cup {o} /\ hashes' = hashes + 1
      /\ UNCHANGED <<invitation, rotations>>
  BY <1>2, <1>3 DEF Team!BootstrapWrite
<1>6. Team!MembershipOf(o) = {}
  BY <1>5 DEF Team!MembershipOf, TeamInv, Peopled
<1>7. member' = [n \in Members |->
        IF n = m THEN [status |-> "member", operator |-> o, access |-> given]
        ELSE IF n \in Team!MembershipOf(o) THEN Team!Gone ELSE member[n]]
  BY <1>5, <1>6 DEF TeamInv, Team!TypeOK
<1>8. /\ invitation' \in [Invitations -> {Team!NoInvitation} \cup Team!Invitation]
      /\ Tendered' /\ appointed' \subseteq Events
  BY <1>5 DEF TeamInv, Team!TypeOK, Tendered
<1> QED BY <1>4, <1>5, <1>7, <1>8, TeamJoins

LEMMA TeamAccepts ==
  ASSUME TeamInv, NEW r \in Clerks, NEW m \in Members, Team!AcceptWrite(r, m)
  PROVE  TeamInv'
<1>1. request[r].at = "accept" /\ request[r] \in TeamRequest /\ Rooted(request[r])
  BY DEF Team!AcceptWrite, Team!At, TeamInv
<1>2. PICK i \in Invitations : i = request[r].invitation /\ invitation[i] # Team!NoInvitation
  BY <1>1, RequestsAre DEF Tendering, Rooted
<1>3. invitation[i] \in Team!Invitation /\ ByOwner(invitation[i].access.role, invitation[i].by)
  BY <1>2 DEF TeamInv, Team!TypeOK, Tendered
<1>4. PICK o \in Events, given \in Team!Access, by \in Roles :
        /\ o = invitation[i].email /\ given = invitation[i].access /\ by = invitation[i].by
  BY <1>3, InvitationsAre
<1>5. PICK version : version = operator[o].version
  OBVIOUS
<1>6. version \in Nat
  <2>1. Team!NoOperator.version = 0
    BY DEF Team!NoOperator
  <2> QED BY <1>5, <2>1, OperatorsAre DEF TeamInv, Team!TypeOK
<1>7. PICK x : x = [invitation[i] EXCEPT !.status = "accepted"]
  OBVIOUS
<1>8. x \in Team!Invitation /\ x.access = given /\ x.by = by
  BY <1>3, <1>4, <1>7 DEF Team!Invitation
<1>9. /\ Team!Ends(r) /\ hashes < MaxHashes
      /\ operator' = [operator EXCEPT ![o] =
                        [status |-> "active", hash |-> hashes + 1, version |-> version]]
      /\ member' = [n \in Members |->
           IF n = m THEN [status |-> "member", operator |-> o, access |-> given]
           ELSE IF n \in Team!MembershipOf(o) THEN Team!Gone ELSE member[n]]
      /\ invitation' = [invitation EXCEPT ![i] = x]
      /\ appointed' = Team!Appointed(o, given.role, by)
      /\ hashes' = hashes + 1 /\ rotations' = rotations
  BY <1>2, <1>4, <1>5, <1>7 DEF Team!AcceptWrite
<1>10. /\ invitation' \in [Invitations -> {Team!NoInvitation} \cup Team!Invitation]
       /\ invitation'[i] = x /\ \A j \in Invitations \ {i} : invitation'[j] = invitation[j]
  BY <1>8, <1>9 DEF TeamInv, Team!TypeOK
<1>11. Tendered'
  BY <1>3, <1>4, <1>8, <1>10 DEF TeamInv, Tendered
<1>12. \A j \in Invitations : invitation[j] # Team!NoInvitation =>
         invitation'[j] # Team!NoInvitation
  BY <1>8, <1>10, InvitationsAre
<1>13. /\ appointed' \subseteq Events /\ appointed \ {o} \subseteq appointed'
       /\ given.role = "owner" => o \in appointed'
  BY <1>3, <1>4, <1>9 DEF Team!Appointed, ByOwner, TeamInv, Team!TypeOK
<1> QED BY <1>6, <1>9, <1>10, <1>11, <1>12, <1>13, TeamJoins

LEMMA TeamUpdates ==
  ASSUME TeamInv, NEW r \in Clerks, Team!UpdateWrite(r)
  PROVE  TeamInv'
<1>1. /\ request[r].at = "update write" /\ request[r] \in TeamRequest
      /\ Entitled(request[r]) /\ Team!Ends(r)
      /\ UNCHANGED <<operator, invitation, hashes, rotations>>
  BY DEF Team!UpdateWrite, Team!At, TeamInv
<1>2. PICK q : q = request[r]
  OBVIOUS
<1>3. /\ q.target \in Members /\ q.access \in Team!Access /\ q.by \in Roles
      /\ ByOwner(q.access.role, q.by)
  BY <1>1, <1>2, RequestsAre DEF Rewriting, Entitled
<1>4. /\ request' \in [Clerks -> TeamRequest]
      /\ \A c \in Clerks : Entitled(request[c])' /\ Rooted(request[c])'
  BY <1>1, TeamWrites
<1>5. Tendered' /\ Numbered' /\ Outdated' /\ Team!RotationsNeverLost'
  BY <1>1 DEF TeamInv, Tendered, Numbered, Outdated, Team!RotationsNeverLost
<1>6. CASE member[q.target] \in Team!Absent
  <2>1. UNCHANGED <<member, appointed>>
    BY <1>2, <1>6 DEF Team!UpdateWrite
  <2>2. Team!TypeOK' /\ Peopled' /\ Team!OwnersComeFromOwners'
    BY <1>1, <2>1 DEF TeamInv, Team!TypeOK, Peopled, Team!OwnersComeFromOwners, Team!Owners
  <2> QED BY <1>4, <1>5, <2>2 DEF TeamInv
<1>7. CASE member[q.target] \notin Team!Absent
  <2>1. PICK m \in Members : m = q.target
    BY <1>3
  <2>2. /\ member[m] \in Team!Member /\ member[m].operator \in Events
        /\ member[m].access \in Team!Access
    BY <1>7, <2>1, MembersAre DEF TeamInv, Team!TypeOK
  <2>3. PICK apps :
          /\ apps = IF ~(q.change.scope # Keep \/ q.change.apps # Keep)
                    THEN member[m].access.apps
                    ELSE IF q.access.scope = "restricted" THEN q.access.apps ELSE {}
          /\ member' = [member EXCEPT ![m].access = [q.access EXCEPT !.apps = apps]]
          /\ appointed' = Team!Appointed(member[m].operator, q.access.role, q.by)
    BY <1>2, <1>7, <2>1 DEF Team!UpdateWrite
  <2>4. apps \in SUBSET Apps
    BY <1>3, <2>2, <2>3 DEF Team!Access
  <2>5. PICK given : given = [q.access EXCEPT !.apps = apps]
    OBVIOUS
  <2>6. given \in Team!Access /\ given.role = q.access.role
    BY <1>3, <2>4, <2>5 DEF Team!Access
  <2>7. PICK x : x = [member[m] EXCEPT !.access = given]
    OBVIOUS
  <2>8. x \in Team!Member /\ x.operator = member[m].operator /\ x.access = given
    BY <2>2, <2>6, <2>7 DEF Team!Member
  <2>9. /\ member' \in [Members -> Team!Absent \cup Team!Member]
        /\ member'[m] = x /\ \A n \in Members \ {m} : member'[n] = member[n]
    BY <2>3, <2>5, <2>7, <2>8 DEF TeamInv, Team!TypeOK
  <2>10. \A n \in Members : member'[n] \notin Team!Absent =>
           /\ member[n] \notin Team!Absent /\ member'[n].operator = member[n].operator
           /\ member[n].operator \in Events
    BY <1>7, <2>1, <2>8, <2>9, MembersAre DEF TeamInv, Team!TypeOK
  <2>11. appointed' \subseteq Events
    BY <2>2, <2>3 DEF Team!Appointed, TeamInv, Team!TypeOK
  <2>12. Team!TypeOK'
    BY <1>1, <2>9, <2>10, <2>11 DEF TeamInv, Team!TypeOK
  <2>13. Peopled'
    BY <1>1, <2>10 DEF TeamInv, Peopled
  <2>14. ASSUME NEW n \in Members, member'[n] \notin Team!Absent,
                member'[n].access.role = "owner"
         PROVE  member'[n].operator \in appointed'
    <3>1. CASE n = m
      <4>1. q.access.role = "owner" /\ q.by = "owner"
        BY <1>3, <2>6, <2>8, <2>9, <2>14, <3>1 DEF ByOwner
      <4> QED BY <2>3, <2>8, <2>9, <3>1, <4>1 DEF Team!Appointed
    <3>2. CASE n # m
      <4>1. member[n].operator \in appointed
        BY <2>9, <2>14, <3>2 DEF TeamInv, Team!OwnersComeFromOwners, Team!Owners
      <4>2. member[n].operator # member[m].operator
        BY <1>7, <2>1, <2>9, <2>14, <3>2 DEF TeamInv, Team!TypeOK
      <4> QED BY <2>3, <2>9, <3>2, <4>1, <4>2 DEF Team!Appointed
    <3> QED BY <3>1, <3>2
  <2>15. Team!OwnersComeFromOwners'
    BY <2>14 DEF Team!OwnersComeFromOwners, Team!Owners
  <2> QED BY <1>4, <1>5, <2>12, <2>13, <2>15 DEF TeamInv
<1> QED BY <1>6, <1>7

LEMMA TeamRemoves ==
  ASSUME TeamInv, NEW r \in Clerks, Team!RemoveWrite(r)
  PROVE  TeamInv'
<1> DEFINE Someone == [status : {"active", "disabled"}, hash : 1 .. MaxHashes, version : Nat]
<1>1. /\ request[r].at = "remove write" /\ request[r] \in TeamRequest /\ Rooted(request[r])
      /\ Team!Ends(r) /\ UNCHANGED <<invitation, hashes, appointed, rotations>>
  BY DEF Team!RemoveWrite, Team!At, TeamInv, Team!history
<1>2. PICK o \in Events, m \in Members :
        /\ o = request[r].operator /\ m = request[r].target
        /\ operator[o] # Team!NoOperator
  BY <1>1, RequestsAre DEF Removing, Rooted
<1>3. PICK x : x = [operator[o] EXCEPT !.status = "disabled"]
  OBVIOUS
<1>4. operator[o] \in Someone
  BY <1>2 DEF TeamInv, Team!TypeOK
<1>5. x \in Someone /\ x # Team!NoOperator /\ x.hash = operator[o].hash
  BY <1>3, <1>4, OperatorsAre
<1>6. operator' = [operator EXCEPT ![o] = x] /\ member' = [member EXCEPT ![m] = Team!Gone]
  BY <1>2, <1>3 DEF Team!RemoveWrite
<1>7. /\ operator' \in [Events -> {Team!NoOperator} \cup Someone]
      /\ operator'[o] = x /\ \A p \in Events \ {o} : operator'[p] = operator[p]
  BY <1>5, <1>6 DEF TeamInv, Team!TypeOK
<1>8. /\ member' \in [Members -> Team!Absent \cup Team!Member]
      /\ \A n \in Members : member'[n] \notin Team!Absent => member'[n] = member[n]
  BY <1>6, MembersAre DEF TeamInv, Team!TypeOK
<1>9. /\ \A p \in Events : operator'[p].hash = operator[p].hash
      /\ \A p \in Events : operator[p] # Team!NoOperator => operator'[p] # Team!NoOperator
  BY <1>5, <1>7
<1>10. /\ request' \in [Clerks -> TeamRequest]
       /\ \A c \in Clerks : Entitled(request[c])' /\ Rooted(request[c])'
  BY <1>1, <1>9, TeamWrites
<1>11. Team!TypeOK'
  BY <1>1, <1>7, <1>8 DEF TeamInv, Team!TypeOK
<1>12. Tendered' /\ Numbered' /\ Team!RotationsNeverLost'
  BY <1>1, <1>9 DEF TeamInv, Tendered, Numbered, Team!RotationsNeverLost
<1>13. Outdated'
  <2>1. \A z \in rotations : z[1] \in Events
    BY DEF TeamInv, Outdated
  <2> QED BY <1>1, <1>9, <2>1 DEF TeamInv, Outdated
<1>14. Peopled'
  <2>1. \A n \in Members : member[n] \notin Team!Absent =>
          member[n].operator \in Events /\ operator[member[n].operator] # Team!NoOperator
    BY MembersAre DEF TeamInv, Team!TypeOK, Peopled
  <2> QED BY <1>8, <1>9, <2>1 DEF Peopled
<1>15. Team!OwnersComeFromOwners'
  BY <1>1, <1>8 DEF TeamInv, Team!OwnersComeFromOwners, Team!Owners
<1> QED BY <1>10, <1>11, <1>12, <1>13, <1>14, <1>15 DEF TeamInv

LEMMA TeamStep ==
  ASSUME TeamInv, Team!Next
  PROVE  TeamInv'
BY TeamStarts, TeamLooks, TeamInvitations, TeamRotates, TeamBegins, TeamAccepts,
   TeamUpdates, TeamRemoves DEF Team!Next

LEMMA TeamStart ==
  ASSUME Team!Init
  PROVE  TeamInv
<1>1. request \in [Clerks -> TeamRequest] /\ \A r \in Clerks : request[r].at = "idle"
  BY RequestsAre DEF Team!Init
<1>2. \A r \in Clerks : Entitled(request[r]) /\ Rooted(request[r])
  BY <1>1 DEF Entitled, Rooted
<1>3. \A m \in Members : member[m] \in Team!Absent
  BY MembersAre DEF Team!Init
<1>4. Team!TypeOK
  BY <1>3, OperatorsAssumption DEF Team!Init, Team!TypeOK, Team!TeamAssumption
<1>5. \A o \in Events : operator[o].hash = 0
  BY DEF Team!Init, Team!NoOperator
<1>6. Tendered /\ Peopled /\ Numbered /\ Outdated
  BY <1>3, <1>5 DEF Team!Init, Tendered, Peopled, Numbered, Outdated
<1>7. Team!OwnersComeFromOwners /\ Team!RotationsNeverLost
  BY <1>3 DEF Team!Init, Team!OwnersComeFromOwners, Team!Owners, Team!RotationsNeverLost
<1> QED BY <1>1, <1>2, <1>4, <1>6, <1>7 DEF TeamInv

LEMMA TeamAlways ==
  MCSpec => []TeamInv
<1>1. MCInit => TeamInv
  BY TeamStart DEF MCInit
<1>2. TeamInv /\ [MCNext]_<<component, journalVars, people>> => TeamInv'
  <2> SUFFICES ASSUME TeamInv, [MCNext]_<<component, journalVars, people>>
               PROVE  TeamInv'
    OBVIOUS
  <2>1. CASE Team!Next
    BY <2>1, TeamStep
  <2>2. CASE UNCHANGED people
    <3>1. /\ UNCHANGED <<operator, member, invitation, hashes, appointed, rotations>>
          /\ request' = request
      BY <2>2 DEF people
    <3>2. \A r \in Clerks : Entitled(request[r])' /\ Rooted(request[r])'
      BY <3>1 DEF TeamInv, Entitled, Rooted
    <3>3. Team!TypeOK'
      BY <3>1 DEF TeamInv, Team!TypeOK
    <3>4. Tendered' /\ Peopled' /\ Numbered' /\ Outdated'
      BY <3>1 DEF TeamInv, Tendered, Peopled, Numbered, Outdated
    <3>5. Team!OwnersComeFromOwners' /\ Team!RotationsNeverLost'
      BY <3>1 DEF TeamInv, Team!OwnersComeFromOwners, Team!RotationsNeverLost, Team!Owners
    <3> QED BY <3>1, <3>2, <3>3, <3>4, <3>5 DEF TeamInv
  <2> QED BY <2>1, <2>2 DEF MCNext
<1> QED BY <1>1, <1>2, PTL DEF MCSpec

(* Whatever was read before another request wrote, and however a stale role *)
(* came to be written back, an owner was made one by an owner or by the     *)
(* first login (assertCanManageTarget in team/service.ts).                  *)
THEOREM OwnersAlwaysFromOwners ==
  MCSpec => []OwnersComeFromOwners
<1>1. TeamInv => OwnersComeFromOwners
  BY DEF TeamInv, OwnersComeFromOwners
<1> QED BY <1>1, TeamAlways, PTL

(* Two overlapping changes of a password never both succeed: the one that   *)
(* verified the password before the other's is refused (the conditional     *)
(* update of the hash in team/service.ts).                                  *)
THEOREM RotationsAlwaysKept ==
  MCSpec => []RotationsNeverLost
<1>1. TeamInv => RotationsNeverLost
  BY DEF TeamInv, RotationsNeverLost
<1> QED BY <1>1, TeamAlways, PTL

-------------------------------------------------------------------------------
(* Both components of the run.                                             *)

LEMMA RefundAlways == MCSpec => []RefundInv
<1>1. MCInit => RefundInv
  BY RefundStart DEF MCInit
<1>2. RefundInv /\ [MCNext]_<<component, journalVars, people>> => RefundInv'
  BY RefundKeeps DEF MCNext
<1> QED BY <1>1, <1>2, PTL DEF MCSpec

(* Every row of the journal says why it failed or what was answered, exactly *)
(* when it may be reconciled, and every request of an operator is one the    *)
(* code makes (billing_operations, the memberships and invitations).         *)
THEOREM OperatorsAlwaysTyped == MCSpec => []OperatorsTypeOK
<1>1. RefundInv => JournalTypeOK
  BY DEF RefundInv, JournalTypeOK, JournalTypes, Results, Errand
<1>2. TeamInv => Team!TypeOK
  BY DEF TeamInv
<1>3. RefundInv /\ TeamInv => OperatorsTypeOK
  BY <1>1, <1>2 DEF OperatorsTypeOK
<1> QED BY <1>3, RefundAlways, TeamAlways, PTL
===============================================================================
