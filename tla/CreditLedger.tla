----------------------------- MODULE CreditLedger -----------------------------
(***************************************************************************)
(* The credits of one customer for one credit type in one environment: the *)
(* credit_accounts row, the grant buckets behind it, the reservations      *)
(* against it, and the credit_transactions ledger.                         *)
(*                                                                         *)
(* Every action is one database transaction.  The transactions that touch  *)
(* an account take its row lock (an UPDATE or SELECT ... FOR UPDATE of     *)
(* credit_accounts) before they read or write its buckets, so they are     *)
(* serialised per account and one step stands for one of them.  The two    *)
(* operations that read before they lock are split at that point: the      *)
(* expiry sweep (scan, then one transaction per bucket) and the            *)
(* subscription clawback (discovery, then the locked phase).               *)
(*                                                                         *)
(*   now          the clock new Date() reads                               *)
(*   available    credit_accounts.available_balance                        *)
(*   reserved     credit_accounts.reserved_balance                         *)
(*   remaining    credit_buckets.remaining_amount                          *)
(*   status       credit_buckets.status ("none": no such row)              *)
(*   expiresAt    credit_buckets.expires_at (Never: NULL)                  *)
(*   source       credit_buckets.source_type                               *)
(*   held         credit_reservations.reserved_amount, by its key          *)
(*   resStatus    credit_reservations.status ("none": no such row)         *)
(*   ledger       credit_transactions by client idempotency key            *)
(*   reversals    credit_transactions the system keys itself               *)
(*   sweep        the due buckets each running sweep has still to visit    *)
(*   discovered   the buckets each running clawback found in phase 1       *)
(*                                                                         *)
(* A call whose key is already in the ledger answers with the entry it     *)
(* finds or a conflict, and a call that throws is rolled back: neither     *)
(* changes the state, so neither is an action.                             *)
(***************************************************************************)
EXTENDS Totals

CONSTANTS
  Keys,        \* client idempotency keys
  Buckets,     \* credit_buckets.id, in the order that breaks ties
  Sweepers,    \* overlapping runs of the expiry cron
  Clawbacks,   \* overlapping cancellations of the subscription
  MaxTime,     \* the clock stops here
  NoEntry      \* no ledger row for a key

ASSUME LedgerAssumption ==
  /\ IsFiniteSet(Keys)
  /\ IsFiniteSet(Buckets) /\ Buckets \subseteq Nat
  /\ MaxTime \in Nat

VARIABLES now, available, reserved, remaining, status, expiresAt, source,
          held, resStatus, ledger, reversals, sweep, discovered

account == <<available, reserved>>
bucketRows == <<remaining, status, expiresAt, source>>
reservationRows == <<held, resStatus>>
vars == <<now, available, reserved, remaining, status, expiresAt, source,
          held, resStatus, ledger, reversals, sweep, discovered>>

Never == MaxTime + 1
Sources == {"purchase", "subscription"}
BucketStatus == {"none", "active", "consumed", "expired", "reversed"}
ReservationStatus == {"none", "active", "captured", "released"}

\* A ledger row written under a client's key.  The sign of its amount is
\* that of its type; of is the bucket or the reservation it is about.
Entry == [type : {"grant"}, amount : 1 .. MaxAmount, of : Buckets]
         \cup [type : {"debit.usage", "reserve.usage", "capture.usage",
                       "release.usage"},
               amount : 1 .. MaxAmount, of : Keys]

\* A ledger row under expire:<bucket>:before:<n> or revoke:...:before:<n>.
Reversal == [type : {"grant.expired", "grant.revoked"}, bucket : Buckets,
             before : 1 .. MaxAmount, amount : 1 .. MaxAmount]

ASSUME NoEntryAssumption == NoEntry \notin Entry

TypeOK ==
  /\ now \in 0 .. MaxTime
  /\ available \in Nat
  /\ reserved \in Nat
  /\ remaining \in [Buckets -> Amounts]
  /\ status \in [Buckets -> BucketStatus]
  /\ expiresAt \in [Buckets -> 1 .. Never]
  /\ source \in [Buckets -> Sources]
  /\ held \in [Keys -> Amounts]
  /\ resStatus \in [Keys -> ReservationStatus]
  /\ ledger \in [Keys -> Entry \cup {NoEntry}]
  /\ reversals \subseteq Reversal
  /\ sweep \in [Sweepers -> SUBSET Buckets]
  /\ discovered \in [Clawbacks -> SUBSET Buckets]

-------------------------------------------------------------------------------
(* Buckets.                                                                *)

Active == {b \in Buckets : status[b] = "active"}

Mut_ExpiredStaySpendable == Active
\* What new spending may consume (consumeBuckets).
Spendable == {b \in Active : expiresAt[b] > now}

Mut_ExpiredNotSettleable == Spendable
\* What a capture may consume: allowExpired, its claim predates the expiry.
Settleable == Active

Due == {b \in Active : expiresAt[b] <= now /\ remaining[b] > 0}

\* ORDER BY expiresAt ASC NULLS LAST, createdAt, id.
Before(b, c) ==
  \/ expiresAt[b] < expiresAt[c]
  \/ expiresAt[b] = expiresAt[c] /\ b < c

\* What a loop over the buckets S in that order takes to find amount: each
\* bucket gives all it has before a later one gives anything.  Empty when S
\* holds less than amount.
Drains(S, amount) ==
  {t \in [Buckets -> Amounts] :
     /\ \A b \in Buckets : t[b] <= IF b \in S THEN remaining[b] ELSE 0
     /\ \A b, c \in S : Before(b, c) /\ t[c] > 0 => t[b] = remaining[b]
     /\ Total(t, Buckets) = amount}

Mut_RetirePartial(t, s) ==
  /\ remaining' = [b \in Buckets |-> remaining[b] - t[b]]
  /\ status' = [b \in Buckets |-> IF t[b] > 0 THEN s ELSE status[b]]
  /\ UNCHANGED <<expiresAt, source>>
\* The bucket rows after t is taken from them; one left empty gets status s.
Take(t, s) ==
  /\ remaining' = [b \in Buckets |-> remaining[b] - t[b]]
  /\ status' = [b \in Buckets |-> IF t[b] > 0 /\ t[b] = remaining[b]
                                  THEN s ELSE status[b]]
  /\ UNCHANGED <<expiresAt, source>>

Mut_KeyedByRemainder(t, s) ==
  {[type |-> s, bucket |-> b, before |-> remaining[b] - t[b], amount |-> t[b]] :
     b \in {c \in Buckets : t[c] > 0}}
Mut_ReverseWholeBucket(t, s) ==
  {[type |-> s, bucket |-> b, before |-> remaining[b], amount |-> remaining[b]] :
     b \in {c \in Buckets : t[c] > 0}}
\* The reversal rows of type s for t: one per bucket that gives, keyed by
\* what the bucket held before.
ReversalsOf(t, s) ==
  {[type |-> s, bucket |-> b, before |-> remaining[b], amount |-> t[b]] :
     b \in {c \in Buckets : t[c] > 0}}

\* Inserting rows whose key exists violates the unique index.
KeysFree(rows) ==
  \A r \in rows, e \in reversals :
    <<r.type, r.bucket, r.before>> # <<e.type, e.bucket, e.before>>

Mut_ReverseReserved(S) == Total(remaining, S)
Mut_SkipWhileReserved(S) ==
  IF reserved > 0 THEN 0 ELSE Least(Total(remaining, S), available)
\* The credits a loop over S may reverse: no more than is available.
Reversible(S) == Least(Total(remaining, S), available)

-------------------------------------------------------------------------------
(* Client operations.                                                      *)

Record(k, type, n, of) ==
  ledger' = [ledger EXCEPT ![k] = [type |-> type, amount |-> n, of |-> of]]

\* grantCreditsInTransaction: the account row is created when missing,
\* which here is the row with both balances 0.
Grant(k, b, n, expiry, src) ==
  /\ ledger[k] = NoEntry
  /\ status[b] = "none"
  /\ available' = available + n
  /\ remaining' = [remaining EXCEPT ![b] = n]
  /\ status' = [status EXCEPT ![b] = "active"]
  /\ expiresAt' = [expiresAt EXCEPT ![b] = expiry]
  /\ source' = [source EXCEPT ![b] = src]
  /\ Record(k, "grant", n, b)
  /\ UNCHANGED <<now, reserved, held, resStatus, reversals, sweep, discovered>>

\* debitCreditsForApplicationCustomerInTransaction.  When the unexpired
\* buckets hold less than n, consumeBuckets throws and nothing is written.
Debit(k, n) ==
  /\ ledger[k] = NoEntry
  /\ available >= n
  /\ available' = available - n
  /\ \E t \in Drains(Spendable, n) : Take(t, "consumed")
  /\ Record(k, "debit.usage", n, k)
  /\ UNCHANGED <<now, reserved, held, resStatus, reversals, sweep, discovered>>

\* expireDueBucketsForAccount: the due buckets give what is available.
ExpireDue(n) ==
  \E t \in Drains(Due, n) :
    /\ KeysFree(ReversalsOf(t, "grant.expired"))
    /\ Take(t, "expired")
    /\ reversals' = reversals \cup ReversalsOf(t, "grant.expired")

\* reserveCredits, when enough is left after the due buckets expired.
Reserve(k, n) ==
  LET lapsed == Reversible(Due) IN
  /\ resStatus[k] = "none"
  /\ ledger[k] = NoEntry
  /\ ExpireDue(lapsed)
  /\ available - lapsed >= n
  /\ available' = available - lapsed - n
  /\ reserved' = reserved + n
  /\ held' = [held EXCEPT ![k] = n]
  /\ resStatus' = [resStatus EXCEPT ![k] = "active"]
  /\ Record(k, "reserve.usage", n, k)
  /\ UNCHANGED <<now, sweep, discovered>>

\* reserveCredits, when too little is left: the call is refused, and the
\* transaction that expired the due buckets commits all the same.
RejectReserve(k, n) ==
  LET lapsed == Reversible(Due) IN
  /\ resStatus[k] = "none"
  /\ ExpireDue(lapsed)
  /\ available - lapsed < n
  /\ available' = available - lapsed
  /\ UNCHANGED <<now, reserved, held, resStatus, ledger, sweep, discovered>>

\* lockReservation, then the status checks of capture and release.
CanSettle(r) == resStatus[r] = "active"

Mut_LeaveOpen(r, s) == UNCHANGED resStatus
Close(r, s) == resStatus' = [resStatus EXCEPT ![r] = s]

\* captureReservation: what is not captured goes back to available, and the
\* captured credits leave the buckets, expired ones included.
Capture(k, r, n) ==
  /\ ledger[k] = NoEntry
  /\ CanSettle(r)
  /\ n <= held[r]
  /\ reserved >= held[r]
  /\ available' = available + held[r] - n
  /\ reserved' = reserved - held[r]
  /\ Close(r, "captured")
  /\ \E t \in Drains(Settleable, n) : Take(t, "consumed")
  /\ Record(k, "capture.usage", n, r)
  /\ UNCHANGED <<now, held, reversals, sweep, discovered>>

\* releaseReservation.
Release(k, r) ==
  /\ ledger[k] = NoEntry
  /\ CanSettle(r)
  /\ reserved >= held[r]
  /\ available' = available + held[r]
  /\ reserved' = reserved - held[r]
  /\ Close(r, "released")
  /\ Record(k, "release.usage", held[r], r)
  /\ UNCHANGED <<now, bucketRows, held, reversals, sweep, discovered>>

-------------------------------------------------------------------------------
(* The expiry sweep.                                                       *)

\* expireDueCreditBuckets, the unlocked scan.
SweepScan(s) ==
  /\ sweep[s] = {}
  /\ Due # {}
  /\ sweep' = [sweep EXCEPT ![s] = Due]
  /\ UNCHANGED <<now, account, bucketRows, reservationRows, ledger,
                 reversals, discovered>>

\* The bucket the sweep visits next: the first of its scan.
FirstIn(S) == {b \in S : \A c \in S \ {b} : Before(b, c)}

\* expireDueCreditBuckets, the transaction of one bucket of the scan.  It
\* reads the bucket again, skips it when there is nothing to reverse, and
\* ends the run when its reversal row exists already.
SweepBucket(s) ==
  \E b \in FirstIn(sweep[s]) :
    LET lapsed == Reversible({b} \cap Active)
        t == [c \in Buckets |-> IF c = b THEN lapsed ELSE 0]
        rows == ReversalsOf(t, "grant.expired") IN
    /\ IF KeysFree(rows)
       THEN /\ Take(t, "expired")
            /\ available' = available - lapsed
            /\ reversals' = reversals \cup rows
            /\ sweep' = [sweep EXCEPT ![s] = @ \ {b}]
       ELSE /\ sweep' = [sweep EXCEPT ![s] = {}]
            /\ UNCHANGED <<available, bucketRows, reversals>>
    /\ UNCHANGED <<now, reserved, reservationRows, ledger, discovered>>

-------------------------------------------------------------------------------
(* The clawback of a cancelled subscription's credits.                     *)

\* revokeSubscriptionCreditsInTransaction, phase 1: the unlocked discovery.
ClawbackDiscover(c) ==
  LET found == {b \in Active : source[b] = "subscription" /\ remaining[b] > 0} IN
  /\ discovered[c] = {}
  /\ found # {}
  /\ discovered' = [discovered EXCEPT ![c] = found]
  /\ UNCHANGED <<now, account, bucketRows, reservationRows, ledger,
                 reversals, sweep>>

\* Phase 2: under the account lock, what is still active among the
\* discovered buckets gives what is available.  A reversal row that exists
\* already rolls the whole transaction back.
ClawbackApply(c) ==
  LET locked == {b \in discovered[c] \cap Active : remaining[b] > 0}
      revoked == Reversible(locked) IN
  /\ discovered[c] # {}
  /\ \E t \in Drains(locked, revoked) :
       /\ KeysFree(ReversalsOf(t, "grant.revoked"))
       /\ Take(t, "reversed")
       /\ reversals' = reversals \cup ReversalsOf(t, "grant.revoked")
  /\ available' = available - revoked
  /\ discovered' = [discovered EXCEPT ![c] = {}]
  /\ UNCHANGED <<now, reserved, reservationRows, ledger, sweep>>

-------------------------------------------------------------------------------

Tick ==
  /\ now < MaxTime
  /\ now' = now + 1
  /\ UNCHANGED <<account, bucketRows, reservationRows, ledger, reversals,
                 sweep, discovered>>

Init ==
  /\ now = 0
  /\ available = 0 /\ reserved = 0
  /\ remaining = [b \in Buckets |-> 0]
  /\ status = [b \in Buckets |-> "none"]
  /\ expiresAt = [b \in Buckets |-> Never]
  /\ source = [b \in Buckets |-> "purchase"]
  /\ held = [k \in Keys |-> 0]
  /\ resStatus = [k \in Keys |-> "none"]
  /\ ledger = [k \in Keys |-> NoEntry]
  /\ reversals = {}
  /\ sweep = [s \in Sweepers |-> {}]
  /\ discovered = [c \in Clawbacks |-> {}]

ClientStep(k) ==
  \/ \E b \in Buckets, n \in 1 .. MaxAmount, x \in 1 .. Never, src \in Sources :
       Grant(k, b, n, x, src)
  \/ \E n \in 1 .. MaxAmount : Debit(k, n) \/ Reserve(k, n) \/ RejectReserve(k, n)
  \/ \E r \in Keys : Release(k, r) \/ \E n \in 1 .. MaxAmount : Capture(k, r, n)

Next ==
  \/ Tick
  \/ \E k \in Keys : ClientStep(k)
  \/ \E s \in Sweepers : SweepScan(s) \/ SweepBucket(s)
  \/ \E c \in Clawbacks : ClawbackDiscover(c) \/ ClawbackApply(c)

Spec == Init /\ [][Next]_vars

\* The cron keeps calling the sweep, and every call works through its scan.
SweepFairness ==
  \A s \in Sweepers : WF_vars(SweepScan(s)) /\ WF_vars(SweepBucket(s))

FairSpec == Spec /\ SweepFairness

-------------------------------------------------------------------------------
(* Safety.                                                                 *)

Open == {r \in Keys : resStatus[r] = "active"}

\* The active buckets hold exactly what the account has available and
\* reserved (buckets.ts:18), whatever order grants, spending, expiry stages
\* and clawbacks come in.  That includes a bucket that is due and not swept
\* yet: it is active and its credits are still counted as available, so the
\* sum does not drift, though docs/credits-ledger.md:357-362 says it does
\* until a sweep runs.
BucketsBackBalance == Total(remaining, Active) = available + reserved

\* The reserved balance is what the open reservations hold, so capture and
\* release never meet "Reserved credit balance is inconsistent".
ReservedIsHeld == Total(held, Open) = reserved

\* An open reservation can always be captured, for any part of it and
\* however many of the buckets behind it have expired since: the buckets
\* never run short ("Bucket allocation invariant violated").
SettlementNeverStuck ==
  \A r \in Open :
    /\ reserved >= held[r]
    /\ \A n \in 1 .. held[r] : Drains(Settleable, n) # {}

Rows(types) == {k \in Keys : ledger[k] # NoEntry /\ ledger[k].type \in types}
AmountOf == [k \in Keys |-> IF ledger[k] = NoEntry THEN 0 ELSE ledger[k].amount]
Reversed == Total([e \in reversals |-> e.amount], reversals)

\* The balances are the projection of the ledger: what was granted is still
\* held, or was spent by a debit or a capture, or was reversed.
LedgerExplainsBalance ==
  Total(AmountOf, Rows({"grant"})) =
    available + reserved + Reversed
      + Total(AmountOf, Rows({"debit.usage", "capture.usage"}))

\* A stage of expiry or clawback never repeats the key of an earlier one:
\* a repeated key would abort every later sweep at the same bucket and
\* refuse every reservation of the account.
ReversalKeysFresh ==
  \A b \in Active, e \in reversals : e.bucket = b => e.before > remaining[b]

Expired(b) == expiresAt[b] <= now

\* No expired credit is newly reserved: when a reservation is made, no
\* credits are left in an expired bucket of the account.
ReservesLiveCredits ==
  [][(\E r \in Keys : resStatus[r] = "none" /\ resStatus'[r] = "active")
       => \A b \in Buckets : Expired(b)' => remaining'[b] = 0]_vars

\* An expired bucket only loses credits to the settlement of a reservation
\* or to a reversal that the ledger shows, never to new spending.
ExpiredNeverSpent ==
  [][\A b \in Buckets :
       Expired(b) /\ remaining'[b] < remaining[b]
         => \/ \E r \in Open : resStatus'[r] = "captured"
            \/ \E e \in reversals' \ reversals :
                 e.bucket = b /\ e.amount = remaining[b] - remaining'[b]]_vars

\* What is spent or promised anew are live credits, also while a due bucket
\* has not been swept: consumeBuckets (buckets.ts:134-147) leaves it alone, though
\* docs/credits-ledger.md:357-358 says that expired credits remain spendable
\* until a sweep runs.
SpendsLiveCredits == ReservesLiveCredits /\ ExpiredNeverSpent

(* Liveness.                                                               *)

\* A reservation that never settles does not keep an expired bucket alive:
\* the sweep takes what is available of it.
DueBucketsExpire ==
  \A b \in Buckets : b \in Due ~> (b \notin Due \/ available = 0)

-------------------------------------------------------------------------------
(* The service keeps the promise CreditAccount states: no sequence of calls*)
(* spends, expires or claws back a credit that is reserved, and none       *)
(* settles a reservation twice.                                            *)

Promise == INSTANCE CreditAccount WITH
  Reservations <- Keys, MaxHold <- MaxAmount,
  credits <- available, hold <- held, state <- resStatus

\* Every step of the service is a step of the promised account or leaves it
\* unchanged.
KeepsPromise == Promise!Spec
===============================================================================
