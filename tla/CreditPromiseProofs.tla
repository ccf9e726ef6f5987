-------------------------- MODULE CreditPromiseProofs --------------------------
(***************************************************************************)
(* That the credit service implements the account CreditAccount promises,  *)
(* that no stage of expiry or clawback repeats the ledger key of an        *)
(* earlier one, that an open reservation can always be settled, and that   *)
(* expired credits are never spent.                                        *)
(***************************************************************************)
EXTENDS CreditLedgerProofs

\* Every operation of the service is an operation of the promised account,
\* or invisible there.
LEMMA PromiseStep ==
  ASSUME TypeOK, [Next]_vars
  PROVE  [Promise!Next]_(Promise!cvars)
<1> USE DEF Promise!Next, Promise!cvars
<1>0. available \in Nat /\ MaxAmount \in Nat
  BY MaxAmountAssumption DEF TypeOK
<1>1. ASSUME NEW k \in Keys, NEW b \in Buckets, NEW n \in 1 .. MaxAmount,
             NEW x \in 1 .. Never, NEW src \in Sources, Grant(k, b, n, x, src)
      PROVE  Promise!Receive
  BY <1>1 DEF Grant, Promise!Receive
<1>2. ASSUME NEW k \in Keys, NEW n \in 1 .. MaxAmount, Debit(k, n)
      PROVE  Promise!Leave
  BY <1>0, <1>2 DEF Debit, Promise!Leave
<1>3. Due \in SUBSET Buckets /\ Active \in SUBSET Buckets
  BY DEF Due, Active
<1>4. ASSUME NEW k \in Keys, NEW n \in 1 .. MaxAmount, Reserve(k, n)
      PROVE  Promise!Set(k)
  <2>1. Reversible(Due) \in Nat /\ Reversible(Due) <= available
    BY <1>3, ReversibleBound
  <2>2. available' = available - Reversible(Due) - n /\ available - Reversible(Due) >= n
    BY <1>4 DEF Reserve
  <2>3. available' + n \in 0 .. available /\ available' >= 0
    BY <1>0, <2>1, <2>2
  <2> QED BY <1>4, <2>3 DEF Reserve, Promise!Set
<1>5. ASSUME NEW k \in Keys, NEW n \in 1 .. MaxAmount, RejectReserve(k, n)
      PROVE  Promise!Leave
  <2>1. Reversible(Due) \in Nat /\ Reversible(Due) <= available
    BY <1>3, ReversibleBound
  <2>2. available' = available - Reversible(Due) /\ UNCHANGED <<held, resStatus>>
    BY <1>5 DEF RejectReserve
  <2> QED BY <1>0, <2>1, <2>2 DEF Promise!Leave
<1>6. ASSUME NEW k \in Keys, NEW r \in Keys, Release(k, r)
      PROVE  Promise!Release(r)
  BY <1>6 DEF Release, CanSettle, Close, Promise!Release
<1>7. ASSUME NEW k \in Keys, NEW r \in Keys, NEW n \in 1 .. MaxAmount, Capture(k, r, n)
      PROVE  Promise!Capture(r)
  <2>1. n \in 1 .. held[r]
    BY <1>7 DEF Capture, TypeOK, Amounts
  <2> QED BY <1>7, <2>1 DEF Capture, CanSettle, Close, Promise!Capture
<1>8. ASSUME NEW s \in Sweepers, SweepScan(s) \/ SweepBucket(s)
      PROVE  Promise!Leave \/ UNCHANGED Promise!cvars
  <2>1. CASE SweepScan(s)
    BY <2>1 DEF SweepScan, account, reservationRows
  <2>2. CASE SweepBucket(s)
    <3>1. PICK b \in FirstIn(sweep[s]) :
            /\ \/ available' = available - Reversible({b} \cap Active)
               \/ available' = available
            /\ UNCHANGED <<held, resStatus>>
      BY <2>2 DEF SweepBucket, reservationRows
    <3>2. /\ Reversible({b} \cap Active) \in Nat
          /\ Reversible({b} \cap Active) <= available
      BY <1>3, ReversibleBound
    <3> QED BY <1>0, <3>1, <3>2 DEF Promise!Leave
  <2> QED BY <1>8, <2>1, <2>2
<1>9. ASSUME NEW c \in Clawbacks, ClawbackDiscover(c) \/ ClawbackApply(c)
      PROVE  Promise!Leave \/ UNCHANGED Promise!cvars
  <2>1. CASE ClawbackDiscover(c)
    BY <2>1 DEF ClawbackDiscover, account, reservationRows
  <2>2. CASE ClawbackApply(c)
    <3> DEFINE locked == {b \in discovered[c] \cap Active : remaining[b] > 0}
    <3>1. available' = available - Reversible(locked) /\ UNCHANGED <<held, resStatus>>
      BY <2>2 DEF ClawbackApply, reservationRows
    <3>2. locked \in SUBSET Buckets
      BY <1>3
    <3> HIDE DEF locked
    <3>3. Reversible(locked) \in Nat /\ Reversible(locked) <= available
      BY <3>2, ReversibleBound
    <3> QED BY <1>0, <3>1, <3>3 DEF Promise!Leave
  <2> QED BY <1>9, <2>1, <2>2
<1>10. ASSUME Tick \/ UNCHANGED vars
       PROVE  UNCHANGED Promise!cvars
  BY <1>10 DEF Tick, vars, account, reservationRows
<1>11. ASSUME NEW k \in Keys, ClientStep(k)
       PROVE  Promise!Next
  BY <1>1, <1>2, <1>4, <1>5, <1>6, <1>7, <1>11 DEF ClientStep
<1> QED BY <1>8, <1>9, <1>10, <1>11 DEF Next

\* The credit service keeps its promise: whatever the interleaving of calls,
\* sweeps and clawbacks, available credits only come from a grant or a
\* settled reservation, what a reservation holds stays until its settlement,
\* and it is settled once.
THEOREM PromiseKept == Spec => KeepsPromise
<1>1. Init => Promise!Init
  BY DEF Init, Promise!Init
<1>2. TypeOK /\ [Next]_vars => [Promise!Next]_(Promise!cvars)
  BY PromiseStep
<1> QED BY <1>1, <1>2, TypeCorrect, PTL DEF Spec, KeepsPromise, Promise!Spec

-------------------------------------------------------------------------------

\* Only a bucket that was granted has reversal rows.
ReversedWereGranted == \A e \in reversals : status[e.bucket] # "none"

KeyInv == ReversalKeysFresh /\ ReversedWereGranted

\* Taking credits out of buckets and writing the reversal rows of what was
\* taken (or none) keeps the keys fresh: the new key names what the bucket
\* held, and it holds less now.
LEMMA TakeKeepsKeysFresh ==
  ASSUME TypeOK, ClosedIsEmpty, KeyInv, NEW s \in {"consumed", "expired", "reversed"},
         NEW type, NEW t \in [Buckets -> Amounts],
         \A b \in Buckets : t[b] <= remaining[b],
         Take(t, s), reversals' \subseteq reversals \cup ReversalsOf(t, type)
  PROVE  KeyInv'
<1>0. ASSUME NEW b \in Buckets
      PROVE  /\ remaining[b] \in Nat /\ t[b] \in Nat /\ remaining'[b] \in Nat
             /\ remaining'[b] = remaining[b] - t[b]
             /\ status'[b] = "active" => status[b] = "active"
             /\ status'[b] = "none" => status[b] = "none"
  BY MaxAmountAssumption DEF TypeOK, Take, Amounts
<1>1. ASSUME NEW e \in ReversalsOf(t, type)
      PROVE  /\ e.bucket \in Buckets
             /\ t[e.bucket] > 0
             /\ e.before = remaining[e.bucket]
  BY DEF ReversalsOf
<1>2. \A e \in reversals : e.bucket \in Buckets /\ e.before \in Nat
  BY MaxAmountAssumption DEF TypeOK, Reversal
<1>3. ReversalKeysFresh'
  <2> SUFFICES ASSUME NEW b \in Buckets, status'[b] = "active",
                      NEW e \in reversals', e.bucket = b
               PROVE  e.before > remaining'[b]
    BY DEF ReversalKeysFresh, Active
  <2>1. CASE e \in reversals
    <3>1. e.before > remaining[b]
      BY <1>0, <2>1 DEF KeyInv, ReversalKeysFresh, Active
    <3> QED BY <1>0, <1>2, <2>1, <3>1
  <2>2. CASE e \in ReversalsOf(t, type)
    BY <1>0, <1>1, <2>2
  <2> QED BY <2>1, <2>2
<1>4. ReversedWereGranted'
  <2> SUFFICES ASSUME NEW e \in reversals'
               PROVE  status'[e.bucket] # "none"
    BY DEF ReversedWereGranted
  <2>1. CASE e \in reversals
    BY <1>0, <1>2, <2>1 DEF KeyInv, ReversedWereGranted
  <2>2. CASE e \in ReversalsOf(t, type)
    <3>1. remaining[e.bucket] > 0
      BY <1>0, <1>1, <2>2
    <3>2. status[e.bucket] = "active"
      BY <1>1, <2>2, <3>1 DEF ClosedIsEmpty
    <3> QED BY <1>0, <1>1, <2>2, <3>2
  <2> QED BY <2>1, <2>2
<1> QED BY <1>3, <1>4 DEF KeyInv

\* A drain takes no more of a bucket than it holds.
LEMMA DrainBound ==
  ASSUME TypeOK, NEW S, NEW n, NEW t \in Drains(S, n)
  PROVE  t \in [Buckets -> Amounts] /\ \A b \in Buckets : t[b] <= remaining[b]
BY MaxAmountAssumption DEF Drains, TypeOK, Amounts

LEMMA KeyInvStep ==
  ASSUME TypeOK, ClosedIsEmpty, KeyInv, [Next]_vars
  PROVE  KeyInv'
<1>1. ASSUME NEW k \in Keys, NEW b \in Buckets, NEW n \in 1 .. MaxAmount,
             NEW x \in 1 .. Never, NEW src \in Sources, Grant(k, b, n, x, src)
      PROVE  KeyInv'
  <2>1. \A e \in reversals : e.bucket # b
    BY <1>1 DEF Grant, KeyInv, ReversedWereGranted
  <2>2. ASSUME NEW c \in Buckets, c # b
        PROVE  status'[c] = status[c] /\ remaining'[c] = remaining[c]
    BY <1>1, <2>2 DEF Grant, TypeOK
  <2>3. reversals' = reversals /\ \A e \in reversals : e.bucket \in Buckets
    BY <1>1 DEF Grant, TypeOK, Reversal
  <2> QED BY <2>1, <2>2, <2>3
          DEF KeyInv, ReversalKeysFresh, ReversedWereGranted, Active
<1>2. ASSUME NEW k \in Keys, NEW n \in 1 .. MaxAmount, Debit(k, n)
      PROVE  KeyInv'
  <2>1. PICK t \in Drains(Spendable, n) : Take(t, "consumed")
    BY <1>2 DEF Debit
  <2> QED BY <1>2, <2>1, DrainBound, TakeKeepsKeysFresh DEF Debit
<1>3. ASSUME NEW n, ExpireDue(n)
      PROVE  KeyInv'
  <2>1. PICK t \in Drains(Due, n) :
          /\ Take(t, "expired")
          /\ reversals' = reversals \cup ReversalsOf(t, "grant.expired")
    BY <1>3 DEF ExpireDue
  <2> QED BY <2>1, DrainBound, TakeKeepsKeysFresh
<1>4. ASSUME NEW k \in Keys, NEW n \in 1 .. MaxAmount,
             Reserve(k, n) \/ RejectReserve(k, n)
      PROVE  KeyInv'
  BY <1>3, <1>4 DEF Reserve, RejectReserve
<1>5. ASSUME NEW k \in Keys, NEW r \in Keys, NEW n \in 1 .. MaxAmount, Capture(k, r, n)
      PROVE  KeyInv'
  <2>1. PICK t \in Drains(Settleable, n) : Take(t, "consumed")
    BY <1>5 DEF Capture
  <2> QED BY <1>5, <2>1, DrainBound, TakeKeepsKeysFresh DEF Capture
<1>6. ASSUME UNCHANGED <<remaining, status, reversals>>
      PROVE  KeyInv'
  BY <1>6 DEF KeyInv, ReversalKeysFresh, ReversedWereGranted, Active
<1>7. ASSUME NEW k \in Keys, NEW r \in Keys, Release(k, r)
      PROVE  KeyInv'
  BY <1>6, <1>7 DEF Release, bucketRows
<1>8. ASSUME NEW s \in Sweepers, SweepBucket(s)
      PROVE  KeyInv'
  <2>1. PICK b \in FirstIn(sweep[s]) :
          LET lapsed == Reversible({b} \cap Active)
              t == [c \in Buckets |-> IF c = b THEN lapsed ELSE 0]
              rows == ReversalsOf(t, "grant.expired") IN
          \/ Take(t, "expired") /\ reversals' = reversals \cup rows
          \/ UNCHANGED <<remaining, status, reversals>>
    BY <1>8 DEF SweepBucket, bucketRows
  <2> DEFINE lapsed == Reversible({b} \cap Active)
             t == [c \in Buckets |-> IF c = b THEN lapsed ELSE 0]
  <2>2. CASE UNCHANGED <<remaining, status, reversals>>
    BY <1>6, <2>2
  <2>3. CASE /\ Take(t, "expired")
             /\ reversals' = reversals \cup ReversalsOf(t, "grant.expired")
    <3>1. b \in Buckets
      BY DEF FirstIn, TypeOK
    <3>2. lapsed \in Amounts /\ lapsed <= remaining[b]
      BY <3>1, SweepAmount
    <3> HIDE DEF lapsed
    <3>3. t \in [Buckets -> Amounts] /\ \A c \in Buckets : t[c] <= remaining[c]
      BY <3>1, <3>2, MaxAmountAssumption DEF TypeOK, Amounts
    <3> HIDE DEF t
    <3> QED BY <2>3, <3>3, TakeKeepsKeysFresh
  <2> QED BY <2>1, <2>2, <2>3
<1>9. ASSUME NEW c \in Clawbacks, ClawbackApply(c)
      PROVE  KeyInv'
  <2>1. PICK S, n : \E t \in Drains(S, n) :
          /\ Take(t, "reversed")
          /\ reversals' = reversals \cup ReversalsOf(t, "grant.revoked")
    BY <1>9 DEF ClawbackApply
  <2> QED BY <2>1, DrainBound, TakeKeepsKeysFresh
<1>10. ASSUME \/ \E s \in Sweepers : SweepScan(s)
              \/ \E c \in Clawbacks : ClawbackDiscover(c)
       PROVE  KeyInv'
  BY <1>6, <1>10 DEF SweepScan, ClawbackDiscover, bucketRows
<1>11. ASSUME Tick \/ UNCHANGED vars
       PROVE  KeyInv'
  BY <1>6, <1>11 DEF Tick, vars, bucketRows
<1>12. ASSUME NEW k \in Keys, ClientStep(k)
       PROVE  KeyInv'
  BY <1>1, <1>2, <1>4, <1>5, <1>7, <1>12 DEF ClientStep
<1> QED BY <1>8, <1>9, <1>10, <1>11, <1>12 DEF Next

\* No stage of expiry or clawback ever repeats a key of an earlier one: the
\* unique index never stops a sweep or refuses a reservation.
THEOREM ReversalsNeverCollide == Spec => []ReversalKeysFresh
<1>1. Init => KeyInv
  BY DEF Init, KeyInv, ReversalKeysFresh, ReversedWereGranted
<1>2. IInv /\ KeyInv /\ [Next]_vars => KeyInv'
  BY KeyInvStep DEF IInv, BalanceInv
<1>3. KeyInv => ReversalKeysFresh
  BY DEF KeyInv
<1> QED BY <1>1, <1>2, <1>3, Invariance, PTL DEF Spec

-------------------------------------------------------------------------------
(* The loop over an account's buckets finds whatever amount they hold      *)
(* together, so that an open reservation can always be settled; and what   *)
(* is spent or reserved anew are live credits.                             *)

\* The buckets of S a loop visits before b, and what they hold.
Ahead(S, b) == {c \in S : Before(c, b)}
Prefix(S, b) == Total(remaining, Ahead(S, b))

\* What the loop takes of each bucket: all it holds while that is not too
\* much, then the rest, then nothing.
Loop(S, amount) ==
  [b \in Buckets |-> IF b \in S /\ amount > Prefix(S, b)
                     THEN Least(amount - Prefix(S, b), remaining[b]) ELSE 0]

\* The loop visits each bucket once, in an order.
LEMMA BeforeIsOrder ==
  ASSUME TypeOK
  PROVE  /\ \A b \in Buckets : ~Before(b, b)
         /\ \A b, c \in Buckets : b # c => Before(b, c) \/ Before(c, b)
         /\ \A b, c, d \in Buckets : Before(b, c) /\ Before(c, d) => Before(b, d)
<1>1. \A b \in Buckets : b \in Nat /\ expiresAt[b] \in Nat
  BY LedgerAssumption DEF TypeOK, Never
<1> QED BY <1>1 DEF Before

\* What is ahead of a bucket, with the bucket, is within the whole, and
\* ahead of every later bucket.
LEMMA PrefixWithin ==
  ASSUME TypeOK, NEW S \in SUBSET Buckets, NEW b \in S
  PROVE  /\ Prefix(S, b) \in Nat /\ Total(remaining, S) \in Nat
         /\ Prefix(S, b) + remaining[b] <= Total(remaining, S)
         /\ \A c \in S : Before(b, c) =>
              Prefix(S, c) \in Nat /\ Prefix(S, b) + remaining[b] <= Prefix(S, c)
<1>1. IsFiniteSet(S) /\ \A c : IsFiniteSet(Ahead(S, c))
  BY LedgerAssumption, FS_Subset DEF Ahead
<1>2. b \notin Ahead(S, b) /\ IsFiniteSet({b})
  BY BeforeIsOrder, FS_Singleton DEF Ahead
<1>3. Total(remaining, Ahead(S, b) \cup {b}) = Prefix(S, b) + remaining[b]
  <2>1. Total(remaining, {b}) = remaining[b]
    BY TotalOne DEF TypeOK
  <2>2. Ahead(S, b) \cap {b} = {}
    BY <1>2
  <2> QED BY <1>1, <1>2, <2>1, <2>2, TotalSplit DEF Prefix
<1>4. \A T : IsFiniteSet(T) /\ Ahead(S, b) \cup {b} \subseteq T
               => Prefix(S, b) + remaining[b] <= Total(remaining, T)
  <2>1. TAKE T
  <2>2. HAVE IsFiniteSet(T) /\ Ahead(S, b) \cup {b} \subseteq T
  <2>3. Ahead(S, b) \cup {b} \in SUBSET T
    BY <2>2
  <2>4. Total(remaining, Ahead(S, b) \cup {b}) <= Total(remaining, T)
    BY <2>2, <2>3, TotalSubset
  <2> QED BY <1>3, <2>4
<1>5. Prefix(S, b) \in Nat /\ Total(remaining, S) \in Nat
  BY <1>1, TotalType DEF Prefix
<1>6. Prefix(S, b) + remaining[b] <= Total(remaining, S)
  BY <1>1, <1>4 DEF Ahead
<1>7. ASSUME NEW c \in S, Before(b, c)
      PROVE  Prefix(S, c) \in Nat /\ Prefix(S, b) + remaining[b] <= Prefix(S, c)
  <2>1. Ahead(S, b) \cup {b} \subseteq Ahead(S, c)
    BY <1>7, BeforeIsOrder DEF Ahead
  <2>2. Prefix(S, b) + remaining[b] <= Total(remaining, Ahead(S, c))
    BY <1>1, <1>4, <2>1
  <2> QED BY <1>1, <2>2, TotalType DEF Prefix
<1> QED BY <1>5, <1>6, <1>7

\* Numbered in the order of the loop, the credits of S have the numbers 1 to
\* their sum: no two share one, so none is missing.
LEMMA CreditsAreNumbered ==
  ASSUME TypeOK, NEW S \in SUBSET Buckets
  PROVE  [u \in Units(remaining, S) |-> Prefix(S, u[1]) + u[2]]
           \in Bijection(Units(remaining, S), 1 .. Total(remaining, S))
<1> DEFINE U == Units(remaining, S)
           N == Total(remaining, S)
           number == [u \in U |-> Prefix(S, u[1]) + u[2]]
<1>0. IsFiniteSet(S) /\ IsFiniteSet(U) /\ N \in Nat
  BY LedgerAssumption, FS_Subset, TotalType
<1>1. ASSUME NEW u \in U
      PROVE  /\ u = <<u[1], u[2]>> /\ u[1] \in S
             /\ u[2] \in 1 .. MaxAmount /\ u[2] <= remaining[u[1]]
             /\ remaining[u[1]] \in Nat /\ Prefix(S, u[1]) \in Nat
  <2>1. /\ u = <<u[1], u[2]>> /\ u[1] \in S
        /\ u[2] \in 1 .. MaxAmount /\ u[2] <= remaining[u[1]]
    BY DEF Units
  <2>2. remaining[u[1]] \in Nat
    BY <2>1, MaxAmountAssumption DEF TypeOK, Amounts
  <2> QED BY <2>1, <2>2, PrefixWithin
<1>2. ASSUME NEW u \in U
      PROVE  number[u] \in 1 .. N
  <2>1. Prefix(S, u[1]) + remaining[u[1]] <= N
    BY <1>1, PrefixWithin
  <2> QED BY <1>0, <1>1, <2>1, MaxAmountAssumption
<1>3. ASSUME NEW u \in U, NEW v \in U, Before(u[1], v[1])
      PROVE  number[u] # number[v]
  <2>1. Prefix(S, u[1]) + remaining[u[1]] <= Prefix(S, v[1])
    BY <1>1, <1>3, PrefixWithin
  <2> QED BY <1>1, <2>1, MaxAmountAssumption
<1>4. ASSUME NEW u \in U, NEW v \in U, number[u] = number[v]
      PROVE  u = v
  <2>1. u[1] = v[1]
    BY <1>1, <1>3, <1>4, BeforeIsOrder
  <2>2. u[2] = v[2]
    BY <1>1, <1>4, <2>1, MaxAmountAssumption
  <2> QED BY <1>1, <2>1, <2>2
<1>5. number \in [U -> 1 .. N]
  BY <1>2
<1>6. number \in Injection(U, 1 .. N)
  BY <1>4, <1>5, Fun_IsInj
<1>7. IsFiniteSet(1 .. N) /\ Cardinality(1 .. N) = Cardinality(U)
  <2>1. Cardinality(U) = N
    BY DEF Total
  <2> QED BY <1>0, <2>1, FS_Interval
<1> HIDE DEF U, N, number
<1>8. number \in Surjection(U, 1 .. N)
  BY <1>6, <1>7, FS_Injection
<1>9. number \in Bijection(U, 1 .. N)
  BY <1>6, <1>8 DEF Bijection
<1> QED BY <1>9 DEF U, N, number

\* The loop over S finds any amount that S holds.
LEMMA LoopFinds ==
  ASSUME TypeOK, NEW S \in SUBSET Buckets, NEW amount \in Nat,
         amount <= Total(remaining, S)
  PROVE  Loop(S, amount) \in Drains(S, amount)
<1> DEFINE t == Loop(S, amount)
           U == Units(remaining, S)
           N == Total(remaining, S)
           number == [u \in U |-> Prefix(S, u[1]) + u[2]]
<1>0. \A b \in Buckets : remaining[b] \in 0 .. MaxAmount /\ remaining[b] \in Nat
  BY MaxAmountAssumption DEF TypeOK, Amounts
<1>1. \A b \in S : Prefix(S, b) \in Nat
  BY PrefixWithin
<1>2. ASSUME NEW b \in Buckets
      PROVE  /\ t[b] \in Amounts
             /\ t[b] <= IF b \in S THEN remaining[b] ELSE 0
             /\ b \in S => \A i \in 1 .. MaxAmount :
                  i <= t[b] <=> i <= remaining[b] /\ Prefix(S, b) + i <= amount
  <2>1. t[b] = IF b \in S /\ amount > Prefix(S, b)
               THEN Least(amount - Prefix(S, b), remaining[b]) ELSE 0
    BY DEF Loop
  <2>2. CASE b \in S /\ amount > Prefix(S, b)
    BY <1>0, <1>1, <2>1, <2>2, MaxAmountAssumption DEF Least, Amounts
  <2>3. CASE ~(b \in S /\ amount > Prefix(S, b))
    BY <1>0, <1>1, <2>1, <2>3, MaxAmountAssumption DEF Amounts
  <2> QED BY <2>2, <2>3
<1>3. t \in [Buckets -> Amounts]
  BY <1>2 DEF Loop
<1>4. ASSUME NEW b \in S, NEW c \in S, Before(b, c), t[c] > 0
      PROVE  t[b] = remaining[b]
  <2>1. Prefix(S, b) + remaining[b] <= Prefix(S, c)
    BY <1>4, PrefixWithin
  <2>2. amount > Prefix(S, c)
    BY <1>4 DEF Loop
  <2>3. CASE remaining[b] = 0
    BY <1>0, <1>2, <2>3, MaxAmountAssumption DEF Amounts
  <2>4. CASE remaining[b] > 0
    <3>1. amount > Prefix(S, b) /\ amount - Prefix(S, b) >= remaining[b]
      BY <1>0, <1>1, <2>1, <2>2, <2>4
    <3>2. t[b] = Least(amount - Prefix(S, b), remaining[b])
      BY <3>1 DEF Loop
    <3> QED BY <1>0, <1>1, <3>1, <3>2 DEF Least
  <2> QED BY <1>0, <2>3, <2>4
<1>5. Total(t, Buckets) = amount
  <2>1. IsFiniteSet(Buckets) /\ IsFiniteSet(S)
    BY LedgerAssumption, FS_Subset
  <2>2. Total(t, Buckets) = Total(t, S)
    <3>1. \A b \in Buckets \ S : t[b] = 0
      BY DEF Loop
    <3> HIDE DEF t
    <3> QED BY <2>1, <3>1, TotalDropZeros
  <2>3. /\ number \in Bijection(U, 1 .. N) /\ N \in Nat
    BY <2>1, CreditsAreNumbered, TotalType
  <2>4. Units(t, S) = {u \in U : number[u] <= amount}
    <3>1. ASSUME NEW u \in S \X (1 .. MaxAmount)
          PROVE  u[2] <= t[u[1]] <=>
                   u[2] <= remaining[u[1]] /\ Prefix(S, u[1]) + u[2] <= amount
      BY <1>2
    <3>2. ASSUME NEW u \in U
          PROVE  u \in S \X (1 .. MaxAmount) /\ number[u] = Prefix(S, u[1]) + u[2]
      BY DEF Units
    <3>3. Units(t, S) \subseteq U
      BY <3>1 DEF Units
    <3> HIDE DEF t, number
    <3> QED BY <3>1, <3>2, <3>3 DEF Units
  <2> HIDE DEF t, U, N, number
  <2>5. [u \in Units(t, S) |-> number[u]] \in Bijection(Units(t, S), 1 .. amount)
    <3> DEFINE h == [u \in Units(t, S) |-> number[u]]
    <3>1. /\ \A u \in U : number[u] \in 1 .. N
          /\ \A u, v \in U : number[u] = number[v] => u = v
          /\ \A i \in 1 .. N : \E u \in U : number[u] = i
      <4>1. number \in [U -> 1 .. N]
        BY <2>3, Fun_BijectionProperties
      <4>2. \A u, v \in U : number[u] = number[v] => u = v
        BY <2>3, Fun_BijectionProperties
      <4>3. \A i \in 1 .. N : \E u \in U : number[u] = i
        BY <2>3 DEF Bijection, Surjection
      <4> QED BY <4>1, <4>2, <4>3
    <3>2. h \in [Units(t, S) -> 1 .. amount]
      BY <2>3, <2>4, <3>1
    <3>3. \A u, v \in Units(t, S) : h[u] = h[v] => u = v
      BY <2>4, <3>1
    <3>4. \A i \in 1 .. amount : \E u \in Units(t, S) : h[u] = i
      <4>1. TAKE i \in 1 .. amount
      <4>2. i \in 1 .. N
        BY <2>3 DEF N
      <4>3. PICK u \in U : number[u] = i
        BY <3>1, <4>2
      <4>4. u \in Units(t, S) /\ h[u] = i
        BY <2>4, <4>3
      <4> QED BY <4>4
    <3> QED BY <3>2, <3>3, <3>4, Fun_IsBij
  <2>6. IsFiniteSet(Units(t, S))
    BY <2>1, TotalType
  <2>7. Cardinality(1 .. amount) = Cardinality(Units(t, S))
    BY <2>5, <2>6, FS_Bijection DEF ExistsBijection
  <2>8. Cardinality(1 .. amount) = amount
    BY FS_Interval
  <2> QED BY <2>2, <2>7, <2>8 DEF Total
<1> QED BY <1>2, <1>3, <1>4, <1>5 DEF Drains

\* An open reservation can always be captured, for any part of it and
\* however many of the buckets behind it have expired since: the loop of
\* captureReservation never runs short.
THEOREM SettlementAlwaysPossible == Spec => []SettlementNeverStuck
<1>1. IInv => SettlementNeverStuck
  <2> SUFFICES ASSUME IInv, NEW r \in Open, NEW n \in 1 .. held[r]
               PROVE  reserved >= held[r] /\ Drains(Settleable, n) # {}
    <3>1. ASSUME IInv, NEW r \in Open
          PROVE  held[r] \in 1 .. held[r]
      BY <3>1, MaxAmountAssumption
         DEF IInv, BalanceInv, TypeOK, OpenHoldsCredits, Open, Amounts
    <3> QED BY <3>1 DEF SettlementNeverStuck
  <2>1. /\ TypeOK /\ ClosedIsEmpty /\ Backing /\ ReservedIsHeld
        /\ held[r] \in Amounts /\ r \in Keys
    BY DEF IInv, BalanceInv, TypeOK, Open
  <2>2. held[r] <= reserved
    <3>1. IsFiniteSet(Open)
      BY LedgerAssumption, FS_Subset DEF Open
    <3>2. held[r] <= Total(held, Open)
      BY <2>1, <3>1, TotalAtLeast
    <3> QED BY <2>1, <3>2 DEF ReservedIsHeld
  <2>3. Active \in SUBSET Buckets
    BY DEF Active
  <2>4. Total(remaining, Active) = available + reserved
    <3>1. \A b \in Buckets \ Active : remaining[b] = 0
      BY <2>1 DEF ClosedIsEmpty, Active
    <3>2. Total(remaining, Buckets) = Total(remaining, Active)
      BY <2>3, <3>1, LedgerAssumption, TotalDropZeros
    <3> QED BY <2>1, <3>2 DEF Backing
  <2>5. available \in Nat /\ reserved \in Nat /\ held[r] \in Nat /\ n \in Nat
    BY <2>1, MaxAmountAssumption DEF TypeOK, Amounts
  <2>6. n <= Total(remaining, Active)
    BY <2>2, <2>4, <2>5
  <2>7. Loop(Active, n) \in Drains(Active, n)
    BY <2>1, <2>3, <2>5, <2>6, LoopFinds
  <2> QED BY <2>2, <2>5, <2>7 DEF Settleable
<1> QED BY <1>1, Invariance, PTL

-------------------------------------------------------------------------------

\* A loop that takes all that S holds leaves nothing in S.
LEMMA DrainsAll ==
  ASSUME TypeOK, NEW S \in SUBSET Buckets, NEW n, n = Total(remaining, S),
         NEW t \in Drains(S, n)
  PROVE  \A b \in S : t[b] = remaining[b]
<1>1. /\ t \in [Buckets -> Amounts] /\ Total(t, Buckets) = n
      /\ \A b \in Buckets : t[b] <= IF b \in S THEN remaining[b] ELSE 0
  BY DEF Drains
<1>2. IsFiniteSet(S) /\ IsFiniteSet(Buckets)
  BY LedgerAssumption, FS_Subset
<1>3. Total(t, S) = n
  <2>1. \A b \in Buckets \ S : t[b] = 0
    BY <1>1, MaxAmountAssumption DEF Amounts
  <2> QED BY <1>1, <1>2, <2>1, TotalDropZeros
<1> DEFINE rest == [b \in S |-> remaining[b] - t[b]]
<1>4. \A b \in S : /\ remaining[b] \in Amounts /\ t[b] \in Amounts
                   /\ t[b] <= remaining[b] /\ rest[b] = remaining[b] - t[b]
  BY <1>1 DEF TypeOK
<1> HIDE DEF rest
<1>5. Total(remaining, S) = Total(rest, S) + Total(t, S)
  BY <1>2, <1>4, TotalMinus
<1>6. Total(rest, S) \in Nat /\ n \in Nat
  BY <1>2, TotalType
<1>7. Total(rest, S) = 0
  BY <1>3, <1>5, <1>6
<1>8. ASSUME NEW b \in S
      PROVE  t[b] = remaining[b]
  <2>1. rest[b] \in Amounts
    BY <1>4, MaxAmountAssumption DEF Amounts
  <2>2. rest[b] <= 0
    BY <1>2, <1>7, <2>1, TotalAtLeast
  <2> QED BY <1>4, <2>2, MaxAmountAssumption DEF Amounts
<1> QED BY <1>8

\* When more is available than the due buckets give, they give all.
LEMMA DueAreEmptied ==
  ASSUME TypeOK, ClosedIsEmpty, ExpireDue(Reversible(Due)),
         Reversible(Due) < available, UNCHANGED <<now>>
  PROVE  \A b \in Buckets : Expired(b)' => remaining'[b] = 0
<1>1. PICK t \in Drains(Due, Reversible(Due)) : Take(t, "expired")
  BY DEF ExpireDue
<1>2. Due \in SUBSET Buckets
  BY DEF Due, Active
<1>3. Reversible(Due) = Total(remaining, Due)
  <2>1. Total(remaining, Due) \in Nat
    BY <1>2, LedgerAssumption, FS_Subset, TotalType
  <2> QED BY <2>1 DEF Reversible, Least, TypeOK
<1>4. \A b \in Due : t[b] = remaining[b]
  BY <1>1, <1>2, <1>3, DrainsAll
<1>5. ASSUME NEW b \in Buckets, Expired(b)'
      PROVE  remaining'[b] = 0
  <2>1. /\ remaining'[b] = remaining[b] - t[b] /\ expiresAt' = expiresAt
        /\ remaining[b] \in Nat /\ t[b] \in Nat
        /\ t[b] <= IF b \in Due THEN remaining[b] ELSE 0
    BY <1>1, MaxAmountAssumption DEF Take, Drains, TypeOK, Amounts
  <2>2. CASE b \in Due
    BY <1>4, <2>1, <2>2
  <2>3. CASE b \notin Due
    <3>1. remaining[b] = 0
      BY <1>5, <2>1, <2>3 DEF Due, Active, Expired, ClosedIsEmpty
    <3> QED BY <2>1, <2>3, <3>1
  <2> QED BY <2>2, <2>3
<1> QED BY <1>5

\* A reservation is only made by reserveCredits.
LEMMA OnlyReserveOpens ==
  ASSUME TypeOK, [Next]_vars, NEW r \in Keys,
         resStatus[r] = "none", resStatus'[r] = "active"
  PROVE  \E k \in Keys, n \in 1 .. MaxAmount : Reserve(k, n)
<1>1. ASSUME NEW k \in Keys, ClientStep(k)
      PROVE  \E n \in 1 .. MaxAmount : Reserve(k, n)
  <2>1. ASSUME NEW b \in Buckets, NEW n \in 1 .. MaxAmount, NEW x \in 1 .. Never,
               NEW src \in Sources, Grant(k, b, n, x, src)
        PROVE  FALSE
    BY <2>1 DEF Grant
  <2>2. ASSUME NEW n \in 1 .. MaxAmount, Debit(k, n) \/ RejectReserve(k, n)
        PROVE  FALSE
    BY <2>2 DEF Debit, RejectReserve
  <2>3. ASSUME NEW q \in Keys,
               Release(k, q) \/ \E n \in 1 .. MaxAmount : Capture(k, q, n)
        PROVE  FALSE
    BY <2>3 DEF Release, Capture, Close, TypeOK
  <2> QED BY <1>1, <2>1, <2>2, <2>3 DEF ClientStep
<1>2. ~ \E s \in Sweepers : SweepScan(s) \/ SweepBucket(s)
  BY DEF SweepScan, SweepBucket, reservationRows
<1>3. ~ \E c \in Clawbacks : ClawbackDiscover(c) \/ ClawbackApply(c)
  BY DEF ClawbackDiscover, ClawbackApply, reservationRows
<1>4. ~Tick /\ ~UNCHANGED vars
  BY DEF Tick, vars, reservationRows
<1> QED BY <1>1, <1>2, <1>3, <1>4 DEF Next

LEMMA ReserveMeetsLiveCredits ==
  ASSUME IInv, [Next]_vars,
         \E r \in Keys : resStatus[r] = "none" /\ resStatus'[r] = "active"
  PROVE  \A b \in Buckets : Expired(b)' => remaining'[b] = 0
<1>0. TypeOK /\ ClosedIsEmpty
  BY DEF IInv, BalanceInv
<1>1. PICK k \in Keys, n \in 1 .. MaxAmount : Reserve(k, n)
  BY <1>0, OnlyReserveOpens
<1>2. ExpireDue(Reversible(Due)) /\ UNCHANGED now
  BY <1>1 DEF Reserve
<1>3. Reversible(Due) < available
  <2>1. Due \in SUBSET Buckets
    BY DEF Due, Active
  <2>2. Reversible(Due) \in Nat
    BY <1>0, <2>1, ReversibleBound
  <2>3. available - Reversible(Due) >= n
    BY <1>1 DEF Reserve
  <2> QED BY <1>0, <2>2, <2>3, MaxAmountAssumption DEF TypeOK
<1> QED BY <1>0, <1>2, <1>3, DueAreEmptied

\* What a reversal takes of a bucket, its ledger row shows.
LEMMA ReversalShows ==
  ASSUME TypeOK, NEW t \in [Buckets -> Amounts], NEW s, NEW type,
         Take(t, s), KeysFree(ReversalsOf(t, type)),
         reversals' = reversals \cup ReversalsOf(t, type),
         NEW b \in Buckets, remaining'[b] < remaining[b]
  PROVE  \E e \in reversals' \ reversals :
           e.bucket = b /\ e.amount = remaining[b] - remaining'[b]
<1>1. remaining'[b] = remaining[b] - t[b] /\ remaining[b] \in Nat /\ t[b] \in Nat
  BY MaxAmountAssumption DEF Take, TypeOK, Amounts
<1>2. t[b] > 0 /\ t[b] = remaining[b] - remaining'[b]
  BY <1>1
<1> DEFINE e == [type |-> type, bucket |-> b, before |-> remaining[b], amount |-> t[b]]
<1>3. e \in ReversalsOf(t, type)
  BY <1>2 DEF ReversalsOf
<1>4. e \notin reversals
  BY <1>3 DEF KeysFree
<1> QED BY <1>2, <1>3, <1>4

LEMMA ExpiredOnlySettledOrReversed ==
  ASSUME IInv, [Next]_vars, NEW b \in Buckets, Expired(b), remaining'[b] < remaining[b]
  PROVE  \/ \E r \in Open : resStatus'[r] = "captured"
         \/ \E e \in reversals' \ reversals :
              e.bucket = b /\ e.amount = remaining[b] - remaining'[b]
<1>0. TypeOK /\ ClosedIsEmpty /\ remaining[b] \in Nat
  BY MaxAmountAssumption DEF IInv, BalanceInv, TypeOK, Amounts
<1>1. ASSUME NEW k \in Keys, NEW c \in Buckets, NEW n \in 1 .. MaxAmount,
             NEW x \in 1 .. Never, NEW src \in Sources, Grant(k, c, n, x, src)
      PROVE  FALSE
  <2>1. remaining' = [remaining EXCEPT ![c] = n] /\ remaining[c] = 0
    BY <1>0, <1>1 DEF Grant, ClosedIsEmpty
  <2> QED BY <1>0, <2>1, MaxAmountAssumption DEF TypeOK
<1>2. ASSUME NEW k \in Keys, NEW n \in 1 .. MaxAmount, Debit(k, n)
      PROVE  FALSE
  <2>1. PICK t \in Drains(Spendable, n) : Take(t, "consumed")
    BY <1>2 DEF Debit
  <2>2. b \notin Spendable
    BY <1>0, LedgerAssumption DEF Spendable, Expired, TypeOK, Never
  <2>3. t[b] <= 0 /\ t[b] \in Nat /\ remaining'[b] = remaining[b] - t[b]
    BY <2>1, <2>2, MaxAmountAssumption DEF Drains, Take, Amounts
  <2> QED BY <1>0, <2>3
<1>3. ASSUME NEW n, ExpireDue(n)
      PROVE  \E e \in reversals' \ reversals :
               e.bucket = b /\ e.amount = remaining[b] - remaining'[b]
  <2>1. PICK t \in Drains(Due, n) :
          /\ KeysFree(ReversalsOf(t, "grant.expired"))
          /\ Take(t, "expired")
          /\ reversals' = reversals \cup ReversalsOf(t, "grant.expired")
    BY <1>3 DEF ExpireDue
  <2>2. t \in [Buckets -> Amounts]
    BY DEF Drains
  <2> QED BY <1>0, <2>1, <2>2, ReversalShows
<1>4. ASSUME NEW k \in Keys, NEW r \in Keys, NEW n \in 1 .. MaxAmount, Capture(k, r, n)
      PROVE  \E q \in Open : resStatus'[q] = "captured"
  BY <1>0, <1>4 DEF Capture, CanSettle, Close, Open, TypeOK
<1>5. ASSUME NEW s \in Sweepers, SweepBucket(s)
      PROVE  \E e \in reversals' \ reversals :
               e.bucket = b /\ e.amount = remaining[b] - remaining'[b]
  <2>1. PICK c \in FirstIn(sweep[s]) :
          LET n == Reversible({c} \cap Active)
              t == [d \in Buckets |-> IF d = c THEN n ELSE 0]
              rows == ReversalsOf(t, "grant.expired") IN
          IF KeysFree(rows)
          THEN Take(t, "expired") /\ reversals' = reversals \cup rows
          ELSE UNCHANGED bucketRows
    BY <1>5 DEF SweepBucket
  <2> DEFINE n == Reversible({c} \cap Active)
             t == [d \in Buckets |-> IF d = c THEN n ELSE 0]
  <2>2. KeysFree(ReversalsOf(t, "grant.expired"))
    BY <1>0, <2>1 DEF bucketRows
  <2>3. Take(t, "expired") /\ reversals' = reversals \cup ReversalsOf(t, "grant.expired")
    BY <2>1, <2>2
  <2>4. c \in Buckets
    BY <1>0 DEF FirstIn, TypeOK
  <2>5. t \in [Buckets -> Amounts]
    BY <1>0, <2>4, SweepTake
  <2> HIDE DEF t
  <2> QED BY <1>0, <2>2, <2>3, <2>5, ReversalShows
<1>6. ASSUME NEW c \in Clawbacks, ClawbackApply(c)
      PROVE  \E e \in reversals' \ reversals :
               e.bucket = b /\ e.amount = remaining[b] - remaining'[b]
  <2>1. PICK S, n : \E t \in Drains(S, n) :
          /\ KeysFree(ReversalsOf(t, "grant.revoked"))
          /\ Take(t, "reversed")
          /\ reversals' = reversals \cup ReversalsOf(t, "grant.revoked")
    BY <1>6 DEF ClawbackApply
  <2>2. PICK t \in Drains(S, n) :
          /\ KeysFree(ReversalsOf(t, "grant.revoked"))
          /\ Take(t, "reversed")
          /\ reversals' = reversals \cup ReversalsOf(t, "grant.revoked")
    BY <2>1
  <2>3. t \in [Buckets -> Amounts]
    BY DEF Drains
  <2> QED BY <1>0, <2>2, <2>3, ReversalShows
<1>7. remaining' # remaining
  BY <1>0
<1>8. /\ ~Tick /\ ~UNCHANGED vars
      /\ ~ \E s \in Sweepers : SweepScan(s)
      /\ ~ \E c \in Clawbacks : ClawbackDiscover(c)
      /\ ~ \E k, r \in Keys : Release(k, r)
  BY <1>7 DEF Tick, vars, SweepScan, ClawbackDiscover, Release, bucketRows
<1>9. ASSUME NEW k \in Keys, NEW n \in 1 .. MaxAmount,
             Reserve(k, n) \/ RejectReserve(k, n)
      PROVE  \E m : ExpireDue(m)
  BY <1>9 DEF Reserve, RejectReserve
<1>10. ASSUME NEW k \in Keys, ClientStep(k)
       PROVE  \/ \E r \in Open : resStatus'[r] = "captured"
              \/ \E e \in reversals' \ reversals :
                   e.bucket = b /\ e.amount = remaining[b] - remaining'[b]
  BY <1>1, <1>2, <1>3, <1>4, <1>8, <1>9, <1>10 DEF ClientStep
<1> QED BY <1>5, <1>6, <1>8, <1>10 DEF Next

\* What is spent or reserved anew are live credits: a reservation leaves no
\* credit in an expired bucket, and an expired bucket loses credits only to
\* the settlement of an earlier claim or to a reversal the ledger shows.
THEOREM OnlyLiveCreditsSpent == Spec => SpendsLiveCredits
<1>1. ASSUME IInv, [Next]_vars
      PROVE  (\E r \in Keys : resStatus[r] = "none" /\ resStatus'[r] = "active")
               => \A b \in Buckets : Expired(b)' => remaining'[b] = 0
  BY <1>1, ReserveMeetsLiveCredits
<1>2. ASSUME IInv, [Next]_vars
      PROVE  \A b \in Buckets :
               Expired(b) /\ remaining'[b] < remaining[b]
                 => \/ \E r \in Open : resStatus'[r] = "captured"
                    \/ \E e \in reversals' \ reversals :
                         e.bucket = b /\ e.amount = remaining[b] - remaining'[b]
  BY <1>2, ExpiredOnlySettledOrReversed
<1> QED BY <1>1, <1>2, Invariance, PTL
        DEF Spec, SpendsLiveCredits, ReservesLiveCredits, ExpiredNeverSpent
===============================================================================
