-------------------------- MODULE CreditLedgerProofs --------------------------
(***************************************************************************)
(* That the buckets always back the balances of an account, that the       *)
(* reserved balance is what the open reservations hold, and that the       *)
(* ledger explains the balances, for any number of keys, buckets, sweeps   *)
(* and clawbacks and any amounts.                                          *)
(***************************************************************************)
EXTENDS CreditLedger, TotalsProofs

\* A bucket that is not active holds nothing.
ClosedIsEmpty == \A b \in Buckets : status[b] # "active" => remaining[b] = 0

\* The inductive strengthening: the sums range over all rows, which is the
\* same as over the active and open ones.
Backing == Total(remaining, Buckets) = available + reserved

BalanceInv == TypeOK /\ ClosedIsEmpty /\ Backing /\ ReservedIsHeld

-------------------------------------------------------------------------------

\* Reversible credits are available and in the buckets they are taken from.
LEMMA ReversibleBound ==
  ASSUME TypeOK, NEW S \in SUBSET Buckets
  PROVE  Reversible(S) \in Nat /\ Reversible(S) <= available
<1>1. IsFiniteSet(S)
  BY LedgerAssumption, FS_Subset
<1>2. Total(remaining, S) \in Nat
  BY <1>1, TotalType
<1> QED BY <1>2 DEF Reversible, Least, TypeOK

\* What Take does to the bucket rows, for amounts t they hold.
LEMMA TakeRows ==
  ASSUME TypeOK, ClosedIsEmpty, NEW s \in BucketStatus, NEW t,
         t \in [Buckets -> Amounts], \A b \in Buckets : t[b] <= remaining[b],
         Take(t, s)
  PROVE  /\ remaining' \in [Buckets -> Amounts]
         /\ status' \in [Buckets -> BucketStatus]
         /\ expiresAt' \in [Buckets -> 1 .. Never]
         /\ source' \in [Buckets -> Sources]
         /\ ClosedIsEmpty'
         /\ Total(remaining, Buckets) = Total(remaining', Buckets) + Total(t, Buckets)
<1>0. \A b \in Buckets : /\ remaining[b] \in 0 .. MaxAmount
                         /\ t[b] \in 0 .. MaxAmount
                         /\ t[b] <= remaining[b]
                         /\ remaining'[b] = remaining[b] - t[b]
  BY DEF TypeOK, Take, Amounts
<1>1. remaining' \in [Buckets -> Amounts]
  <2>1. \A b \in Buckets : remaining[b] - t[b] \in Amounts
    BY <1>0, MaxAmountAssumption DEF Amounts
  <2> QED BY <2>1 DEF Take
<1>2. status' \in [Buckets -> BucketStatus]
  BY DEF Take, TypeOK
<1>3. expiresAt' \in [Buckets -> 1 .. Never] /\ source' \in [Buckets -> Sources]
  BY DEF Take, TypeOK
<1>4. ClosedIsEmpty'
  <2>1. ASSUME NEW b \in Buckets, status'[b] # "active"
        PROVE  remaining'[b] = 0
    <3>1. CASE t[b] > 0 /\ t[b] = remaining[b]
      BY <3>1, <1>0, MaxAmountAssumption
    <3>2. CASE ~(t[b] > 0 /\ t[b] = remaining[b])
      <4>1. status'[b] = status[b]
        BY <3>2 DEF Take
      <4>2. remaining[b] = 0
        BY <4>1, <2>1 DEF ClosedIsEmpty
      <4> QED BY <4>2, <1>0, MaxAmountAssumption
    <3> QED BY <3>1, <3>2
  <2> QED BY <2>1 DEF ClosedIsEmpty
<1>5. Total(remaining, Buckets) = Total(remaining', Buckets) + Total(t, Buckets)
  <2>1. IsFiniteSet(Buckets)
    BY LedgerAssumption
  <2>2. \A b \in Buckets : /\ remaining[b] \in Amounts /\ t[b] \in Amounts
                           /\ t[b] <= remaining[b]
    BY <1>0 DEF Amounts
  <2>3. \A b \in Buckets : remaining'[b] = remaining[b] - t[b]
    BY <1>0
  <2>4. \A f, g, u : (/\ \A b \in Buckets : /\ f[b] \in Amounts /\ u[b] \in Amounts
                                            /\ u[b] <= f[b]
                      /\ \A b \in Buckets : g[b] = f[b] - u[b])
             => Total(f, Buckets) = Total(g, Buckets) + Total(u, Buckets)
    BY <2>1, TotalMinus
  <2> QED BY <2>2, <2>3, <2>4
<1> QED BY <1>1, <1>2, <1>3, <1>4, <1>5

\* The same for amounts a loop over S drains.
LEMMA DrainRows ==
  ASSUME TypeOK, ClosedIsEmpty, NEW s \in BucketStatus, NEW S, NEW n,
         NEW t \in Drains(S, n), Take(t, s)
  PROVE  /\ remaining' \in [Buckets -> Amounts]
         /\ status' \in [Buckets -> BucketStatus]
         /\ expiresAt' \in [Buckets -> 1 .. Never]
         /\ source' \in [Buckets -> Sources]
         /\ ClosedIsEmpty'
         /\ Total(remaining, Buckets) = Total(remaining', Buckets) + n
<1>1. /\ t \in [Buckets -> Amounts]
      /\ \A b \in Buckets : t[b] <= remaining[b]
      /\ Total(t, Buckets) = n
  <2>1. \A b \in Buckets : remaining[b] >= 0
    BY MaxAmountAssumption DEF TypeOK, Amounts
  <2>2. ASSUME NEW b \in Buckets
        PROVE  t[b] <= remaining[b]
    BY <2>1, MaxAmountAssumption DEF Drains, TypeOK, Amounts
  <2> QED BY <2>2 DEF Drains
<1> QED BY <1>1, TakeRows

\* The reversal rows of amounts the buckets hold are well formed.
LEMMA ReversalRows ==
  ASSUME TypeOK, NEW t \in [Buckets -> Amounts],
         \A b \in Buckets : t[b] <= remaining[b],
         NEW s \in {"grant.expired", "grant.revoked"}
  PROVE  ReversalsOf(t, s) \subseteq Reversal
<1>1. ASSUME NEW b \in Buckets, t[b] > 0
      PROVE  remaining[b] \in 1 .. MaxAmount /\ t[b] \in 1 .. MaxAmount
  BY <1>1, MaxAmountAssumption DEF TypeOK, Amounts
<1> QED BY <1>1 DEF ReversalsOf, Reversal

-------------------------------------------------------------------------------
(* Each operation keeps BalanceInv.                                        *)

LEMMA GrantBalance ==
  ASSUME BalanceInv, NEW k \in Keys, NEW b \in Buckets, NEW n \in 1 .. MaxAmount,
         NEW x \in 1 .. Never, NEW src \in Sources, Grant(k, b, n, x, src)
  PROVE  BalanceInv'
<1> USE DEF BalanceInv
<1>0. n \in Amounts /\ n \in Nat
  BY MaxAmountAssumption DEF Amounts
<1>1. TypeOK'
  BY <1>0 DEF TypeOK, Grant, Record, Entry, BucketStatus
<1>2. ClosedIsEmpty'
  BY DEF ClosedIsEmpty, Grant, TypeOK
<1>3. Backing'
  <2>1. remaining[b] = 0
    BY DEF ClosedIsEmpty, Grant
  <2>2. IsFiniteSet(Buckets)
    BY LedgerAssumption
  <2>3. /\ remaining[b] \in Amounts /\ remaining'[b] \in Amounts
        /\ remaining'[b] = n
        /\ \A c \in Buckets \ {b} : remaining'[c] = remaining[c]
    BY <1>0 DEF Grant, TypeOK
  <2>4. Total(remaining', Buckets) + remaining[b] =
          Total(remaining, Buckets) + remaining'[b]
    BY <2>2, <2>3, TotalChangeOne
  <2>5. Total(remaining', Buckets) \in Nat
    BY <2>2, TotalType
  <2> QED BY <2>1, <2>3, <2>4, <2>5, <1>0 DEF Backing, Grant, TypeOK
<1>4. ReservedIsHeld'
  BY DEF ReservedIsHeld, Grant, Open
<1> QED BY <1>1, <1>2, <1>3, <1>4

LEMMA DebitBalance ==
  ASSUME BalanceInv, NEW k \in Keys, NEW n \in 1 .. MaxAmount, Debit(k, n)
  PROVE  BalanceInv'
<1> USE DEF BalanceInv
<1>0. n \in Nat /\ available - n \in Nat
  BY MaxAmountAssumption DEF Debit, TypeOK
<1>1. PICK t \in Drains(Spendable, n) : Take(t, "consumed")
  BY DEF Debit
<1>2. /\ remaining' \in [Buckets -> Amounts]
      /\ status' \in [Buckets -> BucketStatus]
      /\ expiresAt' \in [Buckets -> 1 .. Never]
      /\ source' \in [Buckets -> Sources]
      /\ ClosedIsEmpty'
      /\ Total(remaining, Buckets) = Total(remaining', Buckets) + n
  BY <1>1, DrainRows DEF BucketStatus
<1>3. TypeOK'
  BY <1>0, <1>2 DEF TypeOK, Debit, Record, Entry
<1>4. Backing'
  <2>1. Total(remaining', Buckets) \in Nat
    BY LedgerAssumption, TotalType
  <2> QED BY <1>0, <1>2, <2>1 DEF Backing, Debit, TypeOK
<1>5. ReservedIsHeld'
  BY DEF ReservedIsHeld, Debit, Open
<1> QED BY <1>2, <1>3, <1>4, <1>5

\* The expiry of the due buckets inside a reservation.
LEMMA ExpireDueRows ==
  ASSUME TypeOK, ClosedIsEmpty, NEW n, ExpireDue(n)
  PROVE  /\ remaining' \in [Buckets -> Amounts]
         /\ status' \in [Buckets -> BucketStatus]
         /\ expiresAt' \in [Buckets -> 1 .. Never]
         /\ source' \in [Buckets -> Sources]
         /\ reversals' \subseteq Reversal
         /\ ClosedIsEmpty'
         /\ Total(remaining, Buckets) = Total(remaining', Buckets) + n
<1>1. PICK t \in Drains(Due, n) :
        /\ Take(t, "expired")
        /\ reversals' = reversals \cup ReversalsOf(t, "grant.expired")
  BY DEF ExpireDue
<1>2. t \in [Buckets -> Amounts] /\ \A b \in Buckets : t[b] <= remaining[b]
  BY MaxAmountAssumption DEF Drains, TypeOK, Amounts
<1>3. reversals' \subseteq Reversal
  BY <1>1, <1>2, ReversalRows DEF TypeOK
<1>4. "expired" \in BucketStatus
  BY DEF BucketStatus
<1> QED BY <1>1, <1>3, <1>4, DrainRows

LEMMA ReserveBalance ==
  ASSUME BalanceInv, NEW k \in Keys, NEW n \in 1 .. MaxAmount, Reserve(k, n)
  PROVE  BalanceInv'
<1> USE DEF BalanceInv
<1> DEFINE lapsed == Reversible(Due)
<1>0. /\ n \in Nat /\ n \in Amounts /\ n \in 1 .. MaxAmount
      /\ lapsed \in Nat /\ lapsed <= available
      /\ available' = available - lapsed - n /\ available - lapsed >= n
      /\ reserved' = reserved + n /\ available \in Nat /\ reserved \in Nat
      /\ available' \in Nat /\ reserved' \in Nat
  <2>1. Due \in SUBSET Buckets
    BY DEF Due, Active
  <2>2. lapsed \in Nat /\ lapsed <= available
    BY <2>1, ReversibleBound
  <2> QED BY <2>2, MaxAmountAssumption DEF Amounts, Reserve, TypeOK
<1>1. ExpireDue(lapsed)
  BY DEF Reserve
<1>2. /\ remaining' \in [Buckets -> Amounts]
      /\ status' \in [Buckets -> BucketStatus]
      /\ expiresAt' \in [Buckets -> 1 .. Never]
      /\ source' \in [Buckets -> Sources]
      /\ reversals' \subseteq Reversal
      /\ ClosedIsEmpty'
      /\ Total(remaining, Buckets) = Total(remaining', Buckets) + lapsed
  BY <1>1, ExpireDueRows
<1> HIDE DEF lapsed
<1>3. TypeOK'
  <2>1. held' \in [Keys -> Amounts] /\ resStatus' \in [Keys -> ReservationStatus]
    BY <1>0 DEF Reserve, TypeOK, ReservationStatus
  <2>2. ledger' \in [Keys -> Entry \cup {NoEntry}]
    BY <1>0 DEF Reserve, TypeOK, Record, Entry
  <2>3. UNCHANGED <<now, sweep, discovered>>
    BY DEF Reserve
  <2> QED BY <1>0, <1>2, <2>1, <2>2, <2>3 DEF TypeOK
<1>4. Backing'
  <2>1. Total(remaining', Buckets) \in Nat
    BY LedgerAssumption, TotalType
  <2>2. Total(remaining, Buckets) = available + reserved
    BY DEF Backing
  <2>3. Total(remaining', Buckets) = available' + reserved'
    BY <1>0, <1>2, <2>1, <2>2
  <2> QED BY <2>3 DEF Backing
<1>5. ReservedIsHeld'
  <2>1. Open' = Open \cup {k} /\ k \notin Open
    BY DEF Open, Reserve, TypeOK
  <2>2. IsFiniteSet(Open) /\ IsFiniteSet({k})
    BY LedgerAssumption, FS_Subset, FS_Singleton DEF Open
  <2>3. Total(held', Open \cup {k}) = Total(held', Open) + Total(held', {k})
    BY <2>1, <2>2, TotalSplit
  <2>4. Total(held', {k}) = n
    <3>1. held'[k] = n
      BY DEF Reserve, TypeOK
    <3> QED BY <3>1, <1>0, TotalOne
  <2>5. Total(held', Open) = Total(held, Open)
    <3>1. \A r \in Open : held'[r] = held[r]
      BY <2>1 DEF Reserve, TypeOK, Open
    <3> QED BY <3>1, TotalSame
  <2> QED BY <1>0, <2>1, <2>3, <2>4, <2>5 DEF ReservedIsHeld
<1> QED BY <1>2, <1>3, <1>4, <1>5

LEMMA RejectReserveBalance ==
  ASSUME BalanceInv, NEW k \in Keys, NEW n \in 1 .. MaxAmount, RejectReserve(k, n)
  PROVE  BalanceInv'
<1> USE DEF BalanceInv
<1> DEFINE lapsed == Reversible(Due)
<1>0. /\ lapsed \in Nat /\ lapsed <= available
      /\ available' = available - lapsed /\ reserved' = reserved
      /\ available \in Nat /\ reserved \in Nat /\ available' \in Nat
  <2>1. Due \in SUBSET Buckets
    BY DEF Due, Active
  <2>2. lapsed \in Nat /\ lapsed <= available
    BY <2>1, ReversibleBound
  <2> QED BY <2>2 DEF RejectReserve, TypeOK
<1>1. ExpireDue(lapsed)
  BY DEF RejectReserve
<1>2. /\ remaining' \in [Buckets -> Amounts]
      /\ status' \in [Buckets -> BucketStatus]
      /\ expiresAt' \in [Buckets -> 1 .. Never]
      /\ source' \in [Buckets -> Sources]
      /\ reversals' \subseteq Reversal
      /\ ClosedIsEmpty'
      /\ Total(remaining, Buckets) = Total(remaining', Buckets) + lapsed
  BY <1>1, ExpireDueRows
<1> HIDE DEF lapsed
<1>3. UNCHANGED <<now, held, resStatus, ledger, sweep, discovered>>
  BY DEF RejectReserve
<1>4. TypeOK'
  BY <1>0, <1>2, <1>3 DEF TypeOK
<1>5. Backing'
  <2>1. Total(remaining', Buckets) \in Nat
    BY LedgerAssumption, TotalType
  <2>2. Total(remaining, Buckets) = available + reserved
    BY DEF Backing
  <2>3. Total(remaining', Buckets) = available' + reserved'
    BY <1>0, <1>2, <2>1, <2>2
  <2> QED BY <2>3 DEF Backing
<1>6. ReservedIsHeld'
  BY <1>0, <1>3 DEF ReservedIsHeld, Open
<1> QED BY <1>2, <1>4, <1>5, <1>6

\* Closing an open reservation takes what it holds from the sum of the open
\* ones.
LEMMA CloseHeld ==
  ASSUME TypeOK, ReservedIsHeld, NEW r \in Keys, CanSettle(r),
         NEW s \in {"captured", "released"}, Close(r, s),
         held' = held, reserved' = reserved - held[r]
  PROVE  ReservedIsHeld'
<1>1. Open = Open' \cup {r} /\ r \notin Open'
  BY DEF Open, Close, CanSettle, TypeOK
<1>2. IsFiniteSet(Open') /\ IsFiniteSet({r})
  BY LedgerAssumption, FS_Subset, FS_Singleton DEF Open
<1>3. Total(held, Open' \cup {r}) = Total(held, Open') + Total(held, {r})
  BY <1>1, <1>2, TotalSplit
<1>4. Total(held, {r}) = held[r]
  BY TotalOne DEF TypeOK
<1>5. Total(held, Open') \in Nat /\ held[r] \in Nat
  BY <1>2, TotalType, MaxAmountAssumption DEF TypeOK, Amounts
<1>6. Total(held, Open) = reserved
  BY DEF ReservedIsHeld
<1>7. Total(held, Open') = reserved'
  BY <1>1, <1>3, <1>4, <1>5, <1>6
<1> QED BY <1>7 DEF ReservedIsHeld

LEMMA CaptureBalance ==
  ASSUME BalanceInv, NEW k \in Keys, NEW r \in Keys, NEW n \in 1 .. MaxAmount,
         Capture(k, r, n)
  PROVE  BalanceInv'
<1> USE DEF BalanceInv
<1>0. /\ n \in Nat /\ held[r] \in Nat /\ available \in Nat /\ reserved \in Nat
      /\ n <= held[r] /\ held[r] <= reserved
      /\ available' = available + held[r] - n
      /\ reserved' = reserved - held[r]
      /\ available' \in Nat /\ reserved' \in Nat
  BY MaxAmountAssumption DEF Capture, TypeOK, Amounts
<1>1. PICK t \in Drains(Settleable, n) : Take(t, "consumed")
  BY DEF Capture
<1>2. /\ remaining' \in [Buckets -> Amounts]
      /\ status' \in [Buckets -> BucketStatus]
      /\ expiresAt' \in [Buckets -> 1 .. Never]
      /\ source' \in [Buckets -> Sources]
      /\ ClosedIsEmpty'
      /\ Total(remaining, Buckets) = Total(remaining', Buckets) + n
  BY <1>1, DrainRows DEF BucketStatus
<1>3. TypeOK'
  <2>1. resStatus' \in [Keys -> ReservationStatus]
    BY DEF Capture, Close, TypeOK, ReservationStatus
  <2>2. ledger' \in [Keys -> Entry \cup {NoEntry}]
    BY DEF Capture, TypeOK, Record, Entry
  <2>3. UNCHANGED <<now, held, reversals, sweep, discovered>>
    BY DEF Capture
  <2> QED BY <1>0, <1>2, <2>1, <2>2, <2>3 DEF TypeOK
<1>4. Backing'
  <2>1. Total(remaining', Buckets) \in Nat
    BY LedgerAssumption, TotalType
  <2>2. Total(remaining, Buckets) = available + reserved
    BY DEF Backing
  <2>3. Total(remaining', Buckets) = available' + reserved'
    BY <1>0, <1>2, <2>1, <2>2
  <2> QED BY <2>3 DEF Backing
<1>5. ReservedIsHeld'
  BY <1>0, CloseHeld DEF Capture
<1> QED BY <1>2, <1>3, <1>4, <1>5

LEMMA ReleaseBalance ==
  ASSUME BalanceInv, NEW k \in Keys, NEW r \in Keys, held[r] > 0, Release(k, r)
  PROVE  BalanceInv'
<1> USE DEF BalanceInv
<1>0. /\ held[r] \in 1 .. MaxAmount /\ held[r] \in Nat
      /\ available \in Nat /\ reserved \in Nat /\ held[r] <= reserved
      /\ available' = available + held[r]
      /\ reserved' = reserved - held[r]
      /\ available' \in Nat /\ reserved' \in Nat
  BY MaxAmountAssumption DEF Release, TypeOK, Amounts
<1>1. TypeOK'
  <2>1. resStatus' \in [Keys -> ReservationStatus]
    BY DEF Release, Close, TypeOK, ReservationStatus
  <2>2. ledger' \in [Keys -> Entry \cup {NoEntry}]
    BY <1>0 DEF Release, TypeOK, Record, Entry
  <2>3. UNCHANGED <<now, bucketRows, held, reversals, sweep, discovered>>
    BY DEF Release
  <2> QED BY <1>0, <2>1, <2>2, <2>3 DEF TypeOK, bucketRows
<1>2. ClosedIsEmpty'
  BY DEF ClosedIsEmpty, Release, bucketRows
<1>3. Backing'
  BY <1>0 DEF Backing, Release, bucketRows
<1>4. ReservedIsHeld'
  BY <1>0, CloseHeld DEF Release
<1> QED BY <1>1, <1>2, <1>3, <1>4

LEMMA SweepScanBalance ==
  ASSUME BalanceInv, NEW s \in Sweepers, SweepScan(s)
  PROVE  BalanceInv'
<1> USE DEF BalanceInv
<1>1. Due \in SUBSET Buckets
  BY DEF Due, Active
<1>2. UNCHANGED <<now, available, reserved, remaining, status, expiresAt, source,
                  held, resStatus, ledger, reversals, discovered>>
  BY DEF SweepScan, account, bucketRows, reservationRows
<1>3. sweep' \in [Sweepers -> SUBSET Buckets]
  BY <1>1 DEF SweepScan, TypeOK
<1> QED BY <1>2, <1>3 DEF TypeOK, ClosedIsEmpty, Backing, ReservedIsHeld, Open

\* What the sweep reverses of a bucket is available and in the bucket.
LEMMA SweepAmount ==
  ASSUME TypeOK, NEW b \in Buckets
  PROVE  /\ Reversible({b} \cap Active) \in Amounts
         /\ Reversible({b} \cap Active) <= available
         /\ Reversible({b} \cap Active) <= remaining[b]
<1>1. remaining[b] \in Amounts /\ remaining[b] \in Nat
  BY MaxAmountAssumption DEF TypeOK, Amounts
<1>2. CASE b \in Active
  <2>1. {b} \cap Active = {b}
    BY <1>2
  <2>2. Total(remaining, {b} \cap Active) = remaining[b]
    BY <1>1, <2>1, TotalOne
  <2> QED BY <1>1, <2>2, MaxAmountAssumption DEF Reversible, Least, TypeOK, Amounts
<1>3. CASE b \notin Active
  <2>1. Total(remaining, {b} \cap Active) = 0
    BY <1>3, TotalZero
  <2> QED BY <1>1, <2>1, MaxAmountAssumption DEF Reversible, Least, TypeOK, Amounts
<1> QED BY <1>2, <1>3

\* The sweep drains its one bucket of that amount.
LEMMA SweepTake ==
  ASSUME TypeOK, NEW b \in Buckets, NEW n,
         n = Reversible({b} \cap Active), NEW t,
         t = [c \in Buckets |-> IF c = b THEN n ELSE 0]
  PROVE  /\ n \in Nat /\ n <= available
         /\ t \in [Buckets -> Amounts]
         /\ \A c \in Buckets : t[c] <= remaining[c]
         /\ Total(t, Buckets) = n
<1>1. n \in Amounts /\ n <= available /\ n <= remaining[b]
  BY SweepAmount
<1>2. n \in Nat /\ 0 \in Amounts
  BY <1>1, MaxAmountAssumption DEF Amounts
<1>3. t \in [Buckets -> Amounts]
  BY <1>1, <1>2
<1>4. ASSUME NEW c \in Buckets
      PROVE  t[c] <= remaining[c]
  BY <1>1, <1>2, MaxAmountAssumption DEF TypeOK, Amounts
<1>5. Total(t, Buckets) = n
  <2>1. t[b] = n /\ \A c \in Buckets \ {b} : t[c] = 0
    OBVIOUS
  <2>2. Total(t, Buckets) = Total(t, {b})
    <3>1. IsFiniteSet(Buckets) /\ {b} \in SUBSET Buckets
      BY LedgerAssumption
    <3> QED BY <2>1, <3>1, TotalDropZeros
  <2>3. Total(t, {b}) = n
    BY <1>1, <2>1, TotalOne
  <2> QED BY <2>2, <2>3
<1> QED BY <1>1, <1>2, <1>3, <1>4, <1>5

LEMMA SweepBucketBalance ==
  ASSUME BalanceInv, NEW s \in Sweepers, SweepBucket(s)
  PROVE  BalanceInv'
<1> USE DEF BalanceInv
<1>1. PICK b \in FirstIn(sweep[s]) :
        LET lapsed == Reversible({b} \cap Active)
            t == [c \in Buckets |-> IF c = b THEN lapsed ELSE 0]
            rows == ReversalsOf(t, "grant.expired") IN
        /\ IF KeysFree(rows)
           THEN /\ Take(t, "expired")
                /\ available' = available - lapsed
                /\ reversals' = reversals \cup rows
                /\ sweep' = [sweep EXCEPT ![s] = @ \ {b}]
           ELSE /\ sweep' = [sweep EXCEPT ![s] = {}]
                /\ UNCHANGED <<available, bucketRows, reversals>>
        /\ UNCHANGED <<now, reserved, reservationRows, ledger, discovered>>
  BY DEF SweepBucket
<1> DEFINE lapsed == Reversible({b} \cap Active)
           t == [c \in Buckets |-> IF c = b THEN lapsed ELSE 0]
           rows == ReversalsOf(t, "grant.expired")
<1>2. b \in Buckets
  BY DEF FirstIn, TypeOK
<1>3. sweep' \in [Sweepers -> SUBSET Buckets]
  BY <1>1 DEF TypeOK
<1>4. UNCHANGED <<now, reserved, held, resStatus, ledger, discovered>>
  BY <1>1 DEF reservationRows
<1>5. ReservedIsHeld'
  BY <1>4 DEF ReservedIsHeld, Open
<1>6. CASE ~KeysFree(rows)
  <2>1. UNCHANGED <<available, remaining, status, expiresAt, source, reversals>>
    BY <1>1, <1>6 DEF bucketRows
  <2> QED BY <1>3, <1>4, <1>5, <2>1 DEF TypeOK, ClosedIsEmpty, Backing
<1>7. CASE KeysFree(rows)
  <2>1. /\ Take(t, "expired")
        /\ available' = available - lapsed
        /\ reversals' = reversals \cup rows
    BY <1>1, <1>7
  <2>2. lapsed \in Nat /\ lapsed <= available
    BY <1>2, SweepTake
  <2>3. /\ t \in [Buckets -> Amounts]
        /\ \A c \in Buckets : t[c] <= remaining[c]
        /\ Total(t, Buckets) = lapsed
    BY <1>2, SweepTake
  <2> HIDE DEF lapsed
  <2>4. reversals' \subseteq Reversal
    <3> HIDE DEF t
    <3>1. rows \subseteq Reversal
      BY <2>3, ReversalRows
    <3> QED BY <3>1, <2>1 DEF TypeOK
  <2> HIDE DEF t
  <2>5. /\ remaining' \in [Buckets -> Amounts]
        /\ status' \in [Buckets -> BucketStatus]
        /\ expiresAt' \in [Buckets -> 1 .. Never]
        /\ source' \in [Buckets -> Sources]
        /\ ClosedIsEmpty'
        /\ Total(remaining, Buckets) = Total(remaining', Buckets) + lapsed
    <3>1. "expired" \in BucketStatus
      BY DEF BucketStatus
    <3> QED BY <2>1, <2>3, <3>1, TakeRows
  <2>6. available' \in Nat
    BY <2>1, <2>2 DEF TypeOK
  <2>7. TypeOK'
    BY <1>3, <1>4, <2>4, <2>5, <2>6 DEF TypeOK
  <2>8. Backing'
    <3>1. Total(remaining', Buckets) \in Nat
      BY LedgerAssumption, TotalType
    <3> QED BY <1>4, <2>1, <2>2, <2>5, <3>1 DEF Backing, TypeOK
  <2> QED BY <1>5, <2>5, <2>7, <2>8
<1> QED BY <1>6, <1>7

LEMMA ClawbackDiscoverBalance ==
  ASSUME BalanceInv, NEW c \in Clawbacks, ClawbackDiscover(c)
  PROVE  BalanceInv'
<1> USE DEF BalanceInv
<1>1. discovered' \in [Clawbacks -> SUBSET Buckets]
  BY DEF ClawbackDiscover, TypeOK, Active
<1>2. UNCHANGED <<now, available, reserved, remaining, status, expiresAt, source,
                  held, resStatus, ledger, reversals, sweep>>
  BY DEF ClawbackDiscover, account, bucketRows, reservationRows
<1> QED BY <1>1, <1>2 DEF TypeOK, ClosedIsEmpty, Backing, ReservedIsHeld, Open

LEMMA ClawbackApplyBalance ==
  ASSUME BalanceInv, NEW c \in Clawbacks, ClawbackApply(c)
  PROVE  BalanceInv'
<1> USE DEF BalanceInv
<1> DEFINE locked == {b \in discovered[c] \cap Active : remaining[b] > 0}
           revoked == Reversible(locked)
<1>1. revoked \in Nat /\ revoked <= available
  BY ReversibleBound DEF Active
<1>2. PICK t \in Drains(locked, revoked) :
        /\ Take(t, "reversed")
        /\ reversals' = reversals \cup ReversalsOf(t, "grant.revoked")
  BY DEF ClawbackApply
<1>3. /\ available' = available - revoked
      /\ discovered' = [discovered EXCEPT ![c] = {}]
      /\ UNCHANGED <<now, reserved, held, resStatus, ledger, sweep>>
  BY DEF ClawbackApply, reservationRows
<1> HIDE DEF locked, revoked
<1>4. /\ remaining' \in [Buckets -> Amounts]
      /\ status' \in [Buckets -> BucketStatus]
      /\ expiresAt' \in [Buckets -> 1 .. Never]
      /\ source' \in [Buckets -> Sources]
      /\ ClosedIsEmpty'
      /\ Total(remaining, Buckets) = Total(remaining', Buckets) + revoked
  BY <1>2, DrainRows DEF BucketStatus
<1>5. reversals' \subseteq Reversal
  <2>1. t \in [Buckets -> Amounts] /\ \A b \in Buckets : t[b] <= remaining[b]
    BY MaxAmountAssumption DEF Drains, TypeOK, Amounts
  <2>2. ReversalsOf(t, "grant.revoked") \subseteq Reversal
    BY <2>1, ReversalRows
  <2> QED BY <1>2, <2>2 DEF TypeOK
<1>6. available' \in Nat /\ discovered' \in [Clawbacks -> SUBSET Buckets]
  BY <1>1, <1>3 DEF TypeOK
<1>7. TypeOK'
  BY <1>3, <1>4, <1>5, <1>6 DEF TypeOK
<1>8. Backing'
  <2>1. Total(remaining', Buckets) \in Nat
    BY LedgerAssumption, TotalType
  <2> QED BY <1>1, <1>3, <1>4, <2>1 DEF Backing, TypeOK
<1>9. ReservedIsHeld'
  BY <1>3 DEF ReservedIsHeld, Open
<1> QED BY <1>4, <1>7, <1>8, <1>9

-------------------------------------------------------------------------------

\* An open reservation holds at least one credit.
OpenHoldsCredits == \A r \in Open : held[r] > 0

IInv == BalanceInv /\ OpenHoldsCredits

LEMMA InitIInv == Init => IInv
<1> SUFFICES ASSUME Init PROVE IInv
  OBVIOUS
<1>0. IsFiniteSet(Buckets) /\ IsFiniteSet(Keys) /\ MaxTime \in Nat
  BY LedgerAssumption
<1>1. TypeOK
  BY <1>0, MaxAmountAssumption DEF Init, TypeOK, Amounts, BucketStatus, Sources,
     ReservationStatus, Never
<1>2. ClosedIsEmpty
  BY DEF Init, ClosedIsEmpty
<1>3. Backing
  <2>1. Total(remaining, Buckets) = 0
    BY TotalZero DEF Init
  <2> QED BY <2>1 DEF Backing, Init
<1>4. Open = {}
  BY DEF Init, Open
<1>5. ReservedIsHeld
  <2>1. Total(held, Open) = 0
    BY <1>4, TotalZero
  <2> QED BY <2>1 DEF ReservedIsHeld, Init
<1> QED BY <1>1, <1>2, <1>3, <1>4, <1>5 DEF IInv, BalanceInv, OpenHoldsCredits

\* Only a reservation of at least one credit opens, and what it holds is
\* never changed.
LEMMA OpenHoldsCreditsStep ==
  ASSUME TypeOK, OpenHoldsCredits, [Next]_vars
  PROVE  OpenHoldsCredits'
<1> SUFFICES ASSUME NEW r \in Keys, resStatus'[r] = "active"
             PROVE  held'[r] > 0
  BY DEF OpenHoldsCredits, Open
<1>0. CASE held'[r] = held[r] /\ resStatus[r] = "active"
  BY <1>0 DEF OpenHoldsCredits, Open
<1>1. ASSUME NEW k \in Keys, NEW n \in 1 .. MaxAmount, Reserve(k, n)
      PROVE  held'[r] > 0
  <2>1. CASE r = k
    BY <1>1, <2>1, MaxAmountAssumption DEF Reserve, TypeOK
  <2>2. CASE r # k
    BY <1>1, <2>2, <1>0 DEF Reserve, TypeOK
  <2> QED BY <2>1, <2>2
<1>2. ASSUME NEW k \in Keys, NEW q \in Keys,
             Release(k, q) \/ \E n \in 1 .. MaxAmount : Capture(k, q, n)
      PROVE  held'[r] = held[r] /\ resStatus[r] = "active"
  BY <1>2 DEF Release, Capture, Close, TypeOK
<1>3. CASE UNCHANGED <<held, resStatus>>
  BY <1>0, <1>3
<1>4. ASSUME NEW k \in Keys, ClientStep(k)
      PROVE  held'[r] > 0
  <2>1. ASSUME NEW b \in Buckets, NEW n \in 1 .. MaxAmount, NEW x \in 1 .. Never,
               NEW src \in Sources, Grant(k, b, n, x, src)
        PROVE  UNCHANGED <<held, resStatus>>
    BY <2>1 DEF Grant
  <2>2. ASSUME NEW n \in 1 .. MaxAmount, Debit(k, n) \/ RejectReserve(k, n)
        PROVE  UNCHANGED <<held, resStatus>>
    BY <2>2 DEF Debit, RejectReserve
  <2>3. ASSUME NEW n \in 1 .. MaxAmount, Reserve(k, n)
        PROVE  held'[r] > 0
    BY <1>1, <2>3
  <2>4. ASSUME NEW q \in Keys,
               Release(k, q) \/ \E n \in 1 .. MaxAmount : Capture(k, q, n)
        PROVE  held'[r] > 0
    BY <1>0, <1>2, <2>4
  <2> QED BY <1>3, <1>4, <2>1, <2>2, <2>3, <2>4 DEF ClientStep
<1>5. CASE Tick
  BY <1>3, <1>5 DEF Tick, reservationRows
<1>6. ASSUME NEW s \in Sweepers, SweepScan(s) \/ SweepBucket(s)
      PROVE  held'[r] > 0
  BY <1>3, <1>6 DEF SweepScan, SweepBucket, reservationRows
<1>7. ASSUME NEW c \in Clawbacks, ClawbackDiscover(c) \/ ClawbackApply(c)
      PROVE  held'[r] > 0
  BY <1>3, <1>7 DEF ClawbackDiscover, ClawbackApply, reservationRows
<1>8. CASE UNCHANGED vars
  BY <1>3, <1>8 DEF vars
<1> QED BY <1>4, <1>5, <1>6, <1>7, <1>8 DEF Next

\* A step that moves only the clock keeps BalanceInv.
LEMMA StutterBalance ==
  ASSUME BalanceInv, now' \in 0 .. MaxTime,
         UNCHANGED <<available, reserved, remaining, status, expiresAt, source,
                     held, resStatus, ledger, reversals, sweep, discovered>>
  PROVE  BalanceInv'
<1>1. TypeOK'
  BY DEF BalanceInv, TypeOK
<1>2. ClosedIsEmpty'
  BY DEF BalanceInv, ClosedIsEmpty
<1>3. Backing'
  BY DEF BalanceInv, Backing
<1>4. ReservedIsHeld'
  BY DEF BalanceInv, ReservedIsHeld, Open
<1> QED BY <1>1, <1>2, <1>3, <1>4 DEF BalanceInv

LEMMA NextIInv ==
  ASSUME IInv, [Next]_vars
  PROVE  IInv'
<1>0. BalanceInv /\ OpenHoldsCredits
  BY DEF IInv
<1>1. OpenHoldsCredits'
  BY <1>0, OpenHoldsCreditsStep DEF BalanceInv
<1>2. ASSUME NEW k \in Keys, ClientStep(k)
      PROVE  BalanceInv'
  <2>1. ASSUME NEW r \in Keys, Release(k, r)
        PROVE  BalanceInv'
    <3>1. held[r] > 0
      BY <1>0, <2>1 DEF Release, CanSettle, OpenHoldsCredits, Open
    <3> QED BY <1>0, <2>1, <3>1, ReleaseBalance
  <2>2. ASSUME NEW b \in Buckets, NEW n \in 1 .. MaxAmount, NEW x \in 1 .. Never,
               NEW src \in Sources, Grant(k, b, n, x, src)
        PROVE  BalanceInv'
    BY <1>0, <2>2, GrantBalance
  <2>3. ASSUME NEW n \in 1 .. MaxAmount,
               Debit(k, n) \/ Reserve(k, n) \/ RejectReserve(k, n)
        PROVE  BalanceInv'
    BY <1>0, <2>3, DebitBalance, ReserveBalance, RejectReserveBalance
  <2>4. ASSUME NEW r \in Keys, NEW n \in 1 .. MaxAmount, Capture(k, r, n)
        PROVE  BalanceInv'
    BY <1>0, <2>4, CaptureBalance
  <2> QED BY <1>2, <2>1, <2>2, <2>3, <2>4 DEF ClientStep
<1>3. ASSUME Tick PROVE BalanceInv'
  <2>1. UNCHANGED <<available, reserved, remaining, status, expiresAt, source,
                    held, resStatus, ledger, reversals, sweep, discovered>>
    BY <1>3 DEF Tick, account, bucketRows, reservationRows
  <2>2. now' \in 0 .. MaxTime
    BY <1>0, <1>3, LedgerAssumption DEF Tick, BalanceInv, TypeOK
  <2> QED BY <1>0, <2>1, <2>2, StutterBalance
<1>4. ASSUME NEW s \in Sweepers, SweepScan(s) \/ SweepBucket(s)
      PROVE  BalanceInv'
  BY <1>0, <1>4, SweepScanBalance, SweepBucketBalance
<1>5. ASSUME NEW c \in Clawbacks, ClawbackDiscover(c) \/ ClawbackApply(c)
      PROVE  BalanceInv'
  BY <1>0, <1>5, ClawbackDiscoverBalance, ClawbackApplyBalance
<1>6. ASSUME UNCHANGED vars PROVE BalanceInv'
  <2>1. now' \in 0 .. MaxTime
    BY <1>0, <1>6 DEF vars, BalanceInv, TypeOK
  <2>2. UNCHANGED <<available, reserved, remaining, status, expiresAt, source,
                    held, resStatus, ledger, reversals, sweep, discovered>>
    BY <1>6 DEF vars
  <2> QED BY <1>0, <2>1, <2>2, StutterBalance
<1>7. BalanceInv'
  BY <1>2, <1>3, <1>4, <1>5, <1>6 DEF Next
<1> QED BY <1>1, <1>7 DEF IInv

THEOREM Invariance == Spec => []IInv
<1>1. Init => IInv
  BY InitIInv
<1>2. IInv /\ [Next]_vars => IInv'
  BY NextIInv
<1> QED BY <1>1, <1>2, PTL DEF Spec

\* Every reachable state of the ledger is well typed: in particular no
\* balance is ever negative.
THEOREM TypeCorrect == Spec => []TypeOK
<1>1. IInv => TypeOK
  BY DEF IInv, BalanceInv
<1> QED BY <1>1, Invariance, PTL

\* The buckets of an account always hold exactly its available and its
\* reserved credits (the invariant buckets.ts:18 states).
THEOREM BucketsAlwaysBack == Spec => []BucketsBackBalance
<1>1. IInv => BucketsBackBalance
  <2> SUFFICES ASSUME IInv PROVE BucketsBackBalance
    OBVIOUS
  <2>1. \A b \in Buckets \ Active : remaining[b] = 0
    BY DEF IInv, BalanceInv, ClosedIsEmpty, Active
  <2>2. Active \in SUBSET Buckets /\ IsFiniteSet(Buckets)
    BY LedgerAssumption DEF Active
  <2>3. Total(remaining, Buckets) = Total(remaining, Active)
    BY <2>1, <2>2, TotalDropZeros
  <2> QED BY <2>3 DEF IInv, BalanceInv, Backing, BucketsBackBalance
<1> QED BY <1>1, Invariance, PTL

\* The reserved balance is always what the open reservations hold.
THEOREM ReservedAlwaysHeld == Spec => []ReservedIsHeld
<1>1. IInv => ReservedIsHeld
  BY DEF IInv, BalanceInv
<1> QED BY <1>1, Invariance, PTL

-------------------------------------------------------------------------------
(* The balances of an account are always the projection of its ledger:     *)
(* every credit ever granted is still available or reserved, or a ledger   *)
(* row says what became of it.                                             *)

Granted == Total(AmountOf, Rows({"grant"}))
Spent == Total(AmountOf, Rows({"debit.usage", "capture.usage"}))

\* The inductive form: the reversal rows stay finitely many, which gives
\* their sum a meaning.
BooksInv == IsFiniteSet(reversals) /\ LedgerExplainsBalance

\* The sums of the books are natural numbers.
LEMMA BooksType ==
  ASSUME IsFiniteSet(reversals)
  PROVE  Granted \in Nat /\ Spent \in Nat /\ Reversed \in Nat
<1>1. \A types : IsFiniteSet(Rows(types))
  BY LedgerAssumption, FS_Subset DEF Rows
<1> QED BY <1>1, TotalType DEF Granted, Spent, Reversed

\* A new row changes the sum over its own kind of rows by its amount, and
\* no other sum.
LEMMA NewRow ==
  ASSUME TypeOK, NEW k \in Keys, ledger[k] = NoEntry, NEW row \in Entry,
         ledger' = [ledger EXCEPT ![k] = row], NEW CONSTANT types
  PROVE  Total(AmountOf, Rows(types))' =
           Total(AmountOf, Rows(types)) + IF row.type \in types THEN row.amount ELSE 0
<1>1. row # NoEntry /\ row.amount \in Amounts
  BY NoEntryAssumption, MaxAmountAssumption DEF Entry, Amounts
<1>2. \A j \in Keys \ {k} : ledger'[j] = ledger[j]
  BY DEF TypeOK
<1>3. ledger'[k] = row
  BY DEF TypeOK
<1>4. AmountOf'[k] = row.amount /\ \A j \in Keys \ {k} : AmountOf'[j] = AmountOf[j]
  BY <1>1, <1>2, <1>3 DEF AmountOf
<1>5. k \notin Rows(types)
  BY DEF Rows
<1>6. Total(AmountOf', Rows(types)) = Total(AmountOf, Rows(types))
  <2>1. \A j \in Rows(types) : AmountOf'[j] = AmountOf[j]
    BY <1>4, <1>5 DEF Rows
  <2> QED BY <2>1, TotalSame
<1>7. Rows(types)' = IF row.type \in types THEN Rows(types) \cup {k} ELSE Rows(types)
  BY <1>1, <1>2, <1>3 DEF Rows
<1>8. IsFiniteSet(Rows(types)) /\ IsFiniteSet({k})
  BY LedgerAssumption, FS_Subset, FS_Singleton DEF Rows
<1>9. Total(AmountOf, Rows(types)) \in Nat
  BY <1>8, TotalType
<1>10. Total(AmountOf, Rows(types))' = Total(AmountOf', Rows(types)')
  BY DEF Total, Units
<1>11. CASE row.type \in types
  <2>1. Total(AmountOf', Rows(types) \cup {k}) =
          Total(AmountOf', Rows(types)) + Total(AmountOf', {k})
    BY <1>5, <1>8, TotalSplit
  <2>2. Total(AmountOf', {k}) = row.amount
    BY <1>1, <1>4, TotalOne
  <2> QED BY <1>6, <1>7, <1>10, <1>11, <2>1, <2>2
<1>12. CASE row.type \notin types
  BY <1>6, <1>7, <1>9, <1>10, <1>12
<1> QED BY <1>11, <1>12

\* The reversal rows of t are new, and their amounts sum to what t takes:
\* each bucket that gives has one row, and no row of its key was there.
LEMMA NewReversals ==
  ASSUME TypeOK, IsFiniteSet(reversals), NEW t \in [Buckets -> Amounts], NEW s,
         KeysFree(ReversalsOf(t, s)),
         reversals' = reversals \cup ReversalsOf(t, s)
  PROVE  IsFiniteSet(reversals') /\ Reversed' = Reversed + Total(t, Buckets)
<1> DEFINE R == ReversalsOf(t, s)
           G == {b \in Buckets : t[b] > 0}
           h == [b \in G |-> [type |-> s, bucket |-> b, before |-> remaining[b],
                              amount |-> t[b]]]
           amounts == [e \in reversals' |-> e.amount]
<1>1. IsFiniteSet(Buckets) /\ IsFiniteSet(G)
  BY LedgerAssumption, FS_Subset
<1>2. h \in Bijection(G, R)
  <2>1. h \in [G -> R]
    BY DEF ReversalsOf
  <2>2. \A a, b \in G : h[a] = h[b] => a = b
    <3>1. TAKE a, b \in G
    <3>2. HAVE h[a] = h[b]
    <3>3. h[a].bucket = a /\ h[b].bucket = b
      OBVIOUS
    <3> QED BY <3>2, <3>3
  <2>3. \A r \in R : \E b \in G : h[b] = r
    BY DEF ReversalsOf
  <2> QED BY <2>1, <2>2, <2>3, Fun_IsBij
<1>3. \A b \in G : amounts[h[b]] = t[b]
  <2>1. TAKE b \in G
  <2>2. h[b] \in reversals' /\ h[b].amount = t[b]
    BY DEF ReversalsOf
  <2> QED BY <2>2
<1>4. R \cap reversals = {}
  BY DEF KeysFree
<1> HIDE DEF R, h, amounts
<1>5. IsFiniteSet(R) /\ Total(amounts, R) = Total(t, G)
  BY <1>1, <1>2, <1>3, TotalImage
<1>6. Total(t, G) = Total(t, Buckets)
  <2>1. \A b \in Buckets \ G : t[b] = 0
    BY MaxAmountAssumption DEF Amounts
  <2> QED BY <1>1, <2>1, TotalDropZeros
<1>7. reversals' = reversals \cup R
  BY DEF R
<1>8. Total(amounts, reversals \cup R) = Total(amounts, reversals) + Total(amounts, R)
  BY <1>4, <1>5, TotalSplit
<1>9. Total(amounts, reversals) = Reversed
  <2>1. \A e \in reversals : amounts[e] = [d \in reversals |-> d.amount][e]
    BY <1>7 DEF amounts
  <2> QED BY <2>1, TotalSame DEF Reversed
<1>10. Reversed' = Total(amounts, reversals')
  BY DEF Reversed, amounts, Total, Units
<1>11. IsFiniteSet(reversals')
  BY <1>5, <1>7, FS_Union
<1> QED BY <1>5, <1>6, <1>7, <1>8, <1>9, <1>10, <1>11

\* The balances of a step in which g credits are granted, p are spent and v
\* reversed.
Moves(g, p, v) == available' + reserved' + p + v = available + reserved + g

\* A balanced sheet stays balanced when both sides move alike.
LEMMA Balanced ==
  ASSUME NEW a \in Nat, NEW b \in Nat, NEW c \in Nat, NEW d \in Nat,
         NEW x \in Nat, NEW y \in Nat, NEW g \in Nat, NEW p \in Nat, NEW v \in Nat,
         x + y + p + v = a + b + g
  PROVE  (a + b + c + d) + g = x + y + (c + v) + (d + p)
OBVIOUS

LEMMA SheetStep ==
  ASSUME TypeOK, TypeOK', BooksInv, IsFiniteSet(reversals'),
         NEW g \in Nat, NEW p \in Nat, NEW v \in Nat, Moves(g, p, v),
         Granted' = Granted + g, Spent' = Spent + p, Reversed' = Reversed + v
  PROVE  BooksInv'
<1>1. /\ Granted \in Nat /\ Spent \in Nat /\ Reversed \in Nat
      /\ available \in Nat /\ reserved \in Nat
      /\ available' \in Nat /\ reserved' \in Nat
  BY BooksType DEF BooksInv, TypeOK
<1>2. Granted = available + reserved + Reversed + Spent
  BY DEF BooksInv, LedgerExplainsBalance, Granted, Spent
<1>3. (available + reserved + Reversed + Spent) + g =
        available' + reserved' + (Reversed + v) + (Spent + p)
  <2> DEFINE B(a, b, c, d, x, y, h, q, w) ==
               x + y + q + w = a + b + h
                 => (a + b + c + d) + h = x + y + (c + w) + (d + q)
  <2>1. \A a, b, c, d, x, y, h, q, w \in Nat : B(a, b, c, d, x, y, h, q, w)
    BY Balanced
  <2> HIDE DEF B
  <2>2. B(available, reserved, Reversed, Spent, available', reserved', g, p, v)
    BY <1>1, <2>1, Zenon
  <2> QED BY <2>2, Zenon DEF Moves, B
<1>4. Granted' = available' + reserved' + Reversed' + Spent'
  BY <1>2, <1>3, Zenon
<1> QED BY <1>4 DEF BooksInv, LedgerExplainsBalance, Granted, Spent

\* What a step that writes row under a new key adds to the two sums of the
\* ledger.
LEMMA BooksRow ==
  ASSUME TypeOK, NEW k \in Keys, ledger[k] = NoEntry, NEW row \in Entry,
         ledger' = [ledger EXCEPT ![k] = row]
  PROVE  /\ Granted' = Granted + IF row.type = "grant" THEN row.amount ELSE 0
         /\ Spent' = Spent + IF row.type \in {"debit.usage", "capture.usage"}
                             THEN row.amount ELSE 0
<1>1. Granted' = Granted + IF row.type \in {"grant"} THEN row.amount ELSE 0
  BY NewRow DEF Granted
<1>2. Spent' = Spent + IF row.type \in {"debit.usage", "capture.usage"}
                       THEN row.amount ELSE 0
  BY NewRow DEF Spent
<1> QED BY <1>1, <1>2

\* A step that leaves the ledger alone leaves its sums alone.
LEMMA SameRows ==
  ASSUME UNCHANGED ledger
  PROVE  Granted' = Granted /\ Spent' = Spent
BY DEF Granted, Spent, Rows, AmountOf, Total, Units

LEMMA SameReversals ==
  ASSUME UNCHANGED reversals
  PROVE  Reversed' = Reversed
BY DEF Reversed, Total, Units

LEMMA StillBooks ==
  ASSUME TypeOK, TypeOK', BooksInv,
         UNCHANGED <<available, reserved, ledger, reversals>>
  PROVE  BooksInv'
<1>1. Granted \in Nat /\ Spent \in Nat /\ Reversed \in Nat
  BY BooksType DEF BooksInv
<1>2. Granted' = Granted + 0 /\ Spent' = Spent + 0 /\ Reversed' = Reversed + 0
  BY <1>1, SameRows, SameReversals
<1>3. Moves(0, 0, 0)
  BY DEF TypeOK, Moves
<1>4. IsFiniteSet(reversals')
  BY DEF BooksInv
<1>5. 0 \in Nat
  OBVIOUS
<1> QED BY <1>2, <1>3, <1>4, <1>5, SheetStep

-------------------------------------------------------------------------------
(* Each operation keeps the books.                                         *)

LEMMA GrantBooks ==
  ASSUME TypeOK, TypeOK', BooksInv, NEW k \in Keys, NEW b \in Buckets,
         NEW n \in 1 .. MaxAmount, NEW x \in 1 .. Never, NEW src \in Sources,
         Grant(k, b, n, x, src)
  PROVE  BooksInv'
<1> DEFINE row == [type |-> "grant", amount |-> n, of |-> b]
<1>1. row \in Entry /\ n \in Nat
  BY MaxAmountAssumption DEF Entry
<1>2. Granted' = Granted + n /\ Spent' = Spent + 0
  BY <1>1, BooksRow DEF Grant, Record
<1>3. Reversed' = Reversed + 0 /\ IsFiniteSet(reversals')
  BY SameReversals, BooksType DEF Grant, BooksInv
<1>4. Moves(n, 0, 0)
  BY <1>1 DEF Grant, TypeOK, Moves
<1> QED BY <1>1, <1>2, <1>3, <1>4, SheetStep

LEMMA DebitBooks ==
  ASSUME TypeOK, TypeOK', BooksInv, NEW k \in Keys, NEW n \in 1 .. MaxAmount,
         Debit(k, n)
  PROVE  BooksInv'
<1> DEFINE row == [type |-> "debit.usage", amount |-> n, of |-> k]
<1>1. row \in Entry /\ n \in Nat
  BY MaxAmountAssumption DEF Entry
<1>2. Granted' = Granted + 0 /\ Spent' = Spent + n
  BY <1>1, BooksRow DEF Debit, Record
<1>3. Reversed' = Reversed + 0 /\ IsFiniteSet(reversals')
  BY SameReversals, BooksType DEF Debit, BooksInv
<1>4. Moves(0, n, 0)
  BY <1>1 DEF Debit, TypeOK, Moves
<1> QED BY <1>1, <1>2, <1>3, <1>4, SheetStep

\* The expiry inside a reservation enters what it takes.
LEMMA ExpireDueBooks ==
  ASSUME TypeOK, BooksInv, NEW n, ExpireDue(n)
  PROVE  IsFiniteSet(reversals') /\ Reversed' = Reversed + n
<1>1. PICK t \in Drains(Due, n) :
        /\ KeysFree(ReversalsOf(t, "grant.expired"))
        /\ reversals' = reversals \cup ReversalsOf(t, "grant.expired")
  BY DEF ExpireDue
<1>2. t \in [Buckets -> Amounts] /\ Total(t, Buckets) = n
  BY DEF Drains
<1> QED BY <1>1, <1>2, NewReversals DEF BooksInv

LEMMA ReserveBooks ==
  ASSUME TypeOK, TypeOK', BooksInv, NEW k \in Keys, NEW n \in 1 .. MaxAmount,
         Reserve(k, n)
  PROVE  BooksInv'
<1> DEFINE row == [type |-> "reserve.usage", amount |-> n, of |-> k]
           lapsed == Reversible(Due)
<1>1. row \in Entry /\ n \in Nat
  BY MaxAmountAssumption DEF Entry
<1>2. Granted' = Granted + 0 /\ Spent' = Spent + 0
  BY <1>1, BooksRow DEF Reserve, Record
<1>3. Reversed' = Reversed + lapsed /\ IsFiniteSet(reversals')
  BY ExpireDueBooks DEF Reserve
<1>4. lapsed \in Nat
  BY ReversibleBound DEF Due, Active
<1>5. available' = available - lapsed - n /\ reserved' = reserved + n
  BY DEF Reserve
<1> HIDE DEF lapsed
<1>6. Moves(0, 0, lapsed)
  BY <1>1, <1>4, <1>5 DEF TypeOK, Moves
<1> QED BY <1>2, <1>3, <1>4, <1>6, SheetStep

LEMMA RejectReserveBooks ==
  ASSUME TypeOK, TypeOK', BooksInv, NEW k \in Keys, NEW n \in 1 .. MaxAmount,
         RejectReserve(k, n)
  PROVE  BooksInv'
<1> DEFINE lapsed == Reversible(Due)
<1>1. Granted \in Nat /\ Spent \in Nat
  BY BooksType DEF BooksInv
<1>2. Granted' = Granted + 0 /\ Spent' = Spent + 0
  BY <1>1, SameRows DEF RejectReserve
<1>3. Reversed' = Reversed + lapsed /\ IsFiniteSet(reversals')
  BY ExpireDueBooks DEF RejectReserve
<1>4. lapsed \in Nat
  BY ReversibleBound DEF Due, Active
<1>5. available' = available - lapsed /\ reserved' = reserved
  BY DEF RejectReserve
<1> HIDE DEF lapsed
<1>6. Moves(0, 0, lapsed)
  BY <1>4, <1>5 DEF TypeOK, Moves
<1> QED BY <1>2, <1>3, <1>4, <1>6, SheetStep

LEMMA CaptureBooks ==
  ASSUME TypeOK, TypeOK', BooksInv, NEW k \in Keys, NEW r \in Keys,
         NEW n \in 1 .. MaxAmount, Capture(k, r, n)
  PROVE  BooksInv'
<1> DEFINE row == [type |-> "capture.usage", amount |-> n, of |-> r]
<1>1. row \in Entry /\ n \in Nat /\ held[r] \in Nat
  BY MaxAmountAssumption DEF Entry, TypeOK, Amounts
<1>2. Granted' = Granted + 0 /\ Spent' = Spent + n
  BY <1>1, BooksRow DEF Capture, Record
<1>3. Reversed' = Reversed + 0 /\ IsFiniteSet(reversals')
  BY SameReversals, BooksType DEF Capture, BooksInv
<1>4. Moves(0, n, 0)
  BY <1>1 DEF Capture, TypeOK, Moves
<1> QED BY <1>1, <1>2, <1>3, <1>4, SheetStep

LEMMA ReleaseBooks ==
  ASSUME TypeOK, TypeOK', BooksInv, NEW k \in Keys, NEW r \in Keys,
         held[r] > 0, Release(k, r)
  PROVE  BooksInv'
<1> DEFINE row == [type |-> "release.usage", amount |-> held[r], of |-> r]
<1>1. row \in Entry /\ held[r] \in Nat
  BY MaxAmountAssumption DEF Entry, TypeOK, Amounts
<1>2. Granted' = Granted + 0 /\ Spent' = Spent + 0
  BY <1>1, BooksRow DEF Release, Record
<1>3. Reversed' = Reversed + 0 /\ IsFiniteSet(reversals')
  BY SameReversals, BooksType DEF Release, BooksInv
<1>4. Moves(0, 0, 0)
  BY <1>1 DEF Release, TypeOK, Moves
<1> QED BY <1>2, <1>3, <1>4, SheetStep

LEMMA SweepBucketBooks ==
  ASSUME TypeOK, TypeOK', BooksInv, NEW s \in Sweepers, SweepBucket(s)
  PROVE  BooksInv'
<1>1. PICK b \in FirstIn(sweep[s]) :
        LET lapsed == Reversible({b} \cap Active)
            t == [c \in Buckets |-> IF c = b THEN lapsed ELSE 0]
            rows == ReversalsOf(t, "grant.expired") IN
        /\ IF KeysFree(rows)
           THEN /\ available' = available - lapsed
                /\ reversals' = reversals \cup rows
           ELSE UNCHANGED <<available, reversals>>
        /\ UNCHANGED <<reserved, ledger>>
  BY DEF SweepBucket
<1> DEFINE lapsed == Reversible({b} \cap Active)
           t == [c \in Buckets |-> IF c = b THEN lapsed ELSE 0]
           rows == ReversalsOf(t, "grant.expired")
<1>2. b \in Buckets
  BY DEF FirstIn, TypeOK
<1>3. CASE ~KeysFree(rows)
  BY <1>1, <1>3, StillBooks
<1>4. CASE KeysFree(rows)
  <2>1. /\ available' = available - lapsed
        /\ reversals' = reversals \cup rows
        /\ reserved' = reserved /\ ledger' = ledger
    BY <1>1, <1>4
  <2>2. lapsed \in Nat /\ t \in [Buckets -> Amounts] /\ Total(t, Buckets) = lapsed
    BY <1>2, SweepTake
  <2> HIDE DEF lapsed, t
  <2>3. Reversed' = Reversed + lapsed /\ IsFiniteSet(reversals')
    BY <1>4, <2>1, <2>2, NewReversals DEF BooksInv
  <2>4. Granted' = Granted + 0 /\ Spent' = Spent + 0
    BY <2>1, SameRows, BooksType DEF BooksInv
  <2>5. Moves(0, 0, lapsed)
    BY <2>1, <2>2 DEF TypeOK, Moves
  <2> QED BY <2>2, <2>3, <2>4, <2>5, SheetStep
<1> QED BY <1>3, <1>4

LEMMA ClawbackApplyBooks ==
  ASSUME TypeOK, TypeOK', BooksInv, NEW c \in Clawbacks, ClawbackApply(c)
  PROVE  BooksInv'
<1> DEFINE locked == {b \in discovered[c] \cap Active : remaining[b] > 0}
           revoked == Reversible(locked)
<1>1. revoked \in Nat
  BY ReversibleBound DEF Active
<1>2. PICK t \in Drains(locked, revoked) :
        /\ KeysFree(ReversalsOf(t, "grant.revoked"))
        /\ reversals' = reversals \cup ReversalsOf(t, "grant.revoked")
  BY DEF ClawbackApply
<1>3. available' = available - revoked /\ UNCHANGED <<reserved, ledger>>
  BY DEF ClawbackApply
<1> HIDE DEF locked, revoked
<1>4. t \in [Buckets -> Amounts] /\ Total(t, Buckets) = revoked
  BY DEF Drains
<1>5. Reversed' = Reversed + revoked /\ IsFiniteSet(reversals')
  BY <1>2, <1>4, NewReversals DEF BooksInv
<1>6. Granted' = Granted + 0 /\ Spent' = Spent + 0
  BY <1>3, SameRows, BooksType DEF BooksInv
<1>7. Moves(0, 0, revoked)
  BY <1>1, <1>3 DEF TypeOK, Moves
<1> QED BY <1>1, <1>5, <1>6, <1>7, SheetStep

-------------------------------------------------------------------------------

LEMMA BooksStep ==
  ASSUME IInv, TypeOK', BooksInv, [Next]_vars
  PROVE  BooksInv'
<1>0. TypeOK /\ OpenHoldsCredits
  BY DEF IInv, BalanceInv
<1>1. ASSUME NEW k \in Keys, ClientStep(k)
      PROVE  BooksInv'
  <2>1. ASSUME NEW b \in Buckets, NEW n \in 1 .. MaxAmount, NEW x \in 1 .. Never,
               NEW src \in Sources, Grant(k, b, n, x, src)
        PROVE  BooksInv'
    BY <1>0, <2>1, GrantBooks
  <2>2. ASSUME NEW n \in 1 .. MaxAmount,
               Debit(k, n) \/ Reserve(k, n) \/ RejectReserve(k, n)
        PROVE  BooksInv'
    BY <1>0, <2>2, DebitBooks, ReserveBooks, RejectReserveBooks
  <2>3. ASSUME NEW r \in Keys, Release(k, r)
        PROVE  BooksInv'
    <3>1. held[r] > 0
      BY <1>0, <2>3 DEF Release, CanSettle, OpenHoldsCredits, Open
    <3> QED BY <1>0, <2>3, <3>1, ReleaseBooks
  <2>4. ASSUME NEW r \in Keys, NEW n \in 1 .. MaxAmount, Capture(k, r, n)
        PROVE  BooksInv'
    BY <1>0, <2>4, CaptureBooks
  <2> QED BY <1>1, <2>1, <2>2, <2>3, <2>4 DEF ClientStep
<1>2. ASSUME NEW s \in Sweepers, SweepScan(s) \/ SweepBucket(s)
      PROVE  BooksInv'
  <2>1. CASE SweepScan(s)
    BY <1>0, <2>1, StillBooks DEF SweepScan, account
  <2> QED BY <1>0, <1>2, <2>1, SweepBucketBooks
<1>3. ASSUME NEW c \in Clawbacks, ClawbackDiscover(c) \/ ClawbackApply(c)
      PROVE  BooksInv'
  <2>1. CASE ClawbackDiscover(c)
    BY <1>0, <2>1, StillBooks DEF ClawbackDiscover, account
  <2> QED BY <1>0, <1>3, <2>1, ClawbackApplyBooks
<1>4. ASSUME Tick \/ UNCHANGED vars
      PROVE  BooksInv'
  BY <1>0, <1>4, StillBooks DEF Tick, vars, account
<1> QED BY <1>1, <1>2, <1>3, <1>4 DEF Next

\* The balances are always the projection of the ledger: no sequence of
\* grants, debits, reservations, settlements, expiry stages and clawbacks
\* makes or loses a credit that the ledger does not show.
THEOREM LedgerAlwaysExplains == Spec => []LedgerExplainsBalance
<1>1. Init => BooksInv
  <2> SUFFICES ASSUME Init PROVE BooksInv
    OBVIOUS
  <2>1. IsFiniteSet(reversals)
    BY FS_EmptySet DEF Init
  <2>2. \A types : Rows(types) = {}
    BY DEF Init, Rows
  <2>3. Granted = 0 /\ Spent = 0
    BY <2>2, TotalZero DEF Granted, Spent
  <2>4. Reversed = 0
    BY TotalZero DEF Init, Reversed
  <2> QED BY <2>1, <2>3, <2>4
          DEF Init, BooksInv, LedgerExplainsBalance, Granted, Spent
<1>2. IInv /\ TypeOK' /\ BooksInv /\ [Next]_vars => BooksInv'
  BY BooksStep
<1>3. BooksInv => LedgerExplainsBalance
  BY DEF BooksInv
<1> QED BY <1>1, <1>2, <1>3, Invariance, TypeCorrect, PTL DEF Spec
===============================================================================
