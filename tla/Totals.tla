-------------------------------- MODULE Totals --------------------------------
(***************************************************************************)
(* Sums of natural amounts over finite sets, written as the number of the  *)
(* credit units they stand for: an amount n held under x is the n units    *)
(* <<x, 1>>, ..., <<x, n>>.  Counting units instead of folding + keeps     *)
(* every sum first-order, so the facts about them need no induction.       *)
(***************************************************************************)
EXTENDS Integers, FiniteSets

\* No single amount exceeds MaxAmount.
CONSTANT MaxAmount

ASSUME MaxAmountAssumption == MaxAmount \in Nat \ {0}

Amounts == 0 .. MaxAmount

Units(f, S) == {u \in S \X (1 .. MaxAmount) : u[2] <= f[u[1]]}

\* The sum of f[x] over the x in S.
Total(f, S) == Cardinality(Units(f, S))

Least(m, n) == IF m <= n THEN m ELSE n
===============================================================================
