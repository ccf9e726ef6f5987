----------------------------- MODULE TotalsProofs -----------------------------
(* Facts about Total: how a sum splits, shrinks and grows.                 *)
EXTENDS Totals, FiniteSetTheorems, FunctionTheorems, TLAPS

\* A sum over a finite set is a natural number.
LEMMA TotalType ==
  ASSUME NEW S, IsFiniteSet(S), NEW f
  PROVE  IsFiniteSet(Units(f, S)) /\ Total(f, S) \in Nat
<1>1. IsFiniteSet(1 .. MaxAmount)
  BY FS_Interval, MaxAmountAssumption
<1>2. IsFiniteSet(S \X (1 .. MaxAmount))
  BY <1>1, FS_Product
<1>3. Units(f, S) \in SUBSET (S \X (1 .. MaxAmount))
  BY DEF Units
<1>4. IsFiniteSet(Units(f, S))
  BY <1>2, <1>3, FS_Subset
<1> QED BY <1>4, FS_CardinalityType DEF Total

\* Functions that agree on S have the same sum over S.
LEMMA TotalSame ==
  ASSUME NEW S, NEW f, NEW g, \A x \in S : f[x] = g[x]
  PROVE  Total(f, S) = Total(g, S)
<1>1. Units(f, S) = Units(g, S)
  BY DEF Units
<1> QED BY <1>1 DEF Total

\* The sum over a disjoint union is the sum of the sums.
LEMMA TotalSplit ==
  ASSUME NEW S, IsFiniteSet(S), NEW T, IsFiniteSet(T), S \cap T = {}, NEW f
  PROVE  Total(f, S \cup T) = Total(f, S) + Total(f, T)
<1>1. Units(f, S \cup T) = Units(f, S) \cup Units(f, T)
  BY DEF Units
<1>2. Units(f, S) \cap Units(f, T) = {}
  BY DEF Units
<1>3. IsFiniteSet(Units(f, S)) /\ IsFiniteSet(Units(f, T))
  BY TotalType
<1>4. Cardinality(Units(f, S \cup T)) =
        Cardinality(Units(f, S)) + Cardinality(Units(f, T)) - Cardinality({})
  BY <1>1, <1>2, <1>3, FS_Union
<1>5. Total(f, S) \in Nat /\ Total(f, T) \in Nat
  BY TotalType
<1> QED BY <1>4, <1>5, FS_EmptySet DEF Total

\* The sum over one element is its amount.
LEMMA TotalOne ==
  ASSUME NEW x, NEW f, f[x] \in Amounts
  PROVE  Total(f, {x}) = f[x]
<1> DEFINE n == f[x]
           h == [k \in 1 .. n |-> <<x, k>>]
<1>1. n \in Nat /\ n <= MaxAmount
  BY MaxAmountAssumption DEF Amounts
<1>2. h \in Bijection(1 .. n, Units(f, {x}))
  <2>1. h \in [1 .. n -> Units(f, {x})]
    BY <1>1, MaxAmountAssumption DEF Units
  <2>2. \A a, b \in 1 .. n : h[a] = h[b] => a = b
    OBVIOUS
  <2>3. \A u \in Units(f, {x}) : \E k \in 1 .. n : h[k] = u
    <3>1. TAKE u \in Units(f, {x})
    <3>2. PICK k \in 1 .. MaxAmount : u = <<x, k>> /\ k <= n
      BY DEF Units
    <3>3. k \in 1 .. n /\ h[k] = u
      BY <3>2, <1>1
    <3> QED BY <3>3
  <2> QED BY <2>1, <2>2, <2>3, Fun_IsBij
<1>3. IsFiniteSet(1 .. n) /\ Cardinality(1 .. n) = n
  BY <1>1, FS_Interval
<1>4. ExistsBijection(1 .. n, Units(f, {x}))
  BY <1>2 DEF ExistsBijection
<1> HIDE DEF n
<1>5. Cardinality(Units(f, {x})) = n
  BY <1>3, <1>4, FS_Bijection
<1> QED BY <1>5 DEF Total, n

\* A sum of zeros is zero.
LEMMA TotalZero ==
  ASSUME NEW S, NEW f, \A x \in S : f[x] = 0
  PROVE  Total(f, S) = 0
<1>1. Units(f, S) = {}
  BY DEF Units
<1> QED BY <1>1, FS_EmptySet DEF Total

\* Taking t from f pointwise takes the sum of t from the sum of f.
LEMMA TotalMinus ==
  ASSUME NEW S, IsFiniteSet(S), NEW f, NEW t, NEW g,
         \A x \in S : f[x] \in Amounts /\ t[x] \in Amounts /\ t[x] <= f[x],
         \A x \in S : g[x] = f[x] - t[x]
  PROVE  Total(f, S) = Total(g, S) + Total(t, S)
<1> DEFINE D == {u \in Units(f, S) : u[2] > g[u[1]]}
           h == [u \in Units(t, S) |-> <<u[1], u[2] + g[u[1]]>>]
<1>0. \A x \in S : /\ f[x] \in 0 .. MaxAmount /\ t[x] \in 0 .. MaxAmount
                   /\ t[x] <= f[x] /\ g[x] = f[x] - t[x] /\ g[x] \in Nat
  BY MaxAmountAssumption DEF Amounts
<1>1. Units(f, S) = Units(g, S) \cup D
  <2>1. Units(g, S) \subseteq Units(f, S)
    BY <1>0, MaxAmountAssumption DEF Units
  <2>2. \A u \in Units(f, S) : u \in Units(g, S) \/ u \in D
    BY <1>0, MaxAmountAssumption DEF Units
  <2> QED BY <2>1, <2>2
<1>2. Units(g, S) \cap D = {}
  BY <1>0, MaxAmountAssumption DEF Units
<1>3. h \in Bijection(Units(t, S), D)
  <2>1. h \in [Units(t, S) -> D]
    <3>1. ASSUME NEW u \in Units(t, S)
          PROVE  <<u[1], u[2] + g[u[1]]>> \in D
      <4>1. u[1] \in S /\ u[2] \in 1 .. MaxAmount /\ u[2] <= t[u[1]]
        BY DEF Units
      <4> QED BY <4>1, <1>0, MaxAmountAssumption DEF Units
    <3> QED BY <3>1
  <2>2. \A u, v \in Units(t, S) : h[u] = h[v] => u = v
    <3>1. TAKE u, v \in Units(t, S)
    <3>2. HAVE h[u] = h[v]
    <3>3. /\ u[1] = v[1]
          /\ u[2] + g[u[1]] = v[2] + g[v[1]]
      BY <3>2
    <3>4. /\ u = <<u[1], u[2]>> /\ v = <<v[1], v[2]>>
          /\ u[1] \in S /\ v[1] \in S
          /\ u[2] \in 1 .. MaxAmount /\ v[2] \in 1 .. MaxAmount
      BY DEF Units
    <3>5. u[2] = v[2]
      BY <3>3, <3>4, <1>0, MaxAmountAssumption
    <3> QED BY <3>3, <3>4, <3>5
  <2>3. \A d \in D : \E u \in Units(t, S) : h[u] = d
    <3>1. TAKE d \in D
    <3>2. /\ d = <<d[1], d[2]>> /\ d[1] \in S /\ d[2] \in 1 .. MaxAmount
          /\ d[2] <= f[d[1]] /\ d[2] > g[d[1]]
      BY DEF Units
    <3> DEFINE u == <<d[1], d[2] - g[d[1]]>>
    <3>3. u \in Units(t, S)
      BY <3>2, <1>0, MaxAmountAssumption DEF Units
    <3>4. d[2] - g[d[1]] + g[d[1]] = d[2]
      BY <3>2, <1>0, MaxAmountAssumption
    <3>5. h[u] = d
      BY <3>2, <3>3, <3>4
    <3> QED BY <3>3, <3>5
  <2> QED BY <2>1, <2>2, <2>3, Fun_IsBij
<1>4. IsFiniteSet(Units(t, S)) /\ IsFiniteSet(Units(g, S))
  BY TotalType
<1>5. IsFiniteSet(D) /\ Cardinality(D) = Cardinality(Units(t, S))
  <2>1. ExistsBijection(Units(t, S), D)
    BY <1>3 DEF ExistsBijection
  <2> HIDE DEF D
  <2> QED BY <1>4, <2>1, FS_Bijection
<1>6. Cardinality(Units(g, S) \cup D) =
        Cardinality(Units(g, S)) + Cardinality(D) - Cardinality({})
  <2> HIDE DEF D
  <2> QED BY <1>2, <1>4, <1>5, FS_Union
<1>7. Total(g, S) \in Nat /\ Total(t, S) \in Nat
  BY TotalType
<1> HIDE DEF D
<1>8. Total(f, S) = Total(g, S) + Total(t, S) - 0
  BY <1>1, <1>5, <1>6, FS_EmptySet DEF Total
<1> QED BY <1>7, <1>8

\* Changing f at one element of S changes the sum by the difference there.
LEMMA TotalChangeOne ==
  ASSUME NEW S, IsFiniteSet(S), NEW a \in S, NEW f, NEW g,
         f[a] \in Amounts, g[a] \in Amounts,
         \A x \in S \ {a} : g[x] = f[x]
  PROVE  Total(g, S) + f[a] = Total(f, S) + g[a]
<1> DEFINE R == S \ {a}
<1>1. /\ IsFiniteSet(R)
      /\ IsFiniteSet({a})
      /\ R \cap {a} = {}
      /\ S = R \cup {a}
  <2>1. IsFiniteSet(R)
    BY FS_RemoveElement
  <2>2. IsFiniteSet({a})
    BY FS_Singleton
  <2> QED BY <2>1, <2>2
<1>2. Total(f, S) = Total(f, R) + f[a]
  BY <1>1, TotalSplit, TotalOne
<1>3. Total(g, S) = Total(g, R) + g[a]
  BY <1>1, TotalSplit, TotalOne
<1>4. Total(f, R) = Total(g, R)
  BY TotalSame
<1>5. Total(f, R) \in Nat
  BY <1>1, TotalType
<1>6. f[a] \in Int /\ g[a] \in Int
  BY MaxAmountAssumption DEF Amounts
<1> QED BY <1>2, <1>3, <1>4, <1>5, <1>6

\* Elements that hold nothing may be left out of a sum.
LEMMA TotalDropZeros ==
  ASSUME NEW S, IsFiniteSet(S), NEW T \in SUBSET S, NEW f,
         \A x \in S \ T : f[x] = 0
  PROVE  Total(f, S) = Total(f, T)
<1>1. Units(f, S) = Units(f, T)
  BY DEF Units
<1> QED BY <1>1 DEF Total

\* A sum over more elements is no smaller.
LEMMA TotalSubset ==
  ASSUME NEW S, IsFiniteSet(S), NEW T \in SUBSET S, NEW f
  PROVE  Total(f, T) <= Total(f, S)
<1>1. Units(f, T) \in SUBSET Units(f, S)
  BY DEF Units
<1>2. IsFiniteSet(Units(f, S))
  BY TotalType
<1> QED BY <1>1, <1>2, FS_Subset DEF Total

\* A sum is at least each of its amounts.
LEMMA TotalAtLeast ==
  ASSUME NEW S, IsFiniteSet(S), NEW a \in S, NEW f, f[a] \in Amounts
  PROVE  f[a] <= Total(f, S)
<1>1. Total(f, {a}) = f[a]
  BY TotalOne
<1> QED BY <1>1, TotalSubset

\* A sum may be taken over the images of the elements: when h matches S with
\* T one to one and g holds of an image what f holds of the element, the sums
\* are the same.
LEMMA TotalImage ==
  ASSUME NEW S, IsFiniteSet(S), NEW T, NEW h \in Bijection(S, T), NEW f, NEW g,
         \A x \in S : g[h[x]] = f[x]
  PROVE  IsFiniteSet(T) /\ Total(g, T) = Total(f, S)
<1>0. /\ h \in [S -> T]
      /\ \A a, b \in S : h[a] = h[b] => a = b
      /\ \A y \in T : \E x \in S : h[x] = y
  BY Fun_BijectionProperties
<1>1. IsFiniteSet(T)
  BY FS_Bijection DEF ExistsBijection
<1> DEFINE m == [u \in Units(f, S) |-> <<h[u[1]], u[2]>>]
<1>2. m \in Bijection(Units(f, S), Units(g, T))
  <2>1. m \in [Units(f, S) -> Units(g, T)]
    <3>1. ASSUME NEW u \in Units(f, S)
          PROVE  <<h[u[1]], u[2]>> \in Units(g, T)
      <4>1. u[1] \in S /\ u[2] \in 1 .. MaxAmount /\ u[2] <= f[u[1]]
        BY DEF Units
      <4>2. h[u[1]] \in T /\ g[h[u[1]]] = f[u[1]]
        BY <1>0, <4>1
      <4> QED BY <4>1, <4>2 DEF Units
    <3> QED BY <3>1
  <2>2. \A u, v \in Units(f, S) : m[u] = m[v] => u = v
    <3>1. TAKE u, v \in Units(f, S)
    <3>2. HAVE m[u] = m[v]
    <3>3. h[u[1]] = h[v[1]] /\ u[2] = v[2]
      BY <3>2
    <3>4. /\ u = <<u[1], u[2]>> /\ v = <<v[1], v[2]>>
          /\ u[1] \in S /\ v[1] \in S
      BY DEF Units
    <3>5. u[1] = v[1]
      BY <1>0, <3>3, <3>4
    <3> QED BY <3>3, <3>4, <3>5
  <2>3. \A w \in Units(g, T) : \E u \in Units(f, S) : m[u] = w
    <3>1. TAKE w \in Units(g, T)
    <3>2. /\ w = <<w[1], w[2]>> /\ w[1] \in T
          /\ w[2] \in 1 .. MaxAmount /\ w[2] <= g[w[1]]
      BY DEF Units
    <3>3. PICK x \in S : h[x] = w[1]
      BY <1>0, <3>2
    <3>4. <<x, w[2]>> \in Units(f, S)
      BY <3>2, <3>3 DEF Units
    <3>5. m[<<x, w[2]>>] = w
      BY <3>2, <3>3, <3>4
    <3> QED BY <3>4, <3>5
  <2> QED BY <2>1, <2>2, <2>3, Fun_IsBij
<1> HIDE DEF m
<1>3. Cardinality(Units(g, T)) = Cardinality(Units(f, S))
  <2>1. IsFiniteSet(Units(f, S))
    BY TotalType
  <2> QED BY <1>2, <2>1, FS_Bijection DEF ExistsBijection
<1> QED BY <1>1, <1>3 DEF Total
===============================================================================
