-------------------------- MODULE BenchmarkProofs ---------------------------
(***************************************************************************)
(* Proofs of Benchmark's invariants, for any rows, iterations and times.   *)
(***************************************************************************)
EXTENDS Benchmark, TLAPS, FiniteSetTheorems, NaturalsInduction, WellFoundedInduction

-----------------------------------------------------------------------------
(* Sorting.                                                                *)

\* A nonempty set of naturals has a smallest element.
LEMMA Smallest ==
  ASSUME NEW S \in SUBSET Nat, S # {}
  PROVE  \E i \in S : \A j \in S : i <= j
<1>1. IsWellFoundedOn(OpToRel(<, Nat), Nat)
  BY NatLessThanWellFounded
<1>2. PICK i \in S : \A j \in S : ~ (<<j, i>> \in OpToRel(<, Nat))
  BY <1>1, WFMin
<1>3. ASSUME NEW j \in S
      PROVE  i <= j
  <2>1. ~ (<<j, i>> \in OpToRel(<, Nat))
    BY <1>2
  <2>2. <<j, i>> \in Nat \X Nat
    OBVIOUS
  <2>3. ~ (j < i)
    BY <2>1, <2>2 DEF OpToRel
  <2>4. QED
    BY <2>3
<1>4. QED
  BY <1>3

\* p puts the values of xs, of which there are len, in ascending order.
Sorts(p, xs, len) ==
  /\ p \in Bijection(1..len, 1..len)
  /\ \A i, j \in 1..len : i < j => xs[p[i]] <= xs[p[j]]

\* The least of len + 1 values comes first; an order of the others, which are
\* numbered without it, then orders them all.
LEMMA LeastFirst ==
  ASSUME NEW len \in Nat, NEW xs \in [1..(len + 1) -> Nat], NEW m \in 1..(len + 1),
         \A i \in 1..(len + 1) : xs[m] <= xs[i],
         NEW q, Sorts(q, [i \in 1..len |-> IF i < m THEN xs[i] ELSE xs[i + 1]], len)
  PROVE  \E p : Sorts(p, xs, len + 1)
<1> DEFINE skip == [i \in 1..len |-> IF i < m THEN i ELSE i + 1]
           ys == [i \in 1..len |-> IF i < m THEN xs[i] ELSE xs[i + 1]]
           p == [i \in 1..(len + 1) |-> IF i = 1 THEN m ELSE skip[q[i - 1]]]
<1>1. q \in [1..len -> 1..len] /\ \A i, j \in 1..len : q[i] = q[j] => i = j
  BY DEF Sorts, Bijection, Injection, IsInjective
<1>2. \A k \in 1..len : \E i \in 1..len : q[i] = k
  BY DEF Sorts, Bijection, Surjection
<1>3. \A i, j \in 1..len : i < j => ys[q[i]] <= ys[q[j]]
  BY DEF Sorts
<1>4. ASSUME NEW i \in 1..len
      PROVE  skip[i] \in 1..(len + 1) /\ skip[i] # m /\ ys[i] = xs[skip[i]]
  <2>1. CASE i < m
    <3>1. skip[i] = i /\ ys[i] = xs[i]
      BY <2>1
    <3> HIDE DEF skip, ys
    <3>2. QED
      BY <2>1, <3>1
  <2>2. CASE ~ (i < m)
    <3>1. skip[i] = i + 1 /\ ys[i] = xs[i + 1]
      BY <2>2
    <3> HIDE DEF skip, ys
    <3>2. QED
      BY <2>2, <3>1
  <2>3. QED
    BY <2>1, <2>2
<1>5. ASSUME NEW i \in 1..len, NEW j \in 1..len, skip[i] = skip[j]
      PROVE  i = j
  <2>1. /\ i < m => skip[i] = i
        /\ ~ (i < m) => skip[i] = i + 1
        /\ j < m => skip[j] = j
        /\ ~ (j < m) => skip[j] = j + 1
    OBVIOUS
  <2> HIDE DEF skip
  <2>2. CASE i < m
    <3>1. CASE j < m
      BY <1>5, <2>1, <2>2, <3>1
    <3>2. CASE ~ (j < m)
      BY <1>5, <2>1, <2>2, <3>2
    <3>3. QED
      BY <3>1, <3>2
  <2>3. CASE ~ (i < m)
    <3>1. CASE j < m
      BY <1>5, <2>1, <2>3, <3>1
    <3>2. CASE ~ (j < m)
      BY <1>5, <2>1, <2>3, <3>2
    <3>3. QED
      BY <3>1, <3>2
  <2>4. QED
    BY <2>2, <2>3
<1>6. ASSUME NEW k \in 1..(len + 1), k # m
      PROVE  \E i \in 1..len : k = skip[i]
  <2>1. CASE k < m
    <3>1. k \in 1..len /\ k = skip[k]
      BY <2>1
    <3>2. QED
      BY <3>1
  <2>2. CASE k > m
    <3>1. k - 1 \in 1..len /\ k = skip[k - 1]
      BY <2>2
    <3>2. QED
      BY <3>1
  <2>3. QED
    BY <1>6, <2>1, <2>2
<1>7. /\ p[1] = m
      /\ \A i \in 2..(len + 1) : p[i] = skip[q[i - 1]]
  OBVIOUS
<1>8. p = [i \in 1..(len + 1) |-> p[i]]
  OBVIOUS
<1> HIDE DEF skip, ys, p
<1>9. ASSUME NEW i \in 2..(len + 1)
      PROVE  /\ i - 1 \in 1..len /\ q[i - 1] \in 1..len
             /\ p[i] = skip[q[i - 1]] /\ p[i] \in 1..(len + 1) /\ p[i] # m
             /\ xs[p[i]] = ys[q[i - 1]]
  <2>1. i - 1 \in 1..len
    OBVIOUS
  <2>2. q[i - 1] \in 1..len
    BY <1>1, <2>1
  <2>3. QED
    BY <1>4, <1>7, <2>1, <2>2
<1>10. p \in [1..(len + 1) -> 1..(len + 1)]
  <2>1. ASSUME NEW i \in 1..(len + 1)
        PROVE  p[i] \in 1..(len + 1)
    <3>1. CASE i = 1
      BY <1>7, <3>1
    <3>2. CASE i # 1
      <4>1. i \in 2..(len + 1)
        BY <3>2
      <4>2. QED
        BY <1>9, <4>1
    <3>3. QED
      BY <3>1, <3>2
  <2>2. QED
    BY <1>8, <2>1
<1>11. ASSUME NEW i \in 1..(len + 1), NEW j \in 1..(len + 1), p[i] = p[j]
       PROVE  i = j
  <2>1. \A k \in 1..(len + 1) : k # 1 => k \in 2..(len + 1)
    OBVIOUS
  <2>2. CASE i = 1 \/ j = 1
    BY <1>7, <1>9, <1>11, <2>1, <2>2
  <2>3. CASE i # 1 /\ j # 1
    <3>1. i \in 2..(len + 1) /\ j \in 2..(len + 1)
      BY <2>1, <2>3
    <3>2. skip[q[i - 1]] = skip[q[j - 1]]
      BY <1>9, <1>11, <3>1
    <3>3. q[i - 1] \in 1..len /\ q[j - 1] \in 1..len /\ i - 1 \in 1..len /\ j - 1 \in 1..len
      BY <1>9, <3>1
    <3>4. q[i - 1] = q[j - 1]
      BY <1>5, <3>2, <3>3
    <3>5. i - 1 = j - 1
      BY <1>1, <3>3, <3>4
    <3>6. QED
      BY <3>5
  <2>4. QED
    BY <2>2, <2>3
<1>12. ASSUME NEW k \in 1..(len + 1)
       PROVE  \E i \in 1..(len + 1) : p[i] = k
  <2>1. CASE k = m
    BY <1>7, <2>1
  <2>2. CASE k # m
    <3>1. PICK h \in 1..len : k = skip[h]
      BY <1>6, <2>2
    <3>2. PICK i \in 1..len : q[i] = h
      BY <1>2
    <3>3. i + 1 \in 2..(len + 1) /\ (i + 1) - 1 = i
      OBVIOUS
    <3>4. p[i + 1] = k /\ i + 1 \in 1..(len + 1)
      BY <1>7, <3>1, <3>2, <3>3
    <3>5. QED
      BY <3>4
  <2>3. QED
    BY <2>1, <2>2
<1>13. ASSUME NEW i \in 1..(len + 1), NEW j \in 1..(len + 1), i < j
       PROVE  xs[p[i]] <= xs[p[j]]
  <2>1. j \in 2..(len + 1)
    BY <1>13
  <2>2. CASE i = 1
    BY <1>7, <1>9, <2>1, <2>2
  <2>3. CASE i # 1
    <3>1. i \in 2..(len + 1) /\ i - 1 < j - 1
      BY <1>13, <2>3
    <3>2. i - 1 \in 1..len /\ j - 1 \in 1..len
      BY <1>9, <2>1, <3>1
    <3>3. ys[q[i - 1]] <= ys[q[j - 1]]
      BY <1>3, <3>1, <3>2
    <3>4. xs[p[i]] = ys[q[i - 1]] /\ xs[p[j]] = ys[q[j - 1]]
      BY <1>9, <2>1, <3>1
    <3>5. QED
      BY <3>3, <3>4
  <2>4. QED
    BY <2>2, <2>3
<1>14. p \in Bijection(1..(len + 1), 1..(len + 1))
  BY <1>10, <1>11, <1>12 DEF Bijection, Injection, Surjection, IsInjective
<1>15. QED
  BY <1>13, <1>14 DEF Sorts

\* Any values can be put in ascending order: there is no least number of
\* values that cannot.
LEMMA CanBeSorted ==
  ASSUME NEW len \in Nat, NEW xs \in [1..len -> Nat]
  PROVE  \E p : Sorts(p, xs, len)
<1> DEFINE Bad == {k \in Nat : \E ys \in [1..k -> Nat] : \A p : ~ Sorts(p, ys, k)}
<1> SUFFICES ASSUME Bad # {}
             PROVE  FALSE
  OBVIOUS
<1>1. PICK k \in Bad : \A j \in Bad : k <= j
  BY Smallest
<1>2. PICK ys \in [1..k -> Nat] : \A p : ~ Sorts(p, ys, k)
  OBVIOUS
<1>3. CASE k = 0
  <2>1. Sorts([i \in 1..0 |-> i], ys, 0)
    BY DEF Sorts, Bijection, Injection, Surjection, IsInjective
  <2>2. QED
    BY <1>2, <1>3, <2>1
<1>4. CASE k # 0
  <2> DEFINE h == k - 1
             values == {ys[i] : i \in 1..k}
  <2>1. h \in Nat /\ k = h + 1 /\ h \notin Bad
    <3>1. k \in Nat
      OBVIOUS
    <3> HIDE DEF Bad
    <3>2. QED
      BY <1>1, <1>4, <3>1
  <2>2. values \in SUBSET Nat /\ values # {}
    <3>1. 1 \in 1..k
      BY <1>4
    <3>2. QED
      BY <3>1
  <2>3. PICK v \in values : \A w \in values : v <= w
    BY <2>2, Smallest
  <2>4. PICK m \in 1..k : v = ys[m]
    BY <2>3
  <2>5. \A i \in 1..k : ys[m] <= ys[i]
    BY <2>3, <2>4
  <2> DEFINE zs == [i \in 1..h |-> IF i < m THEN ys[i] ELSE ys[i + 1]]
  <2>6. zs \in [1..h -> Nat]
    <3>1. ASSUME NEW i \in 1..h
          PROVE  (IF i < m THEN ys[i] ELSE ys[i + 1]) \in Nat
      <4>1. i \in 1..k /\ i + 1 \in 1..k
        BY <2>1
      <4>2. QED
        BY <4>1
    <3>2. QED
      BY <3>1
  <2>7. PICK q : Sorts(q, zs, h)
    BY <2>1, <2>6
  <2>8. \E p : Sorts(p, ys, h + 1)
    BY <2>1, <2>4, <2>5, <2>7, LeastFirst
  <2>9. QED
    BY <1>2, <2>1, <2>8
<1>5. QED
  BY <1>3, <1>4

\* The sorted samples are the samples in ascending order.
LEMMA SortedIs ==
  ASSUME NEW len \in Nat, NEW xs \in [1..len -> Nat]
  PROVE  \E p : Sorts(p, xs, len) /\ Sorted(xs) = [i \in 1..len |-> xs[p[i]]]
<1> DEFINE P(p) == \A i, j \in 1..len : i < j => xs[p[i]] <= xs[p[j]]
           order == CHOOSE p \in Bijection(1..len, 1..len) : P(p)
<1>1. DOMAIN xs = 1..len
  OBVIOUS
<1>2. \E p \in Bijection(1..len, 1..len) : P(p)
  BY CanBeSorted DEF Sorts
<1>3. order \in Bijection(1..len, 1..len) /\ P(order)
  BY <1>2
<1>4. Sorted(xs) = [i \in 1..len |-> xs[order[i]]]
  BY <1>1 DEF Sorted
<1> HIDE DEF order
<1>5. Sorts(order, xs, len)
  BY <1>3 DEF Sorts
<1>6. QED
  BY <1>4, <1>5

-----------------------------------------------------------------------------
(* The median.                                                             *)

\* A set that has the places a..b of an order has that many members.
LEMMA Counted ==
  ASSUME NEW len \in Nat, NEW p \in Bijection(1..len, 1..len),
         NEW a \in 1..(len + 1), NEW b \in 0..len, a <= b + 1,
         NEW S \in SUBSET (1..len), \A i \in a..b : p[i] \in S
  PROVE  Cardinality(S) \in Nat /\ Cardinality(S) >= b - a + 1
<1> DEFINE f == [i \in a..b |-> p[i]]
<1>1. IsFiniteSet(S)
  <2>1. IsFiniteSet(1..len)
    BY FS_Interval
  <2>2. QED
    BY <2>1, FS_Subset
<1>2. f \in Injection(a..b, S)
  <2>1. \A i \in a..b : i \in 1..len
    OBVIOUS
  <2>2. \A i, j \in 1..len : p[i] = p[j] => i = j
    BY DEF Bijection, Injection, IsInjective
  <2>3. QED
    BY <2>1, <2>2 DEF Injection, IsInjective
<1>3. Cardinality(a..b) <= Cardinality(S)
  BY <1>1, <1>2, FS_Injection
<1>4. Cardinality(a..b) = b - a + 1
  <2>1. a \in Int /\ b \in Int /\ (a > b => b - a + 1 = 0)
    OBVIOUS
  <2>2. Cardinality(a..b) = IF a > b THEN 0 ELSE b - a + 1
    BY <2>1, FS_Interval
  <2>3. QED
    BY <2>1, <2>2
<1>5. Cardinality(S) \in Nat
  BY <1>1, FS_CardinalityType
<1>6. QED
  BY <1>3, <1>4, <1>5

\* A number is odd or even.
LEMMA Halves ==
  ASSUME NEW a \in Nat
  PROVE  /\ a \div 2 \in Nat
         /\ a % 2 = 1 => a = 2 * (a \div 2) + 1
         /\ a % 2 # 1 => a = 2 * (a \div 2)
OBVIOUS

\* The median is a duration with half of the samples on either side.
LEMMA MedianIs ==
  ASSUME NEW xs \in Seq(Nat)
  PROVE  /\ Median(xs) \in Nat
         /\ 2 * Cardinality({i \in DOMAIN xs : xs[i] <= Median(xs)}) >= Len(xs)
         /\ 2 * Cardinality({i \in DOMAIN xs : xs[i] >= Median(xs)}) >= Len(xs)
<1>1. CASE xs = <<>>
  <2>1. Median(xs) = 0 /\ Len(xs) = 0
    BY <1>1 DEF Median
  <2>2. /\ {i \in DOMAIN xs : xs[i] <= Median(xs)} = {}
        /\ {i \in DOMAIN xs : xs[i] >= Median(xs)} = {}
    BY <1>1
  <2>3. QED
    BY <2>1, <2>2, FS_EmptySet
<1>2. CASE xs # <<>>
  <2> DEFINE len == Len(xs)
             mid == len \div 2
             m == Median(xs)
             s == Sorted(xs)
             below == {i \in DOMAIN xs : xs[i] <= m}
             above == {i \in DOMAIN xs : xs[i] >= m}
  <2>1. len \in Nat /\ len # 0 /\ xs \in [1..len -> Nat] /\ DOMAIN xs = 1..len
    BY <1>2
  <2>2. PICK p : Sorts(p, xs, len) /\ s = [i \in 1..len |-> xs[p[i]]]
    BY <2>1, SortedIs
  <2>3. /\ p \in Bijection(1..len, 1..len) /\ p \in [1..len -> 1..len]
        /\ \A i, j \in 1..len : i < j => s[i] <= s[j]
        /\ \A i \in 1..len : s[i] \in Nat /\ s[i] = xs[p[i]]
    <3>1. p \in Bijection(1..len, 1..len) /\ p \in [1..len -> 1..len]
      BY <2>2 DEF Sorts, Bijection, Injection
    <3>2. \A i \in 1..len : s[i] \in Nat /\ s[i] = xs[p[i]]
      BY <2>1, <2>2, <3>1
    <3>3. \A i, j \in 1..len : i < j => s[i] <= s[j]
      BY <2>2, <3>2 DEF Sorts
    <3>4. QED
      BY <3>1, <3>2, <3>3
  <2>4. /\ len % 2 = 1 => m = s[mid + 1]
        /\ len % 2 # 1 => m = (s[mid] + s[mid + 1]) \div 2
    BY <1>2 DEF Median
  <2>5. \A i, j \in 1..len : i <= j => s[i] <= s[j]
    BY <2>3
  <2>6. /\ mid \in Nat
        /\ len % 2 = 1 => len = 2 * mid + 1
        /\ len % 2 # 1 => len = 2 * mid
    BY <2>1, Halves
  <2> HIDE DEF s, m, len, mid
  <2>7. PICK lo \in 1..len, hi \in 1..len :
          /\ m \in Nat /\ s[lo] <= m /\ m <= s[hi]
          /\ 2 * lo >= len /\ 2 * (len - hi + 1) >= len
    <3>1. CASE len % 2 = 1
      <4>1. mid + 1 \in 1..len
        BY <2>1, <2>6, <3>1
      <4>2. m = s[mid + 1] /\ m \in Nat
        BY <2>3, <2>4, <3>1, <4>1
      <4>3. QED
        BY <2>1, <2>6, <3>1, <4>1, <4>2
    <3>2. CASE len % 2 # 1
      <4>1. mid \in 1..len /\ mid + 1 \in 1..len
        BY <2>1, <2>6, <3>2
      <4>2. s[mid] \in Nat /\ s[mid + 1] \in Nat /\ s[mid] <= s[mid + 1]
        BY <2>3, <2>6, <4>1
      <4>3. m \in Nat /\ s[mid] <= m /\ m <= s[mid + 1]
        BY <2>4, <3>2, <4>2
      <4>4. QED
        BY <2>1, <2>6, <3>2, <4>1, <4>3
    <3>3. QED
      BY <3>1, <3>2
  <2>8. m \in Nat /\ s[lo] <= m /\ m <= s[hi]
    BY <2>7
  <2>9. \A i \in 1..lo : p[i] \in below
    <3>1. ASSUME NEW i \in 1..lo
          PROVE  p[i] \in 1..len /\ xs[p[i]] <= m
      <4>1. i \in 1..len
        BY <2>1
      <4>2. s[i] <= s[lo] /\ s[i] \in Nat /\ s[lo] \in Nat /\ s[i] = xs[p[i]]
        BY <2>3, <2>5, <4>1
      <4>3. p[i] \in 1..len
        BY <2>3, <4>1
      <4>4. s[i] <= m
        BY <2>8, <4>2
      <4>5. QED
        BY <4>2, <4>3, <4>4
    <3>2. QED
      BY <2>1, <3>1
  <2>10. \A i \in hi..len : p[i] \in above
    <3>1. ASSUME NEW i \in hi..len
          PROVE  p[i] \in 1..len /\ xs[p[i]] >= m
      <4>1. i \in 1..len
        BY <2>1
      <4>2. s[hi] <= s[i] /\ s[i] \in Nat /\ s[hi] \in Nat /\ s[i] = xs[p[i]]
        BY <2>3, <2>5, <4>1
      <4>3. p[i] \in 1..len
        BY <2>3, <4>1
      <4>4. s[i] >= m
        BY <2>8, <4>2
      <4>5. QED
        BY <4>2, <4>3, <4>4
    <3>2. QED
      BY <2>1, <3>1
  <2>11. below \in SUBSET (1..len) /\ above \in SUBSET (1..len)
    BY <2>1
  <2> HIDE DEF below, above
  <2>12. Cardinality(below) \in Nat /\ Cardinality(below) >= lo - 1 + 1
    <3>1. 1 \in 1..(len + 1) /\ lo \in 0..len /\ 1 <= lo + 1
      BY <2>1
    <3>2. QED
      BY <2>1, <2>3, <2>9, <2>11, <3>1, Counted
  <2>13. Cardinality(above) \in Nat /\ Cardinality(above) >= len - hi + 1
    <3>1. hi \in 1..(len + 1) /\ len \in 0..len /\ hi <= len + 1
      BY <2>1
    <3>2. QED
      BY <2>1, <2>3, <2>10, <2>11, <3>1, Counted
  <2>14. m \in Nat /\ 2 * Cardinality(below) >= len /\ 2 * Cardinality(above) >= len
    <3>1. m \in Nat /\ 2 * lo >= len /\ 2 * (len - hi + 1) >= len
      BY <2>7
    <3>2. QED
      BY <2>1, <2>12, <2>13, <3>1
  <2>15. QED
    BY <2>14 DEF below, above, m, len
<1>3. QED
  BY <1>1, <1>2

-----------------------------------------------------------------------------
(* Rounding.                                                               *)

\* Division by a positive number rounds down.
LEMMA DivBounds ==
  ASSUME NEW a \in Nat, NEW d \in Nat \ {0}
  PROVE  a \div d \in Nat /\ d * (a \div d) <= a /\ a < d * (a \div d) + d
<1>1. a \div d \in Int
  OBVIOUS
<1>2. d * (a \div d) <= a /\ a < d * (a \div d) + d
  OBVIOUS
<1>3. QED
  BY <1>1, <1>2

\* Multiples of a positive number are a whole multiple apart.
LEMMA Cancel ==
  ASSUME NEW d \in Nat \ {0}, NEW q \in Int, NEW k \in Int, d * q < d * k + d
  PROVE  q <= k
OBVIOUS

\* Division by a positive number keeps the order.
LEMMA DivKeepsOrder ==
  ASSUME NEW d \in Nat \ {0}, NEW a \in Nat, NEW b \in Nat, a <= b
  PROVE  a \div d <= b \div d
BY DivBounds, Cancel

\* A quotient is at least k if k times the divisor fits.
LEMMA DivAtLeast ==
  ASSUME NEW a \in Nat, NEW d \in Nat \ {0}, NEW k \in Nat, k * d <= a
  PROVE  k <= a \div d
BY DivBounds, Cancel

\* It is at most k if k + 1 times the divisor does not.
LEMMA DivAtMost ==
  ASSUME NEW a \in Nat, NEW d \in Nat \ {0}, NEW k \in Nat, a < (k + 1) * d
  PROVE  a \div d <= k
BY DivBounds, Cancel

\* A cost is a natural number of tenths.
LEMMA RelCostType ==
  ASSUME NEW ns \in Nat, NEW r \in Nat \ {0}
  PROVE  RelCost(ns, r) \in Nat
<1>1. 2 * r \in Nat \ {0} /\ 2 * ns + r \in Nat /\ 20 * ns + r \in Nat
  OBVIOUS
<1>2. (2 * ns + r) \div (2 * r) \in Nat /\ (20 * ns + r) \div (2 * r) \in Nat
  BY <1>1, DivBounds
<1>3. QED
  BY <1>2 DEF RelCost

\* What takes as long as the reference costs one.
LEMMA ReferenceCost ==
  ASSUME NEW r \in Nat \ {0}
  PROVE  RelCost(r, r) = 10
<1> DEFINE d == 2 * r
           a == 20 * r + r
<1>1. d \in Nat \ {0} /\ a \in Nat /\ 10 * d <= a /\ a < (10 + 1) * d
  OBVIOUS
<1>2. ~ (r >= 10 * r)
  OBVIOUS
<1>3. RelCost(r, r) = a \div d
  BY <1>2 DEF RelCost
<1> HIDE DEF d, a
<1>4. 10 <= a \div d /\ a \div d <= 10 /\ a \div d \in Nat
  BY <1>1, DivAtLeast, DivAtMost, DivBounds
<1>5. QED
  BY <1>3, <1>4

\* What takes no longer costs no more, also where the step of the rounding
\* changes: below a ratio of 10 a cost is at most 100 tenths, above it at least.
LEMMA RelCostKeepsOrder ==
  ASSUME NEW ns1 \in Nat, NEW ns2 \in Nat, NEW r \in Nat \ {0}, ns1 <= ns2
  PROVE  RelCost(ns1, r) <= RelCost(ns2, r)
<1> DEFINE d == 2 * r
           Fine(ns) == (20 * ns + r) \div d
           Coarse(ns) == (2 * ns + r) \div d
<1>1. d \in Nat \ {0}
  OBVIOUS
<1>2. /\ 2 * ns1 + r \in Nat /\ 2 * ns2 + r \in Nat /\ 2 * ns1 + r <= 2 * ns2 + r
      /\ 20 * ns1 + r \in Nat /\ 20 * ns2 + r \in Nat /\ 20 * ns1 + r <= 20 * ns2 + r
  OBVIOUS
<1>3. /\ RelCost(ns1, r) = IF ns1 >= 10 * r THEN 10 * Coarse(ns1) ELSE Fine(ns1)
      /\ RelCost(ns2, r) = IF ns2 >= 10 * r THEN 10 * Coarse(ns2) ELSE Fine(ns2)
  BY DEF RelCost
<1>4. /\ ns1 < 10 * r => 20 * ns1 + r < (100 + 1) * d
      /\ ns2 >= 10 * r => 10 * d <= 2 * ns2 + r
  OBVIOUS
<1> HIDE DEF d
<1>5. /\ Coarse(ns1) \in Nat /\ Coarse(ns2) \in Nat
      /\ Fine(ns1) \in Nat /\ Fine(ns2) \in Nat
  BY <1>1, <1>2, DivBounds
<1>6. Coarse(ns1) <= Coarse(ns2) /\ Fine(ns1) <= Fine(ns2)
  BY <1>1, <1>2, DivKeepsOrder
<1>7. /\ ns1 < 10 * r => Fine(ns1) <= 100
      /\ ns2 >= 10 * r => 10 <= Coarse(ns2)
  BY <1>1, <1>2, <1>4, DivAtLeast, DivAtMost
<1> HIDE DEF Fine, Coarse
<1>8. CASE ns1 >= 10 * r
  BY <1>3, <1>5, <1>6, <1>8
<1>9. CASE ns1 < 10 * r
  BY <1>3, <1>5, <1>6, <1>7, <1>9
<1>10. QED
  BY <1>8, <1>9

-----------------------------------------------------------------------------
(* The inductive invariant.                                                *)

Working == {"generate", "warm up", "sign", "sign for verify", "verify"}

\* A row is being worked on while there is one left, and the costs are taken
\* when there is none.
RowsInv ==
  /\ phase = "register" => results = <<>>
  /\ phase \in Working => Len(results) < Len(Rows)

\* The reference's times are those of its own row.
RefInv ==
  /\ \A i \in DOMAIN results :
       results[i].name = Reference /\ ~ results[i].skipped => ref = results[i].ns
  /\ ref # NoTiming =>
       \E i \in DOMAIN results :
         results[i].name = Reference /\ ~ results[i].skipped /\ ref = results[i].ns

\* The report is of the results there are.
ReportInv ==
  /\ phase # "reported" => report = <<>>
  /\ phase = "reported" => ref.sign # 0 /\ ref.verify # 0 /\ report = MeasuredCosts

IInv == TypeOK /\ RowsInv /\ RefInv /\ ReportInv

USE RowsAssumption, ReferenceAssumption, IterationsAssumption, TimesAssumption

Measured == {i \in DOMAIN results : ~ results[i].skipped}

\* A measured row's costs are those of its own times.
LEMMA CostsOf ==
  ASSUME TypeOK
  PROVE  /\ DOMAIN MeasuredCosts = {Rows[i] : i \in Measured}
         /\ \A i \in Measured :
              MeasuredCosts[Rows[i]] = [signing |-> RelCost(results[i].ns.sign, ref.sign),
                                        validation |-> RelCost(results[i].ns.verify, ref.verify)]
<1> DEFINE At(name) == CHOOSE i \in Measured : Rows[i] = name
           Cost(i) == [signing |-> RelCost(results[i].ns.sign, ref.sign),
                       validation |-> RelCost(results[i].ns.verify, ref.verify)]
<1>1. MeasuredCosts = [name \in {Rows[i] : i \in Measured} |-> Cost(At(name))]
  BY DEF MeasuredCosts, Measured
<1>2. Measured \subseteq DOMAIN Rows
  BY DEF TypeOK, Measured
<1>3. ASSUME NEW i \in Measured
      PROVE  At(Rows[i]) = i
  BY <1>2, <1>3
<1> HIDE DEF Cost, At
<1>4. \A i \in Measured : MeasuredCosts[Rows[i]] = Cost(At(Rows[i]))
  BY <1>1
<1>5. \A i \in Measured : MeasuredCosts[Rows[i]] = Cost(i)
  BY <1>3, <1>4
<1>6. QED
  BY <1>1, <1>5 DEF Cost

\* A measured row has times.
LEMMA TimesOf ==
  ASSUME TypeOK, NEW i \in Measured
  PROVE  results[i].ns \in Timing
<1> DEFINE R == [name : Names, skipped : BOOLEAN, ns : Timing]
<1>1. results \in Seq(R) /\ i \in DOMAIN results
  BY DEF TypeOK, Measured
<1>2. \A r \in R : r.ns \in Timing
  OBVIOUS
<1> HIDE DEF R
<1>3. results[i] \in R
  BY <1>1
<1>4. QED
  BY <1>2, <1>3

\* The report's costs are natural numbers, one pair for each measured row.
LEMMA CostTypes ==
  ASSUME TypeOK, ref.sign # 0, ref.verify # 0
  PROVE  /\ DOMAIN MeasuredCosts \subseteq Names
         /\ \A name \in DOMAIN MeasuredCosts :
              MeasuredCosts[name] \in [signing : Nat, validation : Nat]
<1>1. Measured \subseteq DOMAIN Rows
  BY DEF TypeOK, Measured
<1>2. DOMAIN MeasuredCosts \subseteq Names
  BY <1>1, CostsOf DEF Names
<1>3. ASSUME NEW i \in Measured
      PROVE  MeasuredCosts[Rows[i]] \in [signing : Nat, validation : Nat]
  <2>1. /\ results[i].ns.sign \in Nat /\ results[i].ns.verify \in Nat
        /\ ref.sign \in Nat \ {0} /\ ref.verify \in Nat \ {0}
    <3>1. results[i].ns \in Timing /\ ref \in Timing
      BY TimesOf DEF TypeOK
    <3>2. QED
      BY <3>1 DEF Timing
  <2>2. /\ RelCost(results[i].ns.sign, ref.sign) \in Nat
        /\ RelCost(results[i].ns.verify, ref.verify) \in Nat
    BY <2>1, RelCostType
  <2>3. MeasuredCosts[Rows[i]] = [signing |-> RelCost(results[i].ns.sign, ref.sign),
                                  validation |-> RelCost(results[i].ns.verify, ref.verify)]
    BY CostsOf
  <2>4. QED
    BY <2>2, <2>3
<1>4. QED
  BY <1>2, <1>3, CostsOf

\* The samples' median is a duration.
LEMMA MedianType ==
  ASSUME TypeOK
  PROVE  Median(samples) \in Nat
<1>1. samples \in Seq(Nat)
  BY DEF TypeOK
<1>2. QED
  BY <1>1, MedianIs

\* main's loop takes one more result.
LEMMA ResultStep ==
  ASSUME IInv, phase \in Working,
         NEW r \in [name : {Row}, skipped : BOOLEAN, ns : Timing],
         Result(r)
  PROVE  IInv'
<1> DEFINE all == Append(results, r)
           count == Len(results)
<1>1. /\ results \in Seq([name : Names, skipped : BOOLEAN, ns : Timing])
      /\ count \in Nat /\ count < Len(Rows) /\ Len(Rows) \in Nat
      /\ \A i \in DOMAIN results : results[i].name = Rows[i]
  BY DEF IInv, TypeOK, RowsInv
<1>2. /\ results' = all
      /\ ref' = IF r.name = Reference /\ ~ r.skipped THEN r.ns ELSE ref
      /\ phase' = IF count + 1 = Len(Rows) THEN "results" ELSE "generate"
      /\ samples' = <<>> /\ signNs' = 0 /\ n' = n /\ report' = report
  BY DEF Result, Goto
<1>3. r.name = Rows[count + 1] /\ r.name \in Names /\ count + 1 \in DOMAIN Rows
  BY <1>1 DEF Row, Names
<1>4. r \in [name : Names, skipped : BOOLEAN, ns : Timing]
  BY <1>3
<1>5. /\ all \in Seq([name : Names, skipped : BOOLEAN, ns : Timing])
      /\ Len(all) = count + 1
      /\ \A i \in 1..count : all[i] = results[i]
      /\ all[count + 1] = r
      /\ DOMAIN all = 1..(count + 1) /\ DOMAIN results = 1..count
  BY <1>1, <1>4
<1> HIDE DEF all
<1>6. \A i \in 1..(count + 1) : i \in 1..count \/ i = count + 1
  BY <1>1
<1>7. TypeOK'
  <2>1. \A i \in DOMAIN all : all[i].name = Rows[i]
    BY <1>1, <1>3, <1>5, <1>6
  <2>2. ref' \in Timing
    BY <1>2 DEF IInv, TypeOK
  <2>3. phase' \in Phases
    BY <1>2 DEF Phases
  <2>4. samples' \in Seq(Times)
    BY <1>2
  <2>5. Len(all) <= Len(Rows)
    BY <1>1, <1>5
  <2>6. QED
    BY <1>2, <1>5, <2>1, <2>2, <2>3, <2>4, <2>5 DEF IInv, TypeOK
<1>8. RowsInv'
  <2>1. phase' # "register"
    BY <1>2
  <2>2. phase' \in Working => count + 1 # Len(Rows)
    BY <1>2 DEF Working
  <2>3. phase' \in Working => Len(results') < Len(Rows)
    BY <1>1, <1>2, <1>5, <2>2
  <2>4. QED
    BY <2>1, <2>3 DEF RowsInv, Working
<1>9. RefInv'
  <2>1. ASSUME NEW i \in DOMAIN all, all[i].name = Reference, ~ all[i].skipped
        PROVE  ref' = all[i].ns
    <3>1. CASE i = count + 1
      BY <1>2, <1>5, <2>1, <3>1
    <3>2. CASE i \in 1..count
      <4>1. i \in DOMAIN results /\ results[i].name = Reference /\ ~ results[i].skipped
        BY <1>5, <2>1, <3>2
      <4>2. i \in DOMAIN Rows /\ i # count + 1 /\ Rows[i] = Reference
        BY <1>1, <3>2, <4>1
      <4>3. r.name # Reference
        BY <1>3, <4>2
      <4>4. QED
        BY <1>2, <1>5, <3>2, <4>1, <4>3 DEF IInv, RefInv
    <3>3. QED
      BY <1>5, <1>6, <3>1, <3>2
  <2>2. ASSUME ref' # NoTiming
        PROVE  \E i \in DOMAIN all :
                 all[i].name = Reference /\ ~ all[i].skipped /\ ref' = all[i].ns
    <3>1. CASE r.name = Reference /\ ~ r.skipped
      <4>1. count + 1 \in DOMAIN all
        BY <1>1, <1>5
      <4>2. QED
        BY <1>2, <1>5, <3>1, <4>1
    <3>2. CASE ~ (r.name = Reference /\ ~ r.skipped)
      <4>1. ref' = ref
        BY <1>2, <3>2
      <4>2. PICK i \in DOMAIN results :
                   results[i].name = Reference /\ ~ results[i].skipped /\ ref = results[i].ns
        BY <2>2, <4>1 DEF IInv, RefInv
      <4>3. i \in DOMAIN all /\ all[i] = results[i]
        BY <1>1, <1>5, <4>2
      <4>4. QED
        BY <4>1, <4>2, <4>3
    <3>3. QED
      BY <3>1, <3>2
  <2>3. QED
    BY <1>2, <2>1, <2>2 DEF RefInv, NoTiming
<1>10. ReportInv'
  BY <1>2 DEF IInv, ReportInv, Working
<1>11. QED
  BY <1>7, <1>8, <1>9, <1>10 DEF IInv

\* A step that leaves the results alone and reports nothing.
LEMMA OtherStep ==
  ASSUME IInv, results' = results, ref' = ref, report' = report, n' = n,
         phase' \in Phases \ {"register", "reported"}, phase # "reported",
         phase' \in Working => phase \in Working \cup {"register"},
         samples' \in Seq(Times), samples' # <<>> => Len(samples') <= n,
         signNs' \in Nat
  PROVE  IInv'
<1>1. TypeOK'
  BY DEF IInv, TypeOK
<1>2. RowsInv'
  <2>1. phase = "register" => Len(results) < Len(Rows)
    BY DEF IInv, RowsInv
  <2>2. QED
    BY <2>1 DEF IInv, RowsInv
<1>3. RefInv'
  BY DEF IInv, RefInv, NoTiming
<1>4. ReportInv'
  BY DEF IInv, ReportInv
<1>5. QED
  BY <1>1, <1>2, <1>3, <1>4 DEF IInv

\* Every step keeps the inductive invariant.
LEMMA NextStep ==
  ASSUME IInv, Step
  PROVE  IInv'
<1>0. /\ phase \in Phases /\ n \in Iterations /\ Iterations \subseteq Int
      /\ samples \in Seq(Times) /\ signNs \in Nat
      /\ samples # <<>> => Len(samples) <= n
  BY DEF IInv, TypeOK
<1>1. CASE Register \/ RegisterFails \/ Panic \/ Generate \/ WarmUp \/ SignForVerify \/ NoReference
  <2>1. /\ results' = results /\ ref' = ref /\ report' = report /\ n' = n
        /\ samples' = samples /\ signNs' = signNs
    BY <1>1 DEF Register, RegisterFails, Panic, Generate, WarmUp, SignForVerify, NoReference
  <2>2. /\ phase' \in Phases \ {"register", "reported"} /\ phase # "reported"
        /\ phase' \in Working => phase \in Working \cup {"register"}
    BY <1>1 DEF Register, RegisterFails, Panic, Generate, WarmUp, SignForVerify, NoReference,
                Goto, Phases, Working
  <2>3. QED
    BY <1>0, <2>1, <2>2, OtherStep
<1>2. ASSUME NEW t \in Times, Time(t)
      PROVE  IInv'
  <2>1. /\ results' = results /\ ref' = ref /\ report' = report /\ n' = n
        /\ phase' = phase /\ signNs' = signNs /\ samples' = Append(samples, t)
        /\ phase \in {"sign", "verify"} /\ Len(samples) < n
    BY <1>2 DEF Time
  <2>2. samples' \in Seq(Times) /\ Len(samples') <= n
    BY <1>0, <2>1
  <2>3. /\ phase' \in Phases \ {"register", "reported"} /\ phase # "reported"
        /\ phase' \in Working => phase \in Working \cup {"register"}
    BY <1>0, <2>1
  <2>4. QED
    BY <1>0, <2>1, <2>2, <2>3, OtherStep
<1>3. CASE Signed
  <2>1. /\ results' = results /\ ref' = ref /\ report' = report /\ n' = n
        /\ phase = "sign" /\ phase' = "sign for verify"
        /\ samples' = <<>> /\ signNs' = Median(samples)
    BY <1>3 DEF Signed, Goto
  <2>2. samples' \in Seq(Times) /\ signNs' \in Nat
    <3>1. Median(samples) \in Nat
      BY MedianType DEF IInv
    <3>2. <<>> \in Seq(Times)
      OBVIOUS
    <3>3. QED
      BY <2>1, <3>1, <3>2, Zenon
  <2>3. /\ phase' \in Phases \ {"register", "reported"} /\ phase # "reported"
        /\ phase' \in Working => phase \in Working \cup {"register"}
    BY <2>1 DEF Phases, Working
  <2>4. QED
    BY <2>1, <2>2, <2>3, OtherStep
<1>4. CASE Skip
  <2> DEFINE r == [name |-> Row, skipped |-> TRUE, ns |-> NoTiming]
  <2>1. phase \in Working /\ Result(r)
    BY <1>4 DEF Skip, Working
  <2>2. r \in [name : {Row}, skipped : BOOLEAN, ns : Timing]
    BY DEF NoTiming, Timing
  <2>3. QED
    BY <2>1, <2>2, ResultStep
<1>5. CASE Verified
  <2> DEFINE r == [name |-> Row, skipped |-> FALSE,
                   ns |-> [sign |-> signNs, verify |-> Median(samples)]]
  <2>1. phase \in Working /\ Result(r)
    BY <1>5 DEF Verified, Working
  <2>2. r \in [name : {Row}, skipped : BOOLEAN, ns : Timing]
    BY <1>0, MedianType DEF IInv, Timing
  <2>3. QED
    BY <2>1, <2>2, ResultStep
<1>6. CASE Report
  <2>1. /\ results' = results /\ ref' = ref /\ n' = n
        /\ samples' = samples /\ signNs' = signNs
        /\ phase' = "reported" /\ ref.sign # 0 /\ ref.verify # 0 /\ report' = MeasuredCosts
    BY <1>6 DEF Report, Goto
  <2>2. TypeOK'
    BY <2>1, CostTypes DEF IInv, TypeOK, Phases
  <2>3. RowsInv' /\ RefInv'
    BY <2>1 DEF IInv, RowsInv, RefInv, NoTiming, Working
  <2>4. ReportInv'
    BY <2>1 DEF ReportInv, MeasuredCosts
  <2>5. QED
    BY <2>2, <2>3, <2>4 DEF IInv
<1>7. QED
  BY <1>1, <1>2, <1>3, <1>4, <1>5, <1>6 DEF Step

\* The initial states satisfy the inductive invariant.
LEMMA InitHolds == Init => IInv
<1> SUFFICES ASSUME Init PROVE IInv
  OBVIOUS
<1>1. TypeOK
  BY DEF Init, TypeOK, Phases, NoTiming, Timing
<1>2. RowsInv /\ RefInv /\ ReportInv
  BY DEF Init, RowsInv, RefInv, ReportInv, Working
<1>3. QED
  BY <1>1, <1>2 DEF IInv

\* The inductive invariant holds in every reachable state.
LEMMA Invariance == Spec => []IInv
<1>1. IInv /\ [Next]_vars => IInv'
  <2>1. ASSUME IInv, UNCHANGED vars
        PROVE  IInv'
    <3>0. /\ n' = n /\ phase' = phase /\ samples' = samples /\ signNs' = signNs
          /\ results' = results /\ ref' = ref /\ report' = report
      BY <2>1 DEF vars
    <3>1. MeasuredCosts' = MeasuredCosts
      BY <3>0 DEF MeasuredCosts
    <3>2. TypeOK' /\ RowsInv' /\ RefInv'
      BY <2>1, <3>0 DEF IInv, TypeOK, RowsInv, RefInv
    <3>3. ReportInv'
      BY <2>1, <3>0, <3>1 DEF IInv, ReportInv
    <3>4. QED
      BY <3>2, <3>3 DEF IInv
  <2>2. QED
    BY <2>1, NextStep DEF Next, Terminated
<1>2. QED
  BY <1>1, InitHolds, PTL DEF Spec

-----------------------------------------------------------------------------
(* The theorems.                                                           *)

\* Type correctness: no loop takes more samples than -n, and there are no
\* more results than rows.
THEOREM TypeCorrect == Spec => []TypeOK
<1>1. IInv => TypeOK
  BY DEF IInv
<1>2. QED
  BY <1>1, Invariance, PTL

\* Half of the samples lie on either side of their median.
THEOREM MedianSplits == Spec => []MedianSplitsSamples
<1>1. IInv => MedianSplitsSamples
  <2> SUFFICES ASSUME IInv
               PROVE  MedianSplitsSamples
    OBVIOUS
  <2>1. samples \in Seq(Nat)
    BY DEF IInv, TypeOK
  <2>2. QED
    BY <2>1, MedianIs DEF MedianSplitsSamples
<1>2. QED
  BY <1>1, Invariance, PTL

\* The reference's own costs are one, if there is a report.
THEOREM ReferenceIsOne == Spec => []ReferenceCostsOne
<1>1. IInv => ReferenceCostsOne
  <2> SUFFICES ASSUME IInv, phase = "reported"
               PROVE  /\ Reference \in DOMAIN report
                      /\ report[Reference] = [signing |-> 10, validation |-> 10]
    BY DEF ReferenceCostsOne
  <2>1. ref \in Timing /\ ref.sign # 0 /\ ref.verify # 0 /\ report = MeasuredCosts
    BY DEF IInv, TypeOK, ReportInv
  <2>2. PICK i \in DOMAIN results :
               results[i].name = Reference /\ ~ results[i].skipped /\ ref = results[i].ns
    BY <2>1 DEF IInv, RefInv, NoTiming
  <2>3. i \in Measured /\ Rows[i] = Reference
    BY <2>2 DEF IInv, TypeOK, Measured
  <2>4. Reference \in DOMAIN MeasuredCosts
    BY <2>3, CostsOf DEF IInv
  <2>5. MeasuredCosts[Reference] = [signing |-> RelCost(ref.sign, ref.sign),
                                    validation |-> RelCost(ref.verify, ref.verify)]
    BY <2>2, <2>3, CostsOf DEF IInv
  <2>6. RelCost(ref.sign, ref.sign) = 10 /\ RelCost(ref.verify, ref.verify) = 10
    BY <2>1, ReferenceCost DEF Timing
  <2>7. QED
    BY <2>1, <2>4, <2>5, <2>6
<1>2. QED
  BY <1>1, Invariance, PTL

\* An algorithm that is no slower never has the higher cost.
THEOREM RoundingKeepsOrder == Spec => []FasterNeverCostsMore
<1>1. IInv => FasterNeverCostsMore
  <2> SUFFICES ASSUME IInv, phase = "reported", NEW i \in Measured, NEW j \in Measured
               PROVE  /\ results[i].ns.sign <= results[j].ns.sign =>
                           report[Rows[i]].signing <= report[Rows[j]].signing
                      /\ results[i].ns.verify <= results[j].ns.verify =>
                           report[Rows[i]].validation <= report[Rows[j]].validation
    BY DEF FasterNeverCostsMore, Measured
  <2>1. /\ ref.sign \in Nat \ {0} /\ ref.verify \in Nat \ {0}
        /\ report = MeasuredCosts
    BY DEF IInv, TypeOK, ReportInv, Timing
  <2>2. results[i].ns \in Timing /\ results[j].ns \in Timing
    BY TimesOf DEF IInv
  <2>3. /\ results[i].ns.sign \in Nat /\ results[j].ns.sign \in Nat
        /\ results[i].ns.verify \in Nat /\ results[j].ns.verify \in Nat
    BY <2>2 DEF Timing
  <2>4. /\ report[Rows[i]] = [signing |-> RelCost(results[i].ns.sign, ref.sign),
                              validation |-> RelCost(results[i].ns.verify, ref.verify)]
        /\ report[Rows[j]] = [signing |-> RelCost(results[j].ns.sign, ref.sign),
                              validation |-> RelCost(results[j].ns.verify, ref.verify)]
    BY <2>1, CostsOf DEF IInv
  <2>5. results[i].ns.sign <= results[j].ns.sign =>
          report[Rows[i]].signing <= report[Rows[j]].signing
    <3>1. results[i].ns.sign <= results[j].ns.sign =>
            RelCost(results[i].ns.sign, ref.sign) <= RelCost(results[j].ns.sign, ref.sign)
      BY <2>1, <2>3, RelCostKeepsOrder
    <3>2. QED
      BY <2>4, <3>1
  <2>6. results[i].ns.verify <= results[j].ns.verify =>
          report[Rows[i]].validation <= report[Rows[j]].validation
    <3>1. results[i].ns.verify <= results[j].ns.verify =>
            RelCost(results[i].ns.verify, ref.verify) <= RelCost(results[j].ns.verify, ref.verify)
      BY <2>1, <2>3, RelCostKeepsOrder
    <3>2. QED
      BY <2>4, <3>1
  <2>7. QED
    BY <2>5, <2>6
<1>2. QED
  BY <1>1, Invariance, PTL

-----------------------------------------------------------------------------
(* Runs that measure nothing.                                              *)

\* A report is of timings: a run with -n 0, whose medians are those of no
\* samples, or with a negative -n, exits without one.
NoReportWithoutSamples == phase = "reported" => n >= 1

\* Where n is not positive every time is 0, the reference's too, and where it
\* is negative no row comes past its signing loop.
NothingTimedInv ==
  /\ n <= 0 => /\ signNs = 0 /\ samples = <<>> /\ ref = NoTiming
               /\ phase # "reported"
  /\ phase \in {"sign for verify", "verify"} => n >= 0

\* No step times anything then.
LEMMA NothingTimedStep ==
  ASSUME IInv, NothingTimedInv, Step
  PROVE  NothingTimedInv'
<1>0. n \in Int /\ n' = n /\ samples \in Seq(Times) /\ (samples # <<>> => Len(samples) <= n)
  BY DEF IInv, TypeOK, Step, Register, RegisterFails, Panic, Skip, Result, Generate, WarmUp,
         Time, Signed, SignForVerify, Verified, NoReference, Report
<1>n. n \in Int /\ n' = n /\ n' \in Int /\ Len(samples) \in Nat
  BY <1>0
<1>1. Median(<<>>) = 0
  BY DEF Median
<1> USE DEF NothingTimedInv, Goto
<1>2. CASE Register \/ RegisterFails \/ Panic \/ Generate \/ WarmUp \/ NoReference
  BY <1>2 DEF Register, RegisterFails, Panic, Generate, WarmUp, NoReference
<1>3. CASE Skip
  BY <1>0, <1>3 DEF Skip, Result
<1>4. ASSUME NEW t \in Times, Time(t)
      PROVE  NothingTimedInv'
  <2>1. Len(samples) < n /\ phase' = phase
    BY <1>4 DEF Time
  <2>2. ~ (n <= 0) /\ n >= 0
    BY ONLY <1>n, <2>1
  <2>3. QED
    BY ONLY <1>n, <2>2 DEF NothingTimedInv
<1>5. CASE Signed
  <2>1. Len(samples) = n /\ n >= 0
    <3>1. Len(samples) = n
      BY <1>5 DEF Signed
    <3>2. QED
      BY ONLY <1>n, <3>1
  <2>2. n <= 0 => signNs' = 0 /\ samples' = <<>> /\ ref' = NoTiming
    BY <1>0, <1>1, <1>5, <2>1 DEF Signed
  <2>3. phase' = "sign for verify"
    BY <1>5 DEF Signed
  <2>4. n <= 0 => phase' # "reported"
    BY <2>3
  <2>5. QED
    BY ONLY <1>n, <2>1, <2>2, <2>3, <2>4 DEF NothingTimedInv
<1>6. CASE SignForVerify
  BY <1>0, <1>6 DEF SignForVerify
<1>7. CASE Verified
  <2>1. n <= 0 => Median(samples) = 0 /\ signNs = 0
    BY <1>0, <1>1, <1>7 DEF Verified
  <2>2. n <= 0 => ref' = NoTiming
    BY <1>0, <1>7, <2>1 DEF Verified, Result, NoTiming
  <2>3. samples' = <<>> /\ signNs' = 0 /\ phase' \in {"results", "generate"}
    BY <1>7 DEF Verified, Result
  <2>4. QED
    BY <1>0, <2>2, <2>3
<1>8. CASE Report
  <2>1. ~ (n <= 0)
    BY <1>8 DEF Report, NoTiming
  <2>2. n >= 0 /\ phase' = "reported"
    BY <1>n, <1>8, <2>1 DEF Report
  <2>3. QED
    BY ONLY <1>n, <2>1, <2>2 DEF NothingTimedInv
<1>9. QED
  BY <1>2, <1>3, <1>4, <1>5, <1>6, <1>7, <1>8 DEF Step

\* What holds of such a run in every reachable state.
LEMMA NothingTimed == Spec => []NothingTimedInv
<1>1. Init => NothingTimedInv
  BY DEF Init, NothingTimedInv
<1>2. IInv /\ NothingTimedInv /\ [Next]_vars => NothingTimedInv'
  <2>1. ASSUME NothingTimedInv, UNCHANGED vars
        PROVE  NothingTimedInv'
    BY <2>1 DEF vars, NothingTimedInv
  <2>2. QED
    BY <2>1, NothingTimedStep DEF Next, Terminated
<1>3. QED
  BY <1>1, <1>2, Invariance, PTL DEF Spec

\* No run reports costs it has not timed.
THEOREM ReportsAreTimed == Spec => []NoReportWithoutSamples
<1>1. IInv /\ NothingTimedInv => NoReportWithoutSamples
  BY DEF IInv, TypeOK, NothingTimedInv, NoReportWithoutSamples
<1>2. QED
  BY <1>1, Invariance, NothingTimed, PTL

-----------------------------------------------------------------------------
(* Progress: what RunEnds rests on besides fairness.                       *)

\* How far a row's work is, and what comes before and after all rows.
Stage ==
  [x \in Phases |->
     CASE x = "register" -> 0 [] x = "generate" -> 1 [] x = "warm up" -> 2
       [] x = "sign" -> 3 [] x = "sign for verify" -> 4 [] x = "verify" -> 5
       [] x = "results" -> 6 [] x \in {"reported", "exited"} -> 7]

\* Every step, a failure of a call too, has taken the result of one more row,
\* or is further in the same row, or has one more sample at the same place:
\* no row is tried twice and no sample is dropped.  TypeOK bounds all three.
RunAdvances ==
  [][Step => \/ Len(results)' > Len(results)
             \/ Len(results)' = Len(results) /\ Stage[phase'] > Stage[phase]
             \/ /\ Len(results)' = Len(results) /\ Stage[phase'] = Stage[phase]
                /\ Len(samples)' > Len(samples)]_vars

\* Until it has reported or exited, the run has a step to take: the loops end
\* at n samples exactly, and none is entered with a negative n that does not
\* panic at once.
NeverStuck ==
  \/ phase \in {"reported", "exited"}
  \/ phase \in {"register", "generate", "warm up", "sign for verify", "results"}
  \/ phase \in {"sign", "verify"} /\ Len(samples) <= n
  \/ phase = "sign" /\ n < 0

\* No step goes back.
THEOREM RunProgress == Spec => RunAdvances
<1> DEFINE Further ==
      Step => \/ Len(results)' > Len(results)
              \/ Len(results)' = Len(results) /\ Stage[phase'] > Stage[phase]
              \/ /\ Len(results)' = Len(results) /\ Stage[phase'] = Stage[phase]
                 /\ Len(samples)' > Len(samples)
<1>1. IInv /\ [Next]_vars => [Further]_vars
  <2> SUFFICES ASSUME IInv, Step
               PROVE  \/ Len(results)' > Len(results)
                      \/ Len(results)' = Len(results) /\ Stage[phase'] > Stage[phase]
                      \/ /\ Len(results)' = Len(results) /\ Stage[phase'] = Stage[phase]
                         /\ Len(samples)' > Len(samples)
    OBVIOUS
  <2>0. samples \in Seq(Times) /\ Len(samples) \in Nat /\ Len(results) \in Nat
    BY DEF IInv, TypeOK
  <2>a. /\ Stage["register"] = 0 /\ Stage["generate"] = 1 /\ Stage["warm up"] = 2
        /\ Stage["sign"] = 3 /\ Stage["sign for verify"] = 4 /\ Stage["verify"] = 5
        /\ Stage["results"] = 6 /\ Stage["reported"] = 7 /\ Stage["exited"] = 7
    BY DEF Stage, Phases
  <2>b. ASSUME NEW i \in 0..7, NEW j \in 0..7, i < j, Stage[phase] = i, Stage[phase'] = j
        PROVE  Stage[phase'] > Stage[phase]
    BY ONLY <2>b
  <2>1. CASE Register \/ RegisterFails \/ Panic \/ Generate \/ WarmUp \/ SignForVerify
    <3>1. /\ results' = results
          /\ \/ phase = "register" /\ phase' \in {"generate", "exited"}
             \/ phase = "generate" /\ phase' = "warm up"
             \/ phase = "warm up" /\ phase' = "sign"
             \/ phase = "sign" /\ phase' = "exited"
             \/ phase = "sign for verify" /\ phase' = "verify"
      BY <2>1 DEF Register, RegisterFails, Panic, Generate, WarmUp, SignForVerify, Goto
    <3>2. \/ Stage[phase] = 0 /\ Stage[phase'] = 1
          \/ Stage[phase] = 0 /\ Stage[phase'] = 7
          \/ Stage[phase] = 1 /\ Stage[phase'] = 2
          \/ Stage[phase] = 2 /\ Stage[phase'] = 3
          \/ Stage[phase] = 3 /\ Stage[phase'] = 7
          \/ Stage[phase] = 4 /\ Stage[phase'] = 5
      BY ONLY <2>a, <3>1, Zenon
    <3>3. Stage[phase'] > Stage[phase]
      BY ONLY <2>b, <3>2
    <3>4. QED
      BY <3>1, <3>3
  <2>2. CASE Signed \/ NoReference \/ Report
    <3>1. /\ results' = results
          /\ \/ phase = "sign" /\ phase' = "sign for verify"
             \/ phase = "results" /\ phase' \in {"reported", "exited"}
      BY <2>2 DEF Signed, NoReference, Report, Goto
    <3>2. \/ Stage[phase] = 3 /\ Stage[phase'] = 4
          \/ Stage[phase] = 6 /\ Stage[phase'] = 7
      BY ONLY <2>a, <3>1, Zenon
    <3>3. Stage[phase'] > Stage[phase]
      BY ONLY <2>b, <3>2
    <3>4. QED
      BY <3>1, <3>3
  <2>3. CASE Skip \/ Verified
    <3>1. PICK r : results' = Append(results, r)
      BY <2>3 DEF Skip, Verified, Result
    <3>2. Len(results') = Len(results) + 1
      BY <3>1 DEF IInv, TypeOK
    <3>3. QED
      BY <2>0, <3>2
  <2>4. ASSUME NEW t \in Times, Time(t)
        PROVE  /\ Len(results)' = Len(results) /\ Stage[phase'] = Stage[phase]
               /\ Len(samples)' > Len(samples)
    BY <2>0, <2>4 DEF Time
  <2>5. QED
    BY <2>1, <2>2, <2>3, <2>4 DEF Step
<1>2. QED
  BY <1>1, Invariance, PTL DEF Spec, RunAdvances

\* The run can always go on to its end.
THEOREM CanGoOn == Spec => []NeverStuck
<1>1. IInv /\ NothingTimedInv => NeverStuck
  <2> SUFFICES ASSUME IInv, NothingTimedInv
               PROVE  NeverStuck
    OBVIOUS
  <2>1. /\ phase \in Phases /\ n \in Int
        /\ samples \in Seq(Times) /\ (samples # <<>> => Len(samples) <= n)
        /\ phase = "verify" => n >= 0
    BY DEF IInv, TypeOK, NothingTimedInv
  <2>2. Len(samples) <= n \/ n < 0
    BY <2>1
  <2>3. QED
    BY <2>1, <2>2 DEF NeverStuck, Phases
<1>2. QED
  BY <1>1, Invariance, NothingTimed, PTL
=============================================================================
