---------------------------- MODULE PRTouch_proofs ----------------------------
(***************************************************************************)
(* Theorems about the nozzle probe, for every set of commands and heights, *)
(* every number of samples and retries, and any number of faults and late  *)
(* acknowledgements.                                                       *)
(***************************************************************************)
EXTENDS PRTouch, SequenceTheorems, FiniteSetTheorems, WellFoundedInduction, TLAPS

-----------------------------------------------------------------------------
(***************************************************************************)
(* The search for touches that agree (_best_subset).  Induction over the   *)
(* number of values is the least number principle, of which WFMin is the   *)
(* form that quantifies over sets.                                         *)
(***************************************************************************)

\* Every set of naturals has a least member.
LEMMA NatLeast ==
  ASSUME NEW T \in SUBSET Nat, T # {}
  PROVE  \E x \in T : \A y \in T : x <= y
<1> DEFINE R == {p \in Nat \X Nat : p[1] < p[2]}
<1>1. IsWellFoundedOn(R, Nat)
  BY NatLessThanWellFounded DEF OpToRel
<1>2. \E x \in T : \A y \in T : <<y, x>> \notin R
  <2> HIDE DEF R
  <2> QED BY <1>1, WFMin
<1>3. \A x, y \in Nat : <<y, x>> \notin R => x <= y
  OBVIOUS
<1> QED BY <1>2, <1>3

\* What holds of 0 and of n + 1 with n is true of every number.
LEMMA SetInduction ==
  ASSUME NEW T, 0 \in T, \A n \in Nat : n \in T => n + 1 \in T
  PROVE  Nat \subseteq T
<1> SUFFICES ASSUME Nat \ T # {} PROVE FALSE
  OBVIOUS
<1>1. PICK x \in Nat \ T : \A y \in Nat \ T : x <= y
  BY NatLeast
<1>2. x - 1 \in Nat /\ x - 1 \notin Nat \ T
  BY <1>1
<1> QED BY <1>1, <1>2

\* Two facts of arithmetic.
LEMMA WithinRange ==
  ASSUME NEW x \in Int, NEW y \in Int, NEW lo \in Int, NEW hi \in Int, NEW t \in Int,
         lo <= y, x <= hi, hi - lo <= t
  PROVE  x - y <= t
OBVIOUS

LEMMA WidthBelow ==
  ASSUME NEW w \in Int, NEW v \in Int, NEW x \in Int, NEW y \in Int, NEW z \in Int, NEW t \in Int,
         w - v <= x - y, x <= z, z - y <= t
  PROVE  w - v <= t
OBVIOUS

\* The orders of n values.
OrdersOf(n, values) ==
  {p \in [1..n -> 1..n] :
     /\ \A i, j \in 1..n : i < j => p[i] # p[j] /\ values[p[i]] <= values[p[j]]
     /\ \A k \in 1..n : \E i \in 1..n : p[i] = k}

\* The last of n + 1 values goes before the first that is greater.
LEMMA OrderInserts ==
  ASSUME NEW n \in Nat, NEW values \in [1..(n + 1) -> Int], OrdersOf(n, values) # {}
  PROVE  OrdersOf(n + 1, values) # {}
<1>1. PICK p \in OrdersOf(n, values) : TRUE
  OBVIOUS
<1> DEFINE T == {k \in 1..(n + 1) : k = n + 1 \/ values[p[k]] > values[n + 1]}
<1>2. PICK k \in T : \A j \in T : k <= j
  <2>1. n + 1 \in T /\ T \in SUBSET Nat
    OBVIOUS
  <2> QED BY <2>1, NatLeast
<1> DEFINE q == [i \in 1..(n + 1) |-> IF i < k THEN p[i] ELSE IF i = k THEN n + 1 ELSE p[i - 1]]
<1>a. p \in [1..n -> 1..n] /\ k \in 1..(n + 1)
  BY <1>1, <1>2 DEF OrdersOf
<1>b. /\ \A i \in 1..n : p[i] \in 1..n /\ values[p[i]] \in Int
      /\ \A i, j \in 1..n : i < j => p[i] # p[j] /\ values[p[i]] <= values[p[j]]
      /\ values[n + 1] \in Int
  <2>1. \A i \in 1..n : p[i] \in 1..n
    BY <1>a
  <2>2. 1..n \subseteq 1..(n + 1) /\ n + 1 \in 1..(n + 1)
    OBVIOUS
  <2>3. \A i \in 1..n : p[i] \in 1..(n + 1)
    BY <2>1, <2>2
  <2>4. \A i \in 1..n : values[p[i]] \in Int
    BY <2>3
  <2>5. \A i, j \in 1..n : i < j => p[i] # p[j] /\ values[p[i]] <= values[p[j]]
    BY <1>1 DEF OrdersOf
  <2> QED BY <2>1, <2>2, <2>4, <2>5
<1>c. /\ \A i \in 1..(n + 1) : i < k => i \in 1..n /\ q[i] = p[i]
      /\ q[k] = n + 1
      /\ \A i \in 1..(n + 1) : i > k => i - 1 \in 1..n /\ q[i] = p[i - 1]
  BY <1>a
<1>3. q \in [1..(n + 1) -> 1..(n + 1)]
  <2>1. \A i \in 1..(n + 1) : q[i] \in 1..(n + 1)
    <3> SUFFICES ASSUME NEW i \in 1..(n + 1) PROVE q[i] \in 1..(n + 1)
      OBVIOUS
    <3>1. i < k \/ i = k \/ i > k
      BY <1>a
    <3>2. \A l \in 1..n : p[l] \in 1..(n + 1)
      BY <1>a
    <3> HIDE DEF q
    <3>3. CASE i < k
      BY <3>2, <3>3, <1>c
    <3>4. CASE i = k
      BY <3>4, <1>c
    <3>5. CASE i > k
      BY <3>2, <3>5, <1>c
    <3> QED BY <3>1, <3>3, <3>4, <3>5
  <2> QED BY <2>1
<1>4. \A i, j \in 1..(n + 1) : i < j => q[i] # q[j]
  <2> SUFFICES ASSUME NEW i \in 1..(n + 1), NEW j \in 1..(n + 1), i < j
               PROVE  q[i] # q[j]
    OBVIOUS
  <2> HIDE DEF q
  <2>1. CASE j < k
    BY <2>1, <1>a, <1>b, <1>c
  <2>2. CASE j = k
    <3>1. q[i] \in 1..n
      BY <2>2, <1>a, <1>b, <1>c
    <3> QED BY <2>2, <3>1, <1>c
  <2>3. CASE j > k
    <3>1. q[j] = p[j - 1] /\ j - 1 \in 1..n
      BY <2>3, <1>c
    <3>2. CASE i < k
      <4>1. q[i] = p[i] /\ i \in 1..n /\ i < j - 1
        BY <2>3, <3>1, <3>2, <1>a, <1>c
      <4> QED BY <3>1, <4>1, <1>b
    <3>3. CASE i = k
      BY <3>1, <3>3, <1>b, <1>c
    <3>4. CASE i > k
      <4>1. q[i] = p[i - 1] /\ i - 1 \in 1..n /\ i - 1 < j - 1
        BY <3>1, <3>4, <1>a, <1>c
      <4> QED BY <3>1, <4>1, <1>b
    <3> QED BY <3>2, <3>3, <3>4, <1>a
  <2> QED BY <2>1, <2>2, <2>3, <1>a
<1>5. \A i, j \in 1..(n + 1) : i < j => values[q[i]] <= values[q[j]]
  <2> SUFFICES ASSUME NEW i \in 1..(n + 1), NEW j \in 1..(n + 1), i < j
               PROVE  values[q[i]] <= values[q[j]]
    OBVIOUS
  <2>0. \A a, b \in 1..n : a <= b => values[p[a]] <= values[p[b]]
    <3> SUFFICES ASSUME NEW a \in 1..n, NEW b \in 1..n, a <= b
                 PROVE  values[p[a]] <= values[p[b]]
      OBVIOUS
    <3>1. a = b \/ a < b
      OBVIOUS
    <3> HIDE DEF q
    <3> QED BY <3>1, <1>b
  <2>1. \A a \in 1..n : a < k => values[p[a]] <= values[n + 1]
    <3> SUFFICES ASSUME NEW a \in 1..n, a < k PROVE values[p[a]] <= values[n + 1]
      OBVIOUS
    <3>1. a \notin T
      <4> HIDE DEF T
      <4> QED BY <1>2, <1>a
    <3>2. ~(values[p[a]] > values[n + 1])
      BY <3>1
    <3> QED BY <3>2, <1>b
  <2>2. \A a \in 1..n : a >= k => values[p[a]] >= values[n + 1]
    <3> SUFFICES ASSUME NEW a \in 1..n, a >= k PROVE values[p[a]] >= values[n + 1]
      OBVIOUS
    <3>1. k \in 1..n /\ values[p[k]] > values[n + 1]
      BY <1>2, <1>a
    <3>2. values[p[k]] \in Int /\ values[p[a]] \in Int /\ values[n + 1] \in Int
      BY <1>a, <3>1
    <3> QED BY <3>1, <3>2, <2>0
  <2>3. CASE j < k
    BY <2>3, <2>0
  <2>4. CASE j = k
    BY <2>4, <2>1
  <2>5. CASE i = k
    <3>1. q[i] = n + 1 /\ q[j] = p[j - 1] /\ j - 1 \in 1..n /\ j - 1 >= k
      BY <2>5, <1>a
    <3> QED BY <3>1, <2>2
  <2>6. CASE i < k /\ j > k
    <3>1. q[i] = p[i] /\ q[j] = p[j - 1] /\ j - 1 \in 1..n /\ i \in 1..n /\ i <= j - 1
      BY <2>6, <1>a
    <3> QED BY <3>1, <2>0
  <2>7. CASE i > k
    <3>1. q[i] = p[i - 1] /\ q[j] = p[j - 1] /\ j - 1 \in 1..n /\ i - 1 \in 1..n /\ i - 1 <= j - 1
      BY <2>7, <1>a
    <3> QED BY <3>1, <2>0
  <2> QED BY <2>3, <2>4, <2>5, <2>6, <2>7, <1>a
<1>6. \A v \in 1..(n + 1) : \E i \in 1..(n + 1) : q[i] = v
  <2> SUFFICES ASSUME NEW v \in 1..(n + 1) PROVE \E i \in 1..(n + 1) : q[i] = v
    OBVIOUS
  <2>1. CASE v = n + 1
    <3>1. q[k] = v
      BY <2>1, <1>a
    <3> QED BY <3>1, <1>a
  <2>2. CASE v # n + 1
    <3>1. PICK i \in 1..n : p[i] = v
      BY <2>2, <1>1 DEF OrdersOf
    <3>2. CASE i < k
      BY <3>1, <3>2, <1>c
    <3>3. CASE ~(i < k)
      <4>1. i + 1 \in 1..(n + 1) /\ i + 1 > k /\ (i + 1) - 1 = i
        BY <3>3, <1>a
      <4> HIDE DEF q
      <4>2. q[i + 1] = p[(i + 1) - 1]
        BY <4>1, <1>c
      <4> QED BY <3>1, <4>1, <4>2
    <3> QED BY <3>2, <3>3
  <2> QED BY <2>1, <2>2
<1>7. q \in OrdersOf(n + 1, values)
  <2> HIDE DEF q
  <2> QED BY <1>3, <1>4, <1>5, <1>6 DEF OrdersOf
<1> QED BY <1>7

LEMMA OrderExists ==
  ASSUME NEW n \in Nat, NEW values \in [1..n -> Int]
  PROVE  OrdersOf(n, values) # {}
<1> DEFINE T == {m \in Nat : \A vs \in [1..m -> Int] : OrdersOf(m, vs) # {}}
<1>0. \A m : m \in T <=> m \in Nat /\ \A vs \in [1..m -> Int] : OrdersOf(m, vs) # {}
  BY Zenon
<1> HIDE DEF T
<1>1. 0 \in T
  <2> SUFFICES ASSUME NEW vs \in [1..0 -> Int] PROVE OrdersOf(0, vs) # {}
    BY <1>0
  <2>1. [i \in 1..0 |-> i] \in OrdersOf(0, vs)
    BY DEF OrdersOf
  <2> QED BY <2>1
<1>2. ASSUME NEW m \in Nat, m \in T, NEW vs \in [1..(m + 1) -> Int]
      PROVE  OrdersOf(m + 1, vs) # {}
  <2> DEFINE us == [i \in 1..m |-> vs[i]]
  <2>1. us \in [1..m -> Int]
    OBVIOUS
  <2>2. OrdersOf(m, us) # {}
    <3> HIDE DEF us
    <3> QED BY <1>0, <1>2, <2>1, Zenon
  <2>3. PICK p \in OrdersOf(m, us) : TRUE
    BY <2>2
  <2>4. p \in [1..m -> 1..m] /\ \A i \in 1..m : us[p[i]] = vs[p[i]]
    BY <2>3 DEF OrdersOf
  <2>5. p \in OrdersOf(m, vs)
    <3> HIDE DEF us
    <3> QED BY <2>3, <2>4 DEF OrdersOf
  <2> QED BY <2>5, OrderInserts
<1>3. \A m \in Nat : m \in T => m + 1 \in T
  <2> SUFFICES ASSUME NEW m \in Nat, m \in T PROVE m + 1 \in T
    OBVIOUS
  <2>1. \A vs \in [1..(m + 1) -> Int] : OrdersOf(m + 1, vs) # {}
    BY <1>2, Zenon
  <2>2. m + 1 \in Nat
    OBVIOUS
  <2> QED BY <1>0, <2>1, <2>2, Zenon
<1>4. n \in T
  BY <1>1, <1>3, SetInduction
<1> QED BY <1>0, <1>4, Zenon

\* sorted() puts the values in an order of theirs.
LEMMA InOrderSorts ==
  ASSUME NEW values \in Seq(Int)
  PROVE  LET s == InOrder(values) IN
         /\ s \in Seq(Int) /\ Len(s) = Len(values)
         /\ \A i, j \in 1..Len(values) : i <= j => s[i] <= s[j]
         /\ \E p \in OrdersOf(Len(values), values) : \A i \in 1..Len(values) : s[i] = values[p[i]]
<1> DEFINE n == Len(values)
<1>1. n \in Nat /\ values \in [1..n -> Int] /\ DOMAIN values = 1..n
  OBVIOUS
<1> HIDE DEF n
<1>2. Orders(values) = OrdersOf(n, values) /\ Orders(values) # {}
  <2>1. Orders(values) = OrdersOf(n, values)
    BY <1>1, Zenon DEF Orders, OrdersOf
  <2> QED BY <1>1, <2>1, OrderExists
<1> DEFINE p == CHOOSE q \in Orders(values) : TRUE
<1>3. p \in OrdersOf(n, values) /\ InOrder(values) = [i \in 1..n |-> values[p[i]]]
  BY <1>1, <1>2 DEF InOrder
<1> HIDE DEF p
<1>4. p \in [1..n -> 1..n]
  BY <1>3 DEF OrdersOf
<1>5. InOrder(values) \in [1..n -> Int]
  BY <1>1, <1>3, <1>4
<1>6. InOrder(values) \in Seq(Int) /\ Len(InOrder(values)) = n
  BY <1>1, <1>5
<1>7. \A i \in 1..n : InOrder(values)[i] = values[p[i]] /\ values[p[i]] \in Int
  BY <1>1, <1>3, <1>4
<1>8. \A i, j \in 1..n : i <= j => InOrder(values)[i] <= InOrder(values)[j]
  <2> SUFFICES ASSUME NEW i \in 1..n, NEW j \in 1..n, i <= j
               PROVE  InOrder(values)[i] <= InOrder(values)[j]
    OBVIOUS
  <2>0. i = j \/ i < j
    BY <1>1
  <2>1. i = j \/ values[p[i]] <= values[p[j]]
    BY <1>3, <2>0 DEF OrdersOf
  <2>2. values[p[i]] \in Int /\ InOrder(values)[i] = values[p[i]]
          /\ InOrder(values)[j] = values[p[j]]
    BY <1>7
  <2> QED BY <2>1, <2>2
<1> QED BY <1>3, <1>6, <1>7, <1>8 DEF n

\* The first of the tightest windows of an ordered sequence.
LEMMA TightestIs ==
  ASSUME NEW s \in Seq(Int), NEW size \in 1..Len(s),
         \A i, j \in 1..Len(s) : i <= j => s[i] <= s[j]
  PROVE  \E f \in 1..(Len(s) - size + 1) :
           /\ Tightest(s, size) = SubSeq(s, f, f + size - 1)
           /\ \A j \in 1..(Len(s) - size + 1) :
                s[f + size - 1] - s[f] <= s[j + size - 1] - s[j]
<1> DEFINE starts == 1 .. Len(s) - size + 1
           width(i) == s[i + size - 1] - s[i]
           IsFirst(f) == \A j \in starts : width(f) < width(j) \/ (width(f) = width(j) /\ f <= j)
           T == {w \in Nat : \E i \in starts : width(i) = w}
<1>1. Len(s) \in Nat /\ size \in Nat /\ size >= 1 /\ size <= Len(s)
  OBVIOUS
<1>2. \A i \in starts : i \in Nat /\ i >= 1 /\ i \in 1..Len(s) /\ i + size - 1 \in 1..Len(s) /\ i <= i + size - 1
  BY <1>1
<1>3. \A i \in 1..Len(s) : s[i] \in Int
  OBVIOUS
<1>4. \A i \in starts : width(i) \in Nat
  <2> SUFFICES ASSUME NEW i \in starts PROVE width(i) \in Nat
    OBVIOUS
  <2>1. s[i] <= s[i + size - 1] /\ s[i] \in Int /\ s[i + size - 1] \in Int
    BY <1>2, <1>3
  <2> QED BY <2>1
<1>5. 1 \in starts
  BY <1>1
<1>6. PICK w \in T : \A v \in T : w <= v
  <2>1. width(1) \in T /\ T \in SUBSET Nat
    BY <1>4, <1>5
  <2> HIDE DEF T
  <2> QED BY <2>1, NatLeast
<1> DEFINE F == {i \in starts : width(i) = w}
<1>7. PICK f \in F : \A j \in F : f <= j
  <2>1. F # {}
    BY <1>6
  <2>2. F \in SUBSET Nat
    BY <1>2
  <2> HIDE DEF F
  <2> QED BY <2>1, <2>2, NatLeast
<1>8. f \in starts /\ IsFirst(f)
  <2> SUFFICES ASSUME NEW j \in starts
               PROVE  width(f) < width(j) \/ (width(f) = width(j) /\ f <= j)
    BY <1>7
  <2>1. width(j) \in T
    BY <1>4
  <2>2. width(f) = w /\ w <= width(j) /\ w \in Nat /\ width(j) \in Nat
    <3> HIDE DEF T, starts, width
    <3> QED BY <1>4, <1>6, <1>7, <2>1
  <2>3. width(j) = w => f <= j
    <3> HIDE DEF T, starts, width
    <3> QED BY <1>7
  <2> HIDE DEF T, starts, width
  <2> QED BY <2>2, <2>3
<1> DEFINE g == CHOOSE i \in starts : IsFirst(i)
<1>9. g \in starts /\ IsFirst(g)
  <2> HIDE DEF starts, IsFirst
  <2> QED BY <1>8
<1>10. Tightest(s, size) = SubSeq(s, g, g + size - 1)
  BY DEF Tightest
<1>11. \A j \in starts : width(g) <= width(j)
  <2> SUFFICES ASSUME NEW j \in starts PROVE width(g) <= width(j)
    OBVIOUS
  <2>1. width(g) \in Nat /\ width(j) \in Nat
    <3> HIDE DEF starts, width, g
    <3> QED BY <1>4, <1>9
  <2>2. width(g) < width(j) \/ width(g) = width(j)
    <3> HIDE DEF g
    <3> QED BY <1>9
  <2> HIDE DEF width, g, starts
  <2> QED BY <2>1, <2>2
<1> HIDE DEF g
<1> QED BY <1>9, <1>10, <1>11

\* The median of ordered values lies among them.
LEMMA MedianAmong ==
  ASSUME NEW b \in Seq(Int), Len(b) >= 1,
         \A i, j \in 1..Len(b) : i <= j => b[i] <= b[j]
  PROVE  Median(b) \in Int /\ b[1] <= Median(b) /\ Median(b) <= b[Len(b)]
<1> DEFINE n == Len(b)
           x == (n + 1) \div 2
           y == n \div 2 + 1
<1>1. n \in Nat /\ n >= 1 /\ \A i \in 1..n : b[i] \in Int
  OBVIOUS
<1>2. x \in 1..n /\ y \in 1..n /\ 1 \in 1..n /\ n \in 1..n
  <2> HIDE DEF n
  <2> QED BY <1>1
<1>3. b[1] <= b[x] /\ b[x] <= b[n] /\ b[1] <= b[y] /\ b[y] <= b[n]
  <2>1. 1 <= x /\ x <= n /\ 1 <= y /\ y <= n
    <3> HIDE DEF n, x, y
    <3> QED BY <1>1, <1>2
  <2> HIDE DEF x, y
  <2> QED BY <1>2, <2>1
<1>4. b[1] \in Int /\ b[x] \in Int /\ b[y] \in Int /\ b[n] \in Int
  <2> HIDE DEF n, x, y
  <2> QED BY <1>1, <1>2
<1>5. Median(b) = (b[x] + b[y]) \div 2
  BY DEF Median
<1> HIDE DEF x, y
<1> QED BY <1>3, <1>4, <1>5

\* The tightest values are within the tolerance exactly when some of them agree.
LEMMA BestSubsetAgrees ==
  ASSUME NEW values \in Seq(Int), Samples <= Len(values)
  PROVE  LET b == BestSubset(values, Samples) IN
         /\ b \in Seq(Int) /\ Len(b) = Samples
         /\ \A i, j \in 1..Samples : i <= j => b[i] <= b[j]
         /\ SampleRange(b) <= Tolerance =>
              \E S \in Agreed(values) : \E i, j \in S : values[i] = b[1] /\ values[j] = b[Samples]
         /\ ~(SampleRange(b) <= Tolerance) => Agreed(values) = {}
<1> DEFINE n == Len(values)
           s == InOrder(values)
           b == BestSubset(values, Samples)
<1>1. /\ n \in Nat /\ DOMAIN values = 1..n /\ Samples \in Nat /\ Samples >= 1 /\ Samples <= n
      /\ Tolerance \in Nat /\ \A i \in 1..n : values[i] \in Int
  BY SamplesAssumption
<1>2. /\ s \in Seq(Int) /\ Len(s) = n
      /\ \A i, j \in 1..n : i <= j => s[i] <= s[j]
      /\ \E p \in OrdersOf(n, values) : \A i \in 1..n : s[i] = values[p[i]]
  BY InOrderSorts
<1> HIDE DEF n, s
<1>3. PICK f \in 1..(n - Samples + 1) :
        /\ Tightest(s, Samples) = SubSeq(s, f, f + Samples - 1)
        /\ \A j \in 1..(n - Samples + 1) :
             s[f + Samples - 1] - s[f] <= s[j + Samples - 1] - s[j]
  <2>1. Samples \in 1..Len(s)
    BY <1>1, <1>2
  <2> QED BY <1>2, <2>1, TightestIs
<1>4. PICK p \in OrdersOf(n, values) : \A i \in 1..n : s[i] = values[p[i]]
  BY <1>2
<1>5. /\ p \in [1..n -> 1..n]
      /\ \A i, j \in 1..n : i < j => p[i] # p[j]
      /\ \A k \in 1..n : \E i \in 1..n : p[i] = k
  BY <1>4 DEF OrdersOf
<1>6. b = SubSeq(s, f, f + Samples - 1)
  BY <1>3 DEF BestSubset, s
<1>7. /\ f \in Nat /\ f >= 1 /\ f + Samples - 1 \in Nat /\ f + Samples - 1 <= n
      /\ \A i \in f..(f + Samples - 1) : i \in 1..n /\ s[i] \in Int
  BY <1>1, <1>2, <1>3
<1> HIDE DEF b
<1>8. b \in Seq(Int) /\ Len(b) = Samples /\ \A i \in 1..Samples : b[i] = s[f + i - 1]
  <2>1. \A i \in f..(f + Samples - 1) : s[i] \in Int
    BY <1>7
  <2>2. /\ b \in Seq(Int) /\ Len(b) = IF f <= f + Samples - 1 THEN (f + Samples - 1) - f + 1 ELSE 0
        /\ \A i \in 1 .. (f + Samples - 1) - f + 1 : b[i] = s[f + i - 1]
    BY <1>6, <1>7, <2>1, SubSeqProperties
  <2> QED BY <1>1, <1>7, <2>2
<1>9. \A i, j \in 1..Samples : i <= j => b[i] <= b[j]
  <2> SUFFICES ASSUME NEW i \in 1..Samples, NEW j \in 1..Samples, i <= j PROVE b[i] <= b[j]
    OBVIOUS
  <2>1. f + i - 1 \in 1..n /\ f + j - 1 \in 1..n /\ f + i - 1 <= f + j - 1
    BY <1>1, <1>7
  <2> QED BY <1>2, <1>8, <2>1
<1>10. SampleRange(b) = s[f + Samples - 1] - s[f] /\ b[1] = s[f] /\ b[Samples] = s[f + Samples - 1]
  BY <1>1, <1>7, <1>8 DEF SampleRange
<1>11. ASSUME SampleRange(b) <= Tolerance
       PROVE  \E S \in Agreed(values) : \E i, j \in S : values[i] = b[1] /\ values[j] = b[Samples]
  <2> DEFINE I == f..(f + Samples - 1)
             S == {p[i] : i \in I}
             h == [i \in I |-> p[i]]
  <2>1. I \subseteq 1..n
    BY <1>7
  <2>2. S \subseteq 1..n
    BY <1>5, <2>1
  <2>3. h \in Bijection(I, S)
    <3>1. \A i, j \in I : p[i] = p[j] => i = j
      <4> SUFFICES ASSUME NEW i \in I, NEW j \in I, p[i] = p[j], i # j PROVE FALSE
        OBVIOUS
      <4>1. i \in 1..n /\ j \in 1..n /\ (i < j \/ j < i)
        BY <2>1
      <4> QED BY <4>1, <1>5
    <3>2. h \in Injection(I, S)
      <4>1. h \in [I -> S] /\ \A a, c \in I : h[a] = h[c] => a = c
        BY <3>1
      <4>2. IsInjective(h)
        BY <4>1 DEF IsInjective
      <4> HIDE DEF h, I, S
      <4> QED BY <4>1, <4>2 DEF Injection
    <3>3. h \in Surjection(I, S)
      BY DEF Surjection
    <3> QED BY <3>2, <3>3 DEF Bijection
  <2>4. Cardinality(S) = Samples
    <3>1. IsFiniteSet(I) /\ Cardinality(I) = Samples
      <4>0. f \in Int /\ f + Samples - 1 \in Int
        BY <1>7
      <4>1. /\ IsFiniteSet(I)
            /\ Cardinality(I) = IF f > f + Samples - 1 THEN 0 ELSE (f + Samples - 1) - f + 1
        BY <4>0, FS_Interval
      <4> QED BY <1>1, <1>7, <4>1
    <3>2. ExistsBijection(I, S)
      <4> HIDE DEF I, S, h
      <4> QED BY <2>3 DEF ExistsBijection
    <3> HIDE DEF I, S
    <3> QED BY <3>1, <3>2, FS_Bijection
  <2>5. \A i, j \in S : values[i] - values[j] <= Tolerance
    <3> SUFFICES ASSUME NEW i \in I, NEW j \in I PROVE values[p[i]] - values[p[j]] <= Tolerance
      OBVIOUS
    <3>1. i \in 1..n /\ j \in 1..n /\ values[p[i]] = s[i] /\ values[p[j]] = s[j]
      BY <1>4, <2>1
    <3>2. s[i] <= s[f + Samples - 1] /\ s[f] <= s[j]
      <4>1. f \in 1..n /\ f + Samples - 1 \in 1..n /\ f <= j /\ i <= f + Samples - 1
        BY <1>7, <2>1
      <4> QED BY <1>2, <3>1, <4>1
    <3>3. s[i] \in Int /\ s[j] \in Int /\ s[f] \in Int /\ s[f + Samples - 1] \in Int
      BY <1>1, <1>7
    <3>4. s[f + Samples - 1] - s[f] <= Tolerance
      BY <1>10, <1>11
    <3>5. s[i] - s[j] <= Tolerance
      <4> DEFINE x == s[i] y == s[j] lo == s[f] hi == s[f + Samples - 1]
      <4>1. x \in Int /\ y \in Int /\ lo \in Int /\ hi \in Int /\ Tolerance \in Int
        BY <1>1, <3>3
      <4>2. lo <= y /\ x <= hi /\ hi - lo <= Tolerance
        BY <3>2, <3>4
      <4> HIDE DEF x, y, lo, hi
      <4>3. x - y <= Tolerance
        BY <4>1, <4>2, WithinRange
      <4> QED BY <4>3 DEF x, y
    <3> QED BY <3>1, <3>5
  <2>6. S \in Agreed(values)
    <3> HIDE DEF S
    <3> QED BY <1>1, <2>2, <2>4, <2>5 DEF Agreed
  <2>7. p[f] \in S /\ p[f + Samples - 1] \in S
    <3>1. f \in I /\ f + Samples - 1 \in I
      BY <1>1, <1>7
    <3> HIDE DEF I
    <3> QED BY <3>1
  <2>8. values[p[f]] = b[1] /\ values[p[f + Samples - 1]] = b[Samples]
    BY <1>1, <1>4, <1>7, <1>10
  <2> QED BY <2>6, <2>7, <2>8
<1>12. ASSUME NEW S \in Agreed(values)
       PROVE  SampleRange(b) <= Tolerance
  <2>1. S \subseteq 1..n /\ Cardinality(S) = Samples /\ \A i, j \in S : values[i] - values[j] <= Tolerance
    BY <1>1 DEF Agreed
  <2> DEFINE K == {k \in 1..n : p[k] \in S}
             h == [k \in K |-> p[k]]
  <2>2. IsFiniteSet(1..n) /\ IsFiniteSet(S) /\ IsFiniteSet(K)
    <3>1. IsFiniteSet(1..n)
      BY <1>1, FS_Interval
    <3> QED BY <2>1, <3>1, FS_Subset
  <2>3. Cardinality(S) <= Cardinality(K)
    <3>1. h \in Surjection(K, S)
      BY <1>5, <2>1 DEF Surjection
    <3> HIDE DEF h, K
    <3> QED BY <2>2, <3>1, FS_Surjection
  <2>4. K # {}
    <3>1. S # {}
      <4>1. Cardinality({}) = 0 /\ Cardinality(S) # 0
        BY <1>1, <2>1, FS_EmptySet
      <4> QED BY <4>1
    <3>2. PICK v \in S : TRUE
      BY <3>1
    <3>3. PICK i \in 1..n : p[i] = v
      BY <1>5, <2>1, <3>2
    <3> QED BY <3>3
  <2>5. PICK lo \in K : \A k \in K : lo <= k
    <3>1. K \in SUBSET Nat
      OBVIOUS
    <3> HIDE DEF K
    <3> QED BY <2>4, <3>1, NatLeast
  <2>6. PICK hi \in K : hi >= lo + Samples - 1
    <3> SUFFICES ASSUME \A k \in K : k < lo + Samples - 1 PROVE FALSE
      BY <1>1, <2>5
    <3>1. K \in SUBSET (lo..(lo + Samples - 2))
      BY <1>1, <2>5
    <3>2. /\ IsFiniteSet(lo..(lo + Samples - 2))
          /\ Cardinality(lo..(lo + Samples - 2)) <= Samples - 1
      <4>1. lo \in Int /\ lo + Samples - 2 \in Int
        BY <1>1, <2>5
      <4>2. /\ IsFiniteSet(lo..(lo + Samples - 2))
            /\ Cardinality(lo..(lo + Samples - 2)) =
                 IF lo > lo + Samples - 2 THEN 0 ELSE (lo + Samples - 2) - lo + 1
        BY <4>1, FS_Interval
      <4> QED BY <1>1, <4>1, <4>2
    <3>3. Cardinality(K) <= Cardinality(lo..(lo + Samples - 2))
      <4> HIDE DEF K
      <4> QED BY <3>1, <3>2, FS_Subset
    <3>4. Cardinality(K) \in Nat /\ Cardinality(lo..(lo + Samples - 2)) \in Nat
      <4> HIDE DEF K
      <4> QED BY <2>2, <3>2, FS_CardinalityType
    <3> HIDE DEF K
    <3> QED BY <1>1, <2>1, <2>3, <3>2, <3>3, <3>4
  <2>7. /\ lo \in 1..n /\ hi \in 1..n /\ p[lo] \in S /\ p[hi] \in S
        /\ lo \in 1..(n - Samples + 1) /\ lo + Samples - 1 \in 1..n
    BY <1>1, <2>5, <2>6
  <2> HIDE DEF K
  <2>8. s[lo + Samples - 1] <= s[hi] /\ s[hi] - s[lo] <= Tolerance
    BY <1>2, <1>4, <2>1, <2>6, <2>7
  <2>9. s[f + Samples - 1] - s[f] <= s[lo + Samples - 1] - s[lo]
    BY <1>3, <2>7
  <2>10. /\ s[lo] \in Int /\ s[hi] \in Int /\ s[lo + Samples - 1] \in Int
         /\ s[f] \in Int /\ s[f + Samples - 1] \in Int
    BY <1>1, <1>2, <1>7, <2>7
  <2>11. s[f + Samples - 1] - s[f] <= Tolerance
    <3> DEFINE w == s[f + Samples - 1]
               v == s[f]
               x == s[lo + Samples - 1]
               y == s[lo]
               z == s[hi]
    <3>1. /\ w \in Int /\ v \in Int /\ x \in Int /\ y \in Int /\ z \in Int /\ Tolerance \in Int
          /\ w - v <= x - y /\ x <= z /\ z - y <= Tolerance
      BY <1>1, <2>8, <2>9, <2>10
    <3> HIDE DEF w, v, x, y, z
    <3>2. w - v <= Tolerance
      BY <3>1, WidthBelow
    <3> QED BY <3>2 DEF w, v
  <2> QED BY <1>10, <2>11
<1> QED BY <1>8, <1>9, <1>11, <1>12 DEF b

-----------------------------------------------------------------------------
(***************************************************************************)
(* Types.                                                                  *)
(***************************************************************************)

Sent    == {"new", "old", "stop"}
AckType == [ok : BOOLEAN, is : {"none", "new", "old"}]
Places  == {"idle", "touch", "release", "ackStep", "ackPres", "armed?", "move",
            "finish", "cleanup", "touched", "found", "failed"}
Ends    == {"none", "trigger", "no trigger", "error"}

\* The variables the MCUs, klippy and the probe share.
TypeMcus ==
  /\ queue \in [Mcus -> Seq(Sent)] /\ ack \in [Mcus -> AckType] /\ runs \subseteq Mcus
  /\ swap \in BOOLEAN /\ armed \in BOOLEAN /\ ratio \in BOOLEAN
  /\ homed \in BOOLEAN /\ basis \in {"none", "seed", "touch"}
  /\ down \in BOOLEAN /\ stale \in BOOLEAN

\* The command.
Command == [name : Commands \cup {"none"}, at : Places, seeded : BOOLEAN, retry : 0..Retries,
            end : Ends, z : Int, touches : 0..13, collected : Seq(Int)]

\* Only the touches that were found to agree can be as many as home_max_samples.
Room ==
  /\ Len(cmd.collected) <= MaxSamples
  /\ cmd.at = "found" \/ Len(cmd.collected) < MaxSamples

TypeInv == TypeMcus /\ cmd \in Command /\ Room

-----------------------------------------------------------------------------
\* Nothing else of the command changes with its place.
LEMMA GoesCmd ==
  ASSUME cmd \in Command, NEW place \in Places, Goes(place)
  PROVE  /\ cmd' \in Command /\ cmd'.at = place
         /\ cmd'.name = cmd.name /\ cmd'.seeded = cmd.seeded
         /\ cmd'.collected = cmd.collected /\ cmd'.end = cmd.end /\ cmd'.z = cmd.z
BY DEF Goes, Command

LEMMA IdleType ==
  /\ Idle \in Command /\ Idle.collected = <<>> /\ Idle.name = "none" /\ Idle.at = "idle"
  /\ ~Idle.seeded
BY SamplesAssumption DEF Idle, Command, Places, Ends

\* Both the aged and the stopped queue are queues.
LEMMA AgedType ==
  ASSUME NEW q \in Seq(Sent)
  PROVE  /\ Aged(q) \in Seq(Sent) /\ Len(Aged(q)) = Len(q)
         /\ \A i \in 1..Len(q) : Aged(q)[i] # "new"
<1>1. DOMAIN q = 1..Len(q) /\ Len(q) \in Nat /\ \A i \in 1..Len(q) : q[i] \in Sent
  OBVIOUS
<1>2. Aged(q) = [i \in 1..Len(q) |-> IF q[i] = "new" THEN "old" ELSE q[i]]
  BY <1>1 DEF Aged
<1>3. Aged(q) \in [1..Len(q) -> Sent]
  BY <1>1, <1>2 DEF Sent
<1>4. Aged(q) \in Seq(Sent) /\ Len(Aged(q)) = Len(q)
  BY <1>1, <1>3
<1>5. \A i \in 1..Len(q) : Aged(q)[i] # "new"
  BY <1>2
<1> QED BY <1>4, <1>5

\* A stopped queue ends with a stop, and only its last start can be awaited.
OnlyLastNew(q) == \A i \in 1..Len(q) : q[i] = "new" => i = Len(q)

LEMMA StoppedType ==
  ASSUME NEW q \in Seq(Sent)
  PROVE  /\ Stopped(q) \in Seq(Sent) /\ Stopped(q) # <<>>
         /\ Stopped(q)[Len(Stopped(q))] = "stop"
         /\ OnlyLastNew(q) => OnlyLastNew(Stopped(q))
<1>1. CASE q # <<>> /\ q[Len(q)] = "stop"
  BY <1>1 DEF Stopped
<1>2. CASE ~(q # <<>> /\ q[Len(q)] = "stop")
  <2>1. Stopped(q) = Append(Aged(q), "stop") /\ "stop" \in Sent
    BY <1>2 DEF Stopped, Sent
  <2>2. /\ Stopped(q) \in Seq(Sent) /\ Stopped(q) # <<>>
        /\ Len(Stopped(q)) = Len(q) + 1 /\ Stopped(q)[Len(q) + 1] = "stop"
        /\ \A i \in 1..Len(q) : Stopped(q)[i] = Aged(q)[i]
    BY <2>1, AgedType, AppendProperties
  <2> QED BY <2>2, AgedType DEF OnlyLastNew
<1> QED BY <1>1, <1>2

-----------------------------------------------------------------------------
LEMMA Bounds ==
  /\ Retries \in Nat /\ MaxSamples \in Nat /\ MaxSamples > 0
  /\ <<>> \in Seq(Int) /\ <<>> \in Seq(Sent) /\ Len(<<>>) = 0
BY SamplesAssumption

\* The parts of a step that several actions take.
LEMMA DisarmsType ==
  ASSUME TypeMcus, Disarms
  PROVE  queue' \in [Mcus -> Seq(Sent)] /\ armed' \in BOOLEAN
BY StoppedType DEF TypeMcus, Disarms

LEMMA StartsType ==
  ASSUME TypeMcus, NEW m \in Mcus, Starts(m)
  PROVE  queue' \in [Mcus -> Seq(Sent)] /\ ack' \in [Mcus -> AckType]
<1>1. Append(queue[m], "new") \in Seq(Sent)
  BY AppendProperties DEF TypeMcus, Sent
<1> QED BY <1>1 DEF TypeMcus, Starts, AckType, NoAck

LEMMA GoesType ==
  ASSUME TypeInv, cmd.at # "found", NEW place \in Places, Goes(place)
  PROVE  cmd' \in Command /\ Room'
BY GoesCmd DEF TypeInv, Room

\* A command that begins.
LEMMA BeganIs ==
  ASSUME NEW name \in Commands
  PROVE  /\ Began(name) \in Command /\ Began(name).name = name /\ Began(name).at = "touch"
         /\ ~Began(name).seeded /\ Began(name).collected = <<>>
BY IdleType DEF Began, Command, Places

LEMMA IdleKeepsType ==
  ASSUME cmd' = Idle
  PROVE  cmd' \in Command /\ Room'
BY IdleType, SamplesAssumption DEF Room

LEMMA McusType ==
  ASSUME TypeInv, NEW m \in Mcus, McuStarts(m) \/ McuStops(m)
  PROVE  TypeInv'
<1>1. UNCHANGED cmd /\ queue' = [queue EXCEPT ![m] = Tail(@)] /\ queue[m] # <<>>
  BY DEF McuStarts, McuStops
<1>2. queue' \in [Mcus -> Seq(Sent)]
  BY <1>1, HeadTailProperties DEF TypeInv, TypeMcus
<1>3. CASE McuStarts(m)
  <2>1. \A ok \in BOOLEAN : [ok |-> ok, is |-> Head(queue[m])] \in AckType
    BY <1>3 DEF McuStarts, AckType
  <2>2. ack' \in [Mcus -> AckType] /\ runs' \subseteq Mcus
    BY <1>3, <2>1 DEF McuStarts, TypeInv, TypeMcus
  <2> QED BY <1>1, <1>2, <1>3, <2>2
     DEF McuStarts, TypeInv, TypeMcus, Room, probe, zaxis
<1>4. CASE McuStops(m)
  BY <1>1, <1>2, <1>4
  DEF McuStops, TypeInv, TypeMcus, Room, AckType, probe, zaxis
<1> QED BY <1>3, <1>4

\* The last values of a sequence.
LEMMA LastOfType ==
  ASSUME NEW n \in Nat, NEW q \in Seq(Int)
  PROVE  LastOf(n, q) \in Seq(Int)
<1> DEFINE a == IF Len(q) > n THEN Len(q) - n + 1 ELSE 1
<1>1. a \in Int /\ Len(q) \in Int /\ a >= 1
  OBVIOUS
<1>2. \A i \in a..Len(q) : q[i] \in Int
  BY <1>1
<1> HIDE DEF a
<1> QED BY <1>1, <1>2, SubSeqProperties DEF LastOf, a

\* What a step of _multi_sample_probe_z does: the touches agree, or another follows,
\* or there have been too many.
Window(q) == LastOf(Samples + MaxNoisy, q)

LEMMA NextTouchIs ==
  ASSUME cmd \in Command
  PROVE  /\ NextTouch(cmd) \in Command /\ NextTouch(cmd).at = "touch"
         /\ NextTouch(cmd).name = cmd.name /\ NextTouch(cmd).seeded = cmd.seeded
         /\ NextTouch(cmd).collected = cmd.collected
<1>1. 0 \in 0..Retries /\ 0 \in Int /\ "none" \in Ends /\ "touch" \in Places
  BY SamplesAssumption DEF Ends, Places
<1> QED BY <1>1 DEF NextTouch, Command

LEMMA SampledIs ==
  ASSUME TypeInv, Sampled
  PROVE  /\ cmd' \in Command /\ Room' /\ cmd'.name = cmd.name /\ cmd'.seeded = cmd.seeded
         /\ \/ /\ cmd'.at = "found"
               /\ \E S \in Agreed(Window(cmd'.collected)) : \E i, j \in S :
                    /\ Window(cmd'.collected)[i] <= cmd'.z
                    /\ cmd'.z <= Window(cmd'.collected)[j]
            \/ cmd'.at = "touch" /\ Agreed(Window(cmd'.collected)) = {}
            \/ cmd'.at = "failed" /\ cmd'.collected = cmd.collected
<1> DEFINE collected == Append(cmd.collected, cmd.z)
           window    == LastOf(Samples + MaxNoisy, collected)
           best      == BestSubset(window, Samples)
           found     == Len(window) >= Samples /\ SampleRange(best) <= Tolerance
<1>1. /\ At("touched")
      /\ cmd' = IF found
                THEN [cmd EXCEPT !.at = "found", !.collected = collected, !.z = Median(best)]
                ELSE IF Len(collected) < MaxSamples
                THEN [NextTouch(cmd) EXCEPT !.collected = collected]
                ELSE [cmd EXCEPT !.at = "failed"]
  BY DEF Sampled
<1>2. /\ cmd \in Command /\ Len(cmd.collected) < MaxSamples /\ cmd.at = "touched"
      /\ cmd.collected \in Seq(Int) /\ cmd.z \in Int
  BY <1>1 DEF TypeInv, Room, At, Command
<1>3. collected \in Seq(Int) /\ Len(collected) <= MaxSamples /\ window \in Seq(Int)
  <2>1. collected \in Seq(Int) /\ Len(collected) = Len(cmd.collected) + 1
    BY <1>2
  <2>2. Samples + MaxNoisy \in Nat
    BY SamplesAssumption
  <2> HIDE DEF collected
  <2> QED BY <1>2, <2>1, <2>2, LastOfType, SamplesAssumption
<1> HIDE DEF collected
<1>4. CASE found
  <2>1. /\ best \in Seq(Int) /\ Len(best) = Samples
        /\ \A i, j \in 1..Samples : i <= j => best[i] <= best[j]
        /\ \E S \in Agreed(window) : \E i, j \in S : window[i] = best[1] /\ window[j] = best[Samples]
    <3> HIDE DEF window
    <3> QED BY <1>3, <1>4, BestSubsetAgrees
  <2>2. Median(best) \in Int /\ best[1] <= Median(best) /\ Median(best) <= best[Samples]
    <3> HIDE DEF best
    <3> QED BY <2>1, MedianAmong, SamplesAssumption
  <2>3. cmd' = [cmd EXCEPT !.at = "found", !.collected = collected, !.z = Median(best)]
    BY <1>1, <1>4
  <2> HIDE DEF found, best, window
  <2>4. /\ cmd' \in Command /\ cmd'.name = cmd.name /\ cmd'.seeded = cmd.seeded
        /\ cmd'.at = "found" /\ cmd'.collected = collected /\ cmd'.z = Median(best)
    BY <1>2, <1>3, <2>2, <2>3 DEF Command, Places
  <2>5. window = Window(cmd'.collected)
    BY <2>4 DEF window, Window
  <2>6. \E S \in Agreed(window) : \E i, j \in S : window[i] <= cmd'.z /\ cmd'.z <= window[j]
    BY <2>1, <2>2, <2>4
  <2> QED BY <1>3, <2>4, <2>5, <2>6 DEF Room
<1>5. CASE ~found /\ Len(collected) < MaxSamples
  <2>1. cmd' = [NextTouch(cmd) EXCEPT !.collected = collected]
    BY <1>1, <1>5
  <2>2. /\ cmd' \in Command /\ cmd'.name = cmd.name /\ cmd'.seeded = cmd.seeded
        /\ cmd'.at = "touch" /\ cmd'.collected = collected
    <3> HIDE DEF found
    <3> QED BY <1>2, <1>3, <2>1, NextTouchIs DEF Command
  <2>3. ASSUME Len(window) >= Samples
        PROVE  Agreed(window) = {}
    <3> HIDE DEF window
    <3> QED BY <1>3, <1>5, <2>3, BestSubsetAgrees
  <2>4. ASSUME ~(Len(window) >= Samples)
        PROVE  Agreed(window) = {}
    <3> SUFFICES ASSUME NEW S \in Agreed(window) PROVE FALSE
      OBVIOUS
    <3> HIDE DEF window, found
    <3>1. S \subseteq 1..Len(window) /\ Cardinality(S) = Samples
      BY <1>3 DEF Agreed
    <3>2. Len(window) \in Nat
      BY <1>3
    <3>3. IsFiniteSet(1..Len(window)) /\ Cardinality(1..Len(window)) = Len(window)
      <4> DEFINE n == Len(window)
      <4> HIDE DEF n
      <4>1. n \in Nat
        BY <3>2 DEF n
      <4>2. IsFiniteSet(1..n) /\ Cardinality(1..n) = n
        BY <4>1, FS_Interval
      <4> QED BY <4>2 DEF n
    <3>4. Cardinality(S) <= Len(window)
      BY <3>1, <3>3, FS_Subset
    <3> QED BY <2>4, <3>1, <3>2, <3>4, SamplesAssumption
  <2> HIDE DEF found
  <2>5. Agreed(window) = {}
    BY <2>3, <2>4
  <2> QED BY <1>3, <1>5, <2>2, <2>5 DEF Room, Window
<1>6. CASE ~found /\ ~(Len(collected) < MaxSamples)
  <2> HIDE DEF found
  <2>1. cmd' = [cmd EXCEPT !.at = "failed"]
    BY <1>1, <1>6
  <2>2. /\ cmd' \in Command /\ cmd'.name = cmd.name /\ cmd'.seeded = cmd.seeded
        /\ cmd'.at = "failed" /\ cmd'.collected = cmd.collected
    BY <1>2, <2>1 DEF Command, Places
  <2>3. Room'
    BY <1>2, <2>2, SamplesAssumption DEF TypeInv, Room
  <2> QED BY <2>2, <2>3
<1> QED BY <1>4, <1>5, <1>6

-----------------------------------------------------------------------------
\* A touch.
LEMMA TouchType ==
  ASSUME TypeInv,
         \/ TouchBegins \/ Released \/ Arms \/ Moves \/ Finishes \/ CleansUp
         \/ \E m \in Mcus : Acknowledged(m) \/ NotAcknowledged(m)
  PROVE  TypeInv'
<1> USE DEF TypeInv, At, probe, zaxis
<1>1. CASE TouchBegins
  <2>1. cmd' \in Command /\ Room'
    BY <1>1, GoesType DEF TouchBegins, Places
  <2>2. queue' \in [Mcus -> Seq(Sent)] /\ armed' \in BOOLEAN
    BY <1>1, DisarmsType DEF TouchBegins, TypeMcus
  <2> QED BY <1>1, <2>1, <2>2 DEF TouchBegins, TypeMcus
<1>2. CASE Released
  <2>1. cmd' \in Command /\ Room'
    BY <1>2, GoesType DEF Released, Places
  <2>2. queue' \in [Mcus -> Seq(Sent)] /\ ack' \in [Mcus -> AckType]
    BY <1>2, StartsType DEF Released, TypeMcus, Mcus
  <2> QED BY <1>2, <2>1, <2>2 DEF Released, TypeMcus
<1>3. CASE Arms
  <2>1. cmd' \in Command /\ Room'
    BY <1>3, GoesType DEF Arms, Places
  <2>2. queue' \in [Mcus -> Seq(Sent)] /\ armed' \in BOOLEAN
    BY <1>3, DisarmsType DEF Arms, TypeMcus
  <2> QED BY <1>3, <2>1, <2>2 DEF Arms, TypeMcus
<1>4. CASE Moves
  <2>1. cmd' \in Command /\ Room'
    <3>1. ASSUME NEW h \in Int, cmd' = [cmd EXCEPT !.at = "finish", !.end = "trigger", !.z = h]
          PROVE  cmd' \in Command /\ cmd'.collected = cmd.collected
      BY <3>1 DEF Command, Places, Ends
    <3>2. ASSUME NEW e \in Ends, cmd' = [cmd EXCEPT !.at = "finish", !.end = e]
          PROVE  cmd' \in Command /\ cmd'.collected = cmd.collected
      BY <3>2 DEF Command, Places
    <3>3. CASE Goes("failed")
      BY <1>4, <3>3, GoesType DEF Moves, Places
    <3>4. CASE ~Goes("failed")
      <4>1. cmd' \in Command /\ cmd'.collected = cmd.collected
        BY <1>4, <3>1, <3>2, <3>4, SamplesAssumption DEF Moves, Ends
      <4> QED BY <1>4, <4>1 DEF Moves, Room
    <3> QED BY <3>3, <3>4
  <2>2. queue' \in [Mcus -> Seq(Sent)] /\ armed' \in BOOLEAN /\ swap' \in BOOLEAN
    BY <1>4, DisarmsType DEF Moves, TypeMcus
  <2> QED BY <1>4, <2>1, <2>2 DEF Moves, TypeMcus
<1>5. CASE Finishes
  <2>1. cmd' \in Command /\ Room'
    BY <1>5, GoesType DEF Finishes, Places
  <2>2. queue' \in [Mcus -> Seq(Sent)] /\ armed' \in BOOLEAN
    BY <1>5, DisarmsType DEF Finishes, TypeMcus
  <2> QED BY <1>5, <2>1, <2>2 DEF Finishes, TypeMcus
<1>6. CASE CleansUp
  <2>1. CASE \E place \in {"touched", "failed"} : Goes(place)
    <3>1. cmd' \in Command /\ Room'
      BY <1>6, <2>1, GoesType DEF CleansUp, Places
    <3> QED BY <1>6, <3>1 DEF CleansUp, TypeMcus, mcus
  <2>2. CASE MayRetry /\ cmd' = [cmd EXCEPT !.at = "touch", !.retry = @ + 1, !.end = "none"]
    <3>1. cmd.retry + 1 \in 0..Retries /\ "touch" \in Places /\ "none" \in Ends
      <4>1. cmd.retry \in 0..Retries /\ cmd.retry < Retries
        BY <2>2 DEF MayRetry, Command
      <4> QED BY <4>1, Bounds DEF Places, Ends
    <3>2. cmd' \in Command /\ cmd'.collected = cmd.collected /\ cmd'.at = "touch"
      BY <2>2, <3>1 DEF Command
    <3>3. Room'
      BY <1>6, <3>2 DEF CleansUp, Room
    <3> QED BY <1>6, <3>2, <3>3 DEF CleansUp, TypeMcus, mcus
  <2> QED BY <1>6, <2>1, <2>2 DEF CleansUp
<1>7. ASSUME NEW m \in Mcus, Acknowledged(m)
      PROVE  TypeInv'
  <2>1. cmd' \in Command /\ Room'
    BY <1>7, GoesType DEF Acknowledged, Awaits, Places
  <2>2. queue' \in [Mcus -> Seq(Sent)] /\ ack' \in [Mcus -> AckType]
    BY <1>7, StartsType DEF Acknowledged, TypeMcus, Mcus
  <2>3. stale' \in BOOLEAN
    BY <1>7 DEF Acknowledged, TypeMcus
  <2> QED BY <1>7, <2>1, <2>2, <2>3 DEF Acknowledged, TypeMcus
<1>8. ASSUME NEW m \in Mcus, NotAcknowledged(m)
      PROVE  TypeInv'
  <2>1. cmd' \in Command /\ Room'
    BY <1>8, GoesType DEF NotAcknowledged, Awaits, Places
  <2>2. queue' \in [Mcus -> Seq(Sent)] /\ armed' \in BOOLEAN
    BY <1>8, DisarmsType DEF NotAcknowledged
  <2> QED BY <1>8, <2>1, <2>2 DEF NotAcknowledged, TypeMcus
<1> QED BY <1>1, <1>2, <1>3, <1>4, <1>5, <1>6, <1>7, <1>8

\* A command begins, with a seed or without, or cannot reach the place.
Begins(name, seeded) ==
  /\ cmd.at = "idle" /\ ~down /\ (seeded => ~homed)
  /\ cmd' \in Command /\ cmd'.name = name /\ cmd'.seeded = seeded
  /\ cmd'.collected = <<>> /\ cmd'.at \in {"touch", "failed"}
  /\ UNCHANGED <<mcus, probe, down, stale, late>>
  /\ \/ name = "G28" /\ ~seeded /\ homed' = TRUE /\ basis' = "seed"
     \/ /\ name \in {"PRTOUCH_HOME", "SCAN"} /\ seeded = ~homed /\ homed' = TRUE
        /\ basis' = IF homed THEN basis ELSE "seed"
     \/ name \in {"TWIST", "SCRUB"} /\ ~seeded /\ UNCHANGED zaxis

\* A command begins with Z seeded or not, and may fail at once.
LEMMA BeganAs ==
  ASSUME NEW name \in Commands, NEW seeded \in BOOLEAN,
         \/ cmd' = [Began(name) EXCEPT !.seeded = seeded]
         \/ cmd' = [Began(name) EXCEPT !.seeded = seeded, !.at = "failed"]
  PROVE  /\ cmd' \in Command /\ cmd'.name = name /\ cmd'.seeded = seeded
         /\ cmd'.at \in {"touch", "failed"} /\ cmd'.collected = <<>>
<1> DEFINE b == Began(name)
<1>1. b \in Command /\ b.name = name /\ b.at = "touch" /\ b.collected = <<>>
  BY BeganIs
<1> HIDE DEF b
<1>2. \/ cmd' = [b EXCEPT !.seeded = seeded]
      \/ cmd' = [b EXCEPT !.seeded = seeded, !.at = "failed"]
  BY DEF b
<1>3. "failed" \in Places
  BY DEF Places
<1>4. CASE cmd' = [b EXCEPT !.seeded = seeded]
  BY <1>1, <1>4 DEF Command
<1>5. CASE cmd' = [b EXCEPT !.seeded = seeded, !.at = "failed"]
  <2>1. cmd' \in Command
    BY <1>1, <1>3, <1>5 DEF Command
  <2>2. cmd'.name = name /\ cmd'.seeded = seeded /\ cmd'.at = "failed" /\ cmd'.collected = <<>>
    BY <1>1, <1>5 DEF Command
  <2> QED BY <2>1, <2>2
<1> QED BY <1>2, <1>4, <1>5

LEMMA BeginsIs ==
  ASSUME TypeInv, BeginG28 \/ BeginHome \/ BeginScan \/ BeginTwist \/ BeginScrub
  PROVE  \E name \in Commands, seeded \in BOOLEAN : Begins(name, seeded)
<1> USE DEF TypeInv, TypeMcus, At, Ready, OnlyZ, SeedsZ
<1>3. CASE BeginG28
  <2>1. "G28" \in Commands /\ Begins("G28", FALSE)
    BY <1>3, BeganIs DEF BeginG28, Begins
  <2> QED BY <2>1
<1>4. CASE BeginHome
  <2>1. "PRTOUCH_HOME" \in Commands
    BY <1>4 DEF BeginHome
  <2>2. PICK seeded \in BOOLEAN : seeded = ~homed
    OBVIOUS
  <2>3. \/ cmd' = [Began("PRTOUCH_HOME") EXCEPT !.seeded = seeded]
        \/ cmd' = [Began("PRTOUCH_HOME") EXCEPT !.seeded = seeded, !.at = "failed"]
    BY <1>4, <2>2 DEF BeginHome
  <2>4. /\ cmd' \in Command /\ cmd'.name = "PRTOUCH_HOME" /\ cmd'.seeded = seeded
        /\ cmd'.at \in {"touch", "failed"} /\ cmd'.collected = <<>>
    BY <2>1, <2>3, BeganAs
  <2>5. Begins("PRTOUCH_HOME", seeded)
    BY <1>4, <2>2, <2>4 DEF BeginHome, Begins
  <2> QED BY <2>1, <2>5
<1>5. CASE BeginScan
  <2>1. "SCAN" \in Commands
    BY <1>5 DEF BeginScan
  <2>2. PICK seeded \in BOOLEAN : seeded = ~homed
    OBVIOUS
  <2>3. cmd' = [Began("SCAN") EXCEPT !.seeded = seeded]
    BY <1>5, <2>2 DEF BeginScan
  <2>4. /\ cmd' \in Command /\ cmd'.name = "SCAN" /\ cmd'.seeded = seeded
        /\ cmd'.at \in {"touch", "failed"} /\ cmd'.collected = <<>>
    BY <2>1, <2>3, BeganAs
  <2>5. Begins("SCAN", seeded)
    BY <1>5, <2>2, <2>4 DEF BeginScan, Begins
  <2> QED BY <2>1, <2>5
<1>6. CASE BeginTwist
  <2>1. "TWIST" \in Commands /\ Begins("TWIST", FALSE)
    BY <1>6, BeganIs DEF BeginTwist, Begins
  <2> QED BY <2>1
<1>7. CASE BeginScrub
  <2>1. "SCRUB" \in Commands /\ Begins("SCRUB", FALSE)
    BY <1>7, BeganIs DEF BeginScrub, Begins
  <2> QED BY <2>1
<1> QED BY <1>3, <1>4, <1>5, <1>6, <1>7

LEMMA CommandType ==
  ASSUME TypeInv,
         \/ \E name \in Commands, seeded \in BOOLEAN : Begins(name, seeded)
         \/ Sampled \/ Homed \/ HomeZeroed \/ ScanZeroed \/ Contacted
         \/ Scrubbed \/ Fails
  PROVE  TypeInv'
<1> USE DEF TypeInv, TypeMcus, At, OnlyZ, ZFromTouch, mcus, probe, zaxis
<1>1. ASSUME NEW name \in Commands, NEW seeded \in BOOLEAN, Begins(name, seeded)
      PROVE  TypeInv'
  <2>1. Room'
    BY <1>1, Bounds DEF Begins, Room
  <2> QED BY <1>1, <2>1 DEF Begins
<1>2. CASE Sampled
  BY <1>2, SampledIs DEF Sampled
<1>3. CASE Homed
  BY <1>3, IdleKeepsType DEF Homed
<1>4. CASE HomeZeroed
  BY <1>4, IdleKeepsType DEF HomeZeroed
<1>5. CASE ScanZeroed
  BY <1>5, IdleKeepsType DEF ScanZeroed
<1>6. CASE Contacted
  <2>1. CASE cmd' = Idle
    BY <1>6, <2>1, IdleKeepsType DEF Contacted
  <2>2. CASE cmd' = [NextTouch(cmd) EXCEPT !.collected = <<>>]
    <3>1. cmd' \in Command /\ cmd'.collected = <<>>
      BY <2>2, NextTouchIs, Bounds DEF Command
    <3> QED BY <1>6, <3>1, Bounds DEF Contacted, Room
  <2> QED BY <1>6, <2>1, <2>2 DEF Contacted
<1>7. CASE Scrubbed
  <2> DEFINE n == cmd.touches + 1
  <2>1. CASE n < 14 /\ cmd' = [NextTouch(cmd) EXCEPT !.touches = n] /\ ratio' = Raised(n + 1)
    <3>1. n \in 0..13
      BY <2>1 DEF Command
    <3>2. cmd' \in Command /\ cmd'.collected = cmd.collected
      BY <2>1, <3>1, NextTouchIs DEF Command
    <3> QED BY <1>7, <2>1, <3>2 DEF Scrubbed, Room, Raised
  <2>2. CASE cmd' = Idle /\ ratio' = FALSE
    BY <1>7, <2>2, IdleKeepsType DEF Scrubbed
  <2>3. CASE cmd' = [cmd EXCEPT !.at = "failed"] /\ ratio' = FALSE
    <3>1. cmd' \in Command /\ Room'
      BY <1>7, <2>3, GoesType DEF Scrubbed, Goes, Places
    <3> QED BY <1>7, <2>3, <3>1 DEF Scrubbed
  <2> QED BY <1>7, <2>1, <2>2, <2>3 DEF Scrubbed
<1>8. CASE Fails
  <2>1. queue' \in [Mcus -> Seq(Sent)] /\ armed' \in BOOLEAN
    BY <1>8, DisarmsType DEF Fails
  <2> QED BY <1>8, <2>1, IdleKeepsType DEF Fails
<1> QED BY <1>1, <1>2, <1>3, <1>4, <1>5, <1>6, <1>7, <1>8

LEMMA OutsideType ==
  ASSUME TypeInv, Noise \/ Shutdown \/ Restart \/ MotorOff
  PROVE  TypeInv'
<1> USE DEF TypeInv, TypeMcus, Room, probe, zaxis
<1>1. CASE Noise
  BY <1>1 DEF Noise
<1>2. CASE Shutdown
  BY <1>2, Bounds DEF Shutdown
<1>3. CASE Restart
  BY <1>3 DEF Restart, AckType, NoAck
<1>4. CASE MotorOff
  BY <1>4, DisarmsType DEF MotorOff
<1> QED BY <1>1, <1>2, <1>3, <1>4

LEMMA TypeStep ==
  ASSUME TypeInv, [Next]_vars
  PROVE  TypeInv'
<1>1. CASE Next
  BY <1>1, McusType, TouchType, BeginsIs, CommandType, OutsideType DEF Next
<1>2. CASE UNCHANGED vars
  BY <1>2 DEF vars, mcus, probe, zaxis, TypeInv, TypeMcus, Room
<1> QED BY <1>1, <1>2

-----------------------------------------------------------------------------
(***************************************************************************)
(* At rest and in motion.                                                  *)
(***************************************************************************)

\* An MCU is stopped, or will be by the last thing it was sent.
Rested(m) == IF queue[m] = <<>> THEN m \notin runs ELSE queue[m][Len(queue[m])] = "stop"

\* Of a start that is awaited either the acknowledgement is there, and the MCU at work
\* unless it refused, or the start is the last thing the MCU was sent.
StartSeen(m) ==
  IF queue[m] = <<>> THEN ack[m].is = "new" /\ (ack[m].ok => m \in runs)
  ELSE queue[m][Len(queue[m])] = "new" /\ ack[m].is # "new"

RestPlaces == {"idle", "touch", "release", "cleanup", "touched", "found", "failed"}
AtMove     == {"move", "finish"}

\* Klippy and the MCUs: at any place where no touch is under way both have been
\* stopped.
QueueInv ==
  /\ \A m \in Mcus : OnlyLastNew(queue[m])
  /\ down => runs = {} /\ \A m \in Mcus : queue[m] = <<>>
  /\ cmd.at \in RestPlaces => \A m \in Mcus : Rested(m)
  /\ armed => cmd.at \in AtMove
  /\ cmd.at \in AtMove => armed \/ down

\* The step MCU was stopped before it was started, so that it can only acknowledge
\* this start.  The pressure MCU may have an older start to acknowledge.
StartInv ==
  ~down =>
    /\ cmd.at = "ackStep" =>
         /\ Rested("pres") /\ StartSeen("step")
         /\ queue["step"] # <<>> => Len(queue["step"]) = 1 /\ ack["step"].is = "none"
    /\ cmd.at \in {"ackPres", "armed?", "move"} => queue["step"] = <<>> /\ "step" \in runs
    /\ cmd.at = "ackPres" => StartSeen("pres")
    /\ cmd.at \in {"armed?", "move"} => stale \/ (queue["pres"] = <<>> /\ "pres" \in runs)

\* What a command may leave behind.
CommandInv ==
  /\ cmd.at = "idle" => cmd.name = "none"
  /\ ratio => cmd.name = "SCRUB"
  /\ cmd.seeded => cmd.name \in {"PRTOUCH_HOME", "SCAN"}
  /\ ~down /\ homed /\ basis # "touch" => cmd.seeded \/ cmd.name = "G28"

\* The touches that are kept do not agree until a height is found.
CollectedInv ==
  /\ cmd.at = "found" => \E S \in Agreed(Window(cmd.collected)) : \E i, j \in S :
                            /\ Window(cmd.collected)[i] <= cmd.z
                            /\ cmd.z <= Window(cmd.collected)[j]
  /\ cmd.at # "found" /\ cmd.collected # <<>> => Agreed(Window(cmd.collected)) = {}

\* A queue loses its head.
LEMMA TailKeeps ==
  ASSUME NEW q \in Seq(Sent), q # <<>>, OnlyLastNew(q)
  PROVE  /\ OnlyLastNew(Tail(q)) /\ Head(q) = q[1]
         /\ Len(q) = 1 <=> Tail(q) = <<>>
         /\ Tail(q) # <<>> => /\ Tail(q)[Len(Tail(q))] = q[Len(q)] /\ Head(q) # "new"
                             /\ Len(Tail(q)) = Len(q) - 1
<1> DEFINE t == Tail(q)
<1>1. /\ t \in Seq(Sent) /\ Len(t) = Len(q) - 1 /\ Len(q) \in Nat /\ Len(q) >= 1 /\ Len(t) \in Nat
      /\ \A i \in 1..Len(t) : t[i] = q[i + 1]
  BY HeadTailProperties
<1>2. Head(q) = q[1]
  OBVIOUS
<1> HIDE DEF t
<1>3. OnlyLastNew(t)
  <2> SUFFICES ASSUME NEW i \in 1..Len(t), t[i] = "new" PROVE i = Len(t)
    BY DEF OnlyLastNew
  <2>1. i + 1 \in 1..Len(q) /\ q[i + 1] = "new"
    BY <1>1
  <2>2. i + 1 = Len(q)
    BY <2>1 DEF OnlyLastNew
  <2> QED BY <1>1, <2>2
<1>4. Len(q) = 1 <=> t = <<>>
  BY <1>1
<1>5. ASSUME t # <<>> PROVE t[Len(t)] = q[Len(q)] /\ Head(q) # "new"
  <2>1. Len(t) \in 1..Len(t) /\ 1 \in 1..Len(q) /\ 1 # Len(q)
    BY <1>1, <1>4, <1>5
  <2>2. t[Len(t)] = q[Len(q)]
    BY <1>1, <2>1
  <2>3. q[1] # "new"
    BY <2>1 DEF OnlyLastNew
  <2> QED BY <1>2, <2>2, <2>3
<1> QED BY <1>1, <1>2, <1>3, <1>4, <1>5 DEF t

LEMMA DisarmsRests ==
  ASSUME TypeInv, QueueInv, Disarms, UNCHANGED <<runs, down>>
  PROVE  /\ \A m \in Mcus : OnlyLastNew(queue'[m]) /\ Rested(m)'
         /\ down => \A m \in Mcus : queue'[m] = <<>>
         /\ ~armed'
<1> USE DEF TypeInv, TypeMcus, QueueInv
<1>1. CASE down
  BY <1>1 DEF Disarms, Rested
<1>2. CASE ~down
  BY <1>2, StoppedType DEF Disarms, Rested
<1> QED BY <1>1, <1>2

LEMMA StartsKeeps ==
  ASSUME TypeInv, QueueInv, NEW m \in Mcus, Rested(m), Starts(m), UNCHANGED <<runs, down>>
  PROVE  /\ \A k \in Mcus : OnlyLastNew(queue'[k])
         /\ down => \A k \in Mcus : queue'[k] = <<>>
         /\ ~down => /\ queue'[m] = Append(queue[m], "new") /\ queue'[m] # <<>>
                     /\ queue'[m][Len(queue'[m])] = "new" /\ ack'[m].is = "none"
         /\ \A k \in Mcus \ {m} : queue'[k] = queue[k] /\ ack'[k] = ack[k]
<1> DEFINE q == Append(queue[m], "new")
<1>1. queue[m] \in Seq(Sent) /\ OnlyLastNew(queue[m]) /\ "new" \in Sent
  BY DEF TypeInv, TypeMcus, QueueInv, Sent
<1>2. /\ q \in Seq(Sent) /\ q # <<>> /\ Len(q) = Len(queue[m]) + 1 /\ Len(queue[m]) \in Nat
      /\ \A i \in 1..Len(queue[m]) : q[i] = queue[m][i]
      /\ q[Len(queue[m]) + 1] = "new"
  BY <1>1, AppendProperties
<1>3. OnlyLastNew(q)
  <2>1. \A i \in 1..Len(queue[m]) : queue[m][i] # "new"
    BY <1>1, <1>2 DEF Rested, OnlyLastNew
  <2> HIDE DEF q
  <2> QED BY <1>2, <2>1 DEF OnlyLastNew
<1>4. queue' = [queue EXCEPT ![m] = IF down THEN @ ELSE q] /\ ack' = [ack EXCEPT ![m] = NoAck]
  BY DEF Starts
<1> HIDE DEF q
<1>5. queue \in [Mcus -> Seq(Sent)] /\ ack \in [Mcus -> AckType] /\ NoAck.is = "none"
  BY DEF TypeInv, TypeMcus, NoAck
<1>6. CASE down
  BY <1>4, <1>5, <1>6 DEF QueueInv
<1>7. CASE ~down
  <2>1. q[Len(q)] = "new"
    BY <1>2
  <2> QED BY <1>2, <1>3, <1>4, <1>5, <1>7, <2>1 DEF QueueInv, q
<1> QED BY <1>6, <1>7

\* An MCU does the first thing it was sent.
LEMMA McuDoes ==
  ASSUME TypeInv, QueueInv, NEW m \in Mcus, McuStarts(m) \/ McuStops(m)
  PROVE  /\ queue' = [queue EXCEPT ![m] = Tail(@)] /\ queue[m] # <<>> /\ queue[m] \in Seq(Sent)
         /\ OnlyLastNew(Tail(queue[m])) /\ Head(queue[m]) = queue[m][1]
         /\ Len(queue[m]) = 1 <=> Tail(queue[m]) = <<>>
         /\ Tail(queue[m]) # <<>> =>
              /\ Tail(queue[m])[Len(Tail(queue[m]))] = queue[m][Len(queue[m])]
              /\ Head(queue[m]) # "new"
         /\ ~down /\ UNCHANGED <<cmd, armed, down, stale>>
<1>1. /\ queue[m] # <<>> /\ queue[m] \in Seq(Sent) /\ OnlyLastNew(queue[m])
      /\ queue' = [queue EXCEPT ![m] = Tail(@)] /\ ~down /\ UNCHANGED <<cmd, armed, down, stale>>
  BY DEF McuStarts, McuStops, QueueInv, probe, TypeInv, TypeMcus
<1> QED BY <1>1, TailKeeps

LEMMA RestedKept ==
  ASSUME TypeInv, QueueInv, NEW m \in Mcus, McuStarts(m) \/ McuStops(m),
         NEW k \in Mcus, Rested(k)
  PROVE  Rested(k)'
<1> USE DEF TypeInv, TypeMcus
<1>1. CASE k # m
  BY <1>1, McuDoes DEF Rested, McuStarts, McuStops
<1>2. CASE k = m /\ Tail(queue[m]) # <<>>
  BY <1>2, McuDoes DEF Rested
<1>3. CASE k = m /\ Tail(queue[m]) = <<>>
  <2>1. Head(queue[m]) = "stop"
    BY <1>3, McuDoes DEF Rested
  <2> QED BY <1>3, <2>1, McuDoes DEF Rested, McuStarts, McuStops
<1> QED BY <1>1, <1>2, <1>3

LEMMA QueueMcus ==
  ASSUME TypeInv, QueueInv, NEW m \in Mcus, McuStarts(m) \/ McuStops(m)
  PROVE  QueueInv'
<1>1. \A k \in Mcus : OnlyLastNew(queue'[k])
  BY McuDoes DEF QueueInv, TypeInv, TypeMcus
<1> QED BY <1>1, McuDoes, RestedKept DEF QueueInv

LEMMA QueueTouch ==
  ASSUME TypeInv, QueueInv,
         \/ TouchBegins \/ Released \/ Arms \/ Moves \/ Finishes \/ CleansUp
  PROVE  QueueInv'
<1> USE DEF TypeInv, At, RestPlaces, AtMove, probe, zaxis
<1>1. CASE TouchBegins
  <2>1. cmd'.at \in {"release", "failed"} /\ cmd.at = "touch"
    BY <1>1, GoesCmd DEF TouchBegins, Places
  <2>2. CASE homed
    BY <1>1, <2>1, <2>2, DisarmsRests DEF TouchBegins, QueueInv
  <2>3. CASE ~homed
    BY <1>1, <2>1, <2>3 DEF TouchBegins, QueueInv, Rested
  <2> QED BY <2>2, <2>3
<1>2. CASE Released
  <2>1. cmd.at = "release" /\ UNCHANGED <<runs, down, armed>> /\ \A m \in Mcus : Rested(m)
    BY <1>2 DEF Released, QueueInv
  <2>2. CASE Goes("failed")
    <3>1. cmd'.at = "failed" /\ UNCHANGED queue
      BY <1>2, <2>2, GoesCmd DEF Released, Places
    <3> QED BY <2>1, <3>1 DEF QueueInv, Rested
  <2>3. CASE Starts("step") /\ Goes("ackStep")
    <3>1. cmd'.at = "ackStep"
      BY <2>3, GoesCmd DEF Places
    <3>2. "step" \in Mcus
      BY DEF Mcus
    <3> QED BY <2>1, <2>3, <3>1, <3>2, StartsKeeps DEF QueueInv
  <2> QED BY <1>2, <2>2, <2>3 DEF Released
<1>3. CASE Arms
  <2>1. cmd.at = "armed?" /\ UNCHANGED <<runs, down>>
    BY <1>3 DEF Arms
  <2>2. CASE Goes("failed")
    <3>1. cmd'.at = "failed" /\ Disarms
      BY <1>3, <2>2, GoesCmd DEF Arms, Places
    <3> QED BY <2>1, <3>1, DisarmsRests DEF QueueInv
  <2>3. CASE armed' = TRUE /\ Goes("move") /\ UNCHANGED queue
    <3>1. cmd'.at = "move"
      BY <2>3, GoesCmd DEF Places
    <3> QED BY <2>1, <2>3, <3>1 DEF QueueInv
  <2> QED BY <1>3, <2>2, <2>3 DEF Arms
<1>4. CASE Moves
  <2>1. cmd.at = "move" /\ UNCHANGED <<runs, down>>
    BY <1>4 DEF Moves
  <2>2. CASE Goes("failed") /\ down
    <3>1. cmd'.at = "failed" /\ (Disarms \/ (~armed /\ UNCHANGED <<queue, armed>>))
      BY <1>4, <2>2, GoesCmd DEF Moves, Places, Command
    <3>2. CASE Disarms
      BY <2>1, <3>1, <3>2, DisarmsRests DEF QueueInv
    <3>3. CASE ~armed /\ UNCHANGED <<queue, armed>>
      BY <2>1, <2>2, <3>1, <3>3 DEF QueueInv, Rested
    <3> QED BY <3>1, <3>2, <3>3
  <2>3. CASE cmd'.at = "finish" /\ UNCHANGED <<queue, armed>>
    BY <2>1, <2>3 DEF QueueInv
  <2>4. (Goes("failed") /\ down) \/ (cmd'.at = "finish" /\ UNCHANGED <<queue, armed>>)
    BY <1>4 DEF Moves, Command
  <2> QED BY <2>2, <2>3, <2>4
<1>5. CASE Finishes
  <2>1. cmd.at = "finish" /\ UNCHANGED <<runs, down>>
    BY <1>5 DEF Finishes
  <2>2. CASE armed
    <3>1. cmd'.at = "cleanup" /\ Disarms
      BY <1>5, <2>2, GoesCmd DEF Finishes, Places
    <3> QED BY <2>1, <3>1, DisarmsRests DEF QueueInv
  <2>3. CASE ~armed
    <3>1. cmd'.at = "failed" /\ UNCHANGED <<queue, armed>>
      BY <1>5, <2>3, GoesCmd DEF Finishes, Places
    <3> QED BY <2>1, <2>3, <3>1 DEF QueueInv, Rested
  <2> QED BY <2>2, <2>3
<1>6. CASE CleansUp
  <2>1. cmd.at = "cleanup" /\ cmd'.at \in {"touched", "failed", "touch"}
    BY <1>6, GoesCmd DEF CleansUp, Places, Command
  <2> QED BY <1>6, <2>1 DEF CleansUp, QueueInv, Rested, mcus
<1> QED BY <1>1, <1>2, <1>3, <1>4, <1>5, <1>6

LEMMA QueueAcks ==
  ASSUME TypeInv, QueueInv, StartInv, NEW m \in Mcus, Acknowledged(m) \/ NotAcknowledged(m)
  PROVE  QueueInv'
<1> USE DEF TypeInv, At, RestPlaces, AtMove, probe, zaxis
<1>1. cmd.at \in {"ackStep", "ackPres"} /\ UNCHANGED <<runs, down>>
  BY DEF Acknowledged, NotAcknowledged, Awaits
<1>2. CASE Acknowledged(m)
  <2>1. CASE m = "step"
    <3>1. cmd.at = "ackStep" /\ cmd'.at = "ackPres" /\ Starts("pres") /\ UNCHANGED armed
      BY <1>2, <2>1, GoesCmd DEF Acknowledged, Awaits, Places
    <3>2. Rested("pres") /\ "pres" \in Mcus
      BY <3>1 DEF StartInv, QueueInv, Rested, Mcus
    <3> QED BY <1>1, <3>1, <3>2, StartsKeeps DEF QueueInv
  <2>2. CASE m # "step"
    <3>1. cmd'.at = "armed?" /\ UNCHANGED <<queue, armed>>
      BY <1>2, <2>2, GoesCmd DEF Acknowledged, Places
    <3> QED BY <1>1, <3>1 DEF QueueInv
  <2> QED BY <2>1, <2>2
<1>3. CASE NotAcknowledged(m)
  <2>1. cmd'.at = "failed" /\ Disarms
    BY <1>3, GoesCmd DEF NotAcknowledged, Places
  <2> QED BY <1>1, <2>1, DisarmsRests DEF QueueInv
<1> QED BY <1>2, <1>3

LEMMA QueueCommand ==
  ASSUME TypeInv, QueueInv,
         \/ \E name \in Commands, seeded \in BOOLEAN : Begins(name, seeded)
         \/ Sampled \/ Homed \/ HomeZeroed \/ ScanZeroed \/ Contacted
         \/ Scrubbed \/ Fails
  PROVE  QueueInv'
<1> USE DEF TypeInv, TypeMcus, At, OnlyZ, ZFromTouch, mcus, probe, zaxis, RestPlaces, AtMove
<1>1. CASE Fails
  <2>1. cmd.at = "failed" /\ cmd'.at = "idle" /\ UNCHANGED <<runs, down>>
    BY <1>1, IdleType DEF Fails
  <2>2. CASE Disarms
    BY <2>1, <2>2, DisarmsRests DEF QueueInv
  <2>3. CASE UNCHANGED <<queue, armed>>
    BY <2>1, <2>3 DEF QueueInv, Rested
  <2> QED BY <1>1, <2>2, <2>3 DEF Fails
<1>2. CASE ~Fails
  <2>1. cmd.at \in {"idle", "touched", "found"} /\ UNCHANGED <<queue, runs, armed, down>>
    BY <1>2 DEF Begins, Sampled, Homed, HomeZeroed, ScanZeroed, Contacted, Scrubbed
  <2>2. cmd'.at \in {"idle", "touch", "found", "failed"}
    <3>1. CASE Sampled
      BY <3>1, SampledIs
    <3>2. CASE ~Sampled
      <4>1. NextTouch(cmd).at = "touch" /\ NextTouch(cmd) \in Command /\ Idle.at = "idle"
        BY NextTouchIs, IdleType
      <4> QED BY <1>2, <3>2, <4>1 DEF Begins, Homed, HomeZeroed, ScanZeroed, Contacted, Scrubbed, Command
    <3> QED BY <3>1, <3>2
  <2> QED BY <2>1, <2>2 DEF QueueInv, Rested
<1> QED BY <1>1, <1>2

LEMMA QueueOutside ==
  ASSUME TypeInv, QueueInv, Noise \/ Shutdown \/ Restart \/ MotorOff
  PROVE  QueueInv'
<1> USE DEF TypeInv, TypeMcus, At, RestPlaces, AtMove, probe, zaxis
<1>1. CASE Noise
  BY <1>1 DEF Noise, QueueInv, Rested
<1>2. CASE Shutdown
  <2>1. \A m \in Mcus : queue'[m] = <<>> /\ OnlyLastNew(queue'[m])
    BY <1>2, Bounds DEF Shutdown, OnlyLastNew
  <2> QED BY <1>2, <2>1 DEF Shutdown, QueueInv, Rested
<1>3. CASE Restart
  BY <1>3 DEF Restart, QueueInv, Rested
<1>4. CASE MotorOff
  BY <1>4, DisarmsRests DEF MotorOff, QueueInv
<1> QED BY <1>1, <1>2, <1>3, <1>4

-----------------------------------------------------------------------------
LEMMA StartMcus ==
  ASSUME TypeInv, QueueInv, StartInv, NEW m \in Mcus, McuStarts(m) \/ McuStops(m)
  PROVE  StartInv'
<1> USE DEF TypeInv, TypeMcus, Mcus
<1>1. \A k \in Mcus \ {m} : /\ queue'[k] = queue[k] /\ ack'[k] = ack[k]
                            /\ k \in runs' <=> k \in runs
  BY McuDoes DEF McuStarts, McuStops
<1>2. ASSUME StartSeen(m) PROVE StartSeen(m)'
  <2>1. queue[m] # <<>> /\ queue[m][Len(queue[m])] = "new" /\ ack[m].is # "new"
    BY <1>2, McuDoes DEF StartSeen
  <2>2. CASE Tail(queue[m]) = <<>>
    <3>1. Head(queue[m]) = "new" /\ McuStarts(m) /\ queue'[m] = <<>>
      BY <2>1, <2>2, McuDoes DEF McuStops
    <3>2. ack'[m].is = "new" /\ (ack'[m].ok => m \in runs')
      BY <3>1 DEF McuStarts, AckType
    <3> QED BY <3>1, <3>2 DEF StartSeen
  <2>3. CASE Tail(queue[m]) # <<>>
    <3>1. /\ queue'[m] # <<>> /\ queue'[m][Len(queue'[m])] = "new"
          /\ Head(queue[m]) # "new"
      BY <2>1, <2>3, McuDoes
    <3>2. ack'[m].is # "new"
      BY <2>1, <3>1 DEF McuStarts, McuStops, AckType
    <3> QED BY <3>1, <3>2 DEF StartSeen
  <2> QED BY <2>2, <2>3
<1>3. ~down /\ UNCHANGED <<cmd, down, stale>>
  BY McuDoes
<1>4. CASE cmd.at = "ackStep"
  <2>1. /\ Rested("pres") /\ StartSeen("step")
        /\ queue["step"] # <<>> => Len(queue["step"]) = 1 /\ ack["step"].is = "none"
    BY <1>3, <1>4 DEF StartInv
  <2>2. Rested("pres")'
    BY <2>1, RestedKept
  <2>3. StartSeen("step")'
    BY <1>1, <1>2, <2>1 DEF StartSeen
  <2>4. queue'["step"] # <<>> => Len(queue'["step"]) = 1 /\ ack'["step"].is = "none"
    BY <1>1, <2>1, McuDoes
  <2> QED BY <1>3, <1>4, <2>2, <2>3, <2>4 DEF StartInv
<1>5. CASE cmd.at \in {"ackPres", "armed?", "move"}
  <2>1. queue["step"] = <<>> /\ "step" \in runs /\ m = "pres"
    BY <1>3, <1>5, McuDoes DEF StartInv
  <2>2. queue'["step"] = <<>> /\ "step" \in runs'
    BY <1>1, <2>1
  <2>3. cmd.at = "ackPres" => StartSeen("pres")'
    BY <1>2, <1>3, <2>1 DEF StartInv
  <2>4. cmd.at # "ackPres" => stale
    BY <1>3, <1>5, <2>1, McuDoes DEF StartInv
  <2> QED BY <1>3, <1>5, <2>2, <2>3, <2>4 DEF StartInv
<1> QED BY <1>3, <1>4, <1>5 DEF StartInv

LEMMA StartTouch ==
  ASSUME TypeInv, QueueInv, StartInv,
         Released \/ Arms \/ \E m \in Mcus : Acknowledged(m)
  PROVE  StartInv'
<1> USE DEF TypeInv, At, Mcus, probe, zaxis
<1>1. CASE Released
  <2>1. CASE Goes("failed")
    BY <2>1, GoesCmd DEF Places, StartInv
  <2>2. CASE LineRead /\ Starts("step") /\ Goes("ackStep")
    <3>1. cmd'.at = "ackStep" /\ UNCHANGED <<runs, down, stale>> /\ \A m \in Mcus : Rested(m)
      BY <1>1, <2>2, GoesCmd DEF Released, Places, QueueInv, RestPlaces
    <3>2. CASE ~down
      <4>1. queue["step"] = <<>>
        BY <2>2, <3>2 DEF LineRead
      <4>2. /\ queue'["step"] = Append(queue["step"], "new") /\ queue'["step"] # <<>>
            /\ queue'["step"][Len(queue'["step"])] = "new" /\ ack'["step"].is = "none"
            /\ queue'["pres"] = queue["pres"]
        BY <2>2, <3>1, <3>2, StartsKeeps
      <4>3. Len(queue'["step"]) = 1
        BY <4>1, <4>2
      <4> QED BY <3>1, <3>2, <4>2, <4>3 DEF StartInv, StartSeen, Rested
    <3> QED BY <3>1, <3>2 DEF StartInv
  <2> QED BY <1>1, <2>1, <2>2 DEF Released
<1>2. CASE Arms
  <2>1. CASE Goes("failed")
    BY <2>1, GoesCmd DEF Places, StartInv
  <2>2. CASE Goes("move") /\ UNCHANGED queue
    <3>1. cmd.at = "armed?" /\ cmd'.at = "move" /\ UNCHANGED <<runs, ack, down, stale>>
      BY <1>2, <2>2, GoesCmd DEF Arms, Places
    <3> QED BY <2>2, <3>1 DEF StartInv
  <2> QED BY <1>2, <2>1, <2>2 DEF Arms
<1>3. CASE Acknowledged("step")
  <2>1. /\ cmd.at = "ackStep" /\ cmd'.at = "ackPres" /\ Starts("pres") /\ UNCHANGED <<runs, down>>
        /\ Acked("step")
    BY <1>3, GoesCmd DEF Acknowledged, Awaits, Places
  <2>2. CASE ~down
    <3>1. /\ Rested("pres") /\ StartSeen("step")
          /\ queue["step"] # <<>> => ack["step"].is = "none"
      BY <2>1, <2>2 DEF StartInv
    <3>2. queue["step"] = <<>> /\ "step" \in runs
      BY <2>1, <3>1 DEF StartSeen, Acked
    <3>3. /\ queue'["pres"] # <<>> /\ queue'["pres"][Len(queue'["pres"])] = "new"
          /\ ack'["pres"].is = "none" /\ queue'["step"] = queue["step"]
      BY <2>1, <2>2, <3>1, StartsKeeps
    <3> QED BY <2>1, <2>2, <3>2, <3>3 DEF StartInv, StartSeen
  <2> QED BY <2>1, <2>2 DEF StartInv
<1>4. CASE Acknowledged("pres")
  <2>1. /\ cmd.at = "ackPres" /\ cmd'.at = "armed?" /\ UNCHANGED <<queue, runs, down>>
        /\ Acked("pres") /\ stale' = (stale \/ ack["pres"].is = "old")
    BY <1>4, GoesCmd DEF Acknowledged, Awaits, Places
  <2>2. CASE ~down
    <3>1. queue["step"] = <<>> /\ "step" \in runs /\ StartSeen("pres")
      BY <2>1, <2>2 DEF StartInv
    <3>2. ack["pres"].is \in {"new", "old"}
      BY <2>1 DEF Acked, TypeMcus, AckType
    <3>3. stale' \/ (queue["pres"] = <<>> /\ "pres" \in runs)
      BY <2>1, <3>1, <3>2 DEF StartSeen, Acked
    <3> QED BY <2>1, <2>2, <3>1, <3>3 DEF StartInv
  <2> QED BY <2>1, <2>2 DEF StartInv
<1> QED BY <1>1, <1>2, <1>3, <1>4

\* The other steps go to a place of which StartInv says nothing, or leave all that it
\* speaks of alone, or find klippy down.
LEMMA StartElse ==
  ASSUME TypeInv, QueueInv, StartInv,
         \/ TouchBegins \/ Moves \/ Finishes \/ CleansUp
         \/ \E m \in Mcus : NotAcknowledged(m)
         \/ \E name \in Commands, seeded \in BOOLEAN : Begins(name, seeded)
         \/ Sampled \/ Homed \/ HomeZeroed \/ ScanZeroed \/ Contacted
         \/ Scrubbed \/ Fails \/ Noise \/ Shutdown \/ Restart \/ MotorOff
  PROVE  StartInv'
<1> DEFINE Elsewhere == Places \ {"ackStep", "ackPres", "armed?", "move"}
<1>1. CASE cmd'.at \in Elsewhere
  BY <1>1 DEF StartInv, Places
<1>2. CASE TouchBegins \/ Finishes \/ \E m \in Mcus : NotAcknowledged(m)
  <2>1. \E place \in {"release", "cleanup", "failed"} : Goes(place)
    BY <1>2 DEF TouchBegins, Finishes, NotAcknowledged
  <2> QED BY <1>1, <2>1, GoesCmd DEF Places, TypeInv
<1>3. CASE Moves \/ CleansUp
  <2>1. cmd'.at \in {"finish", "failed", "touched", "touch"}
    BY <1>3 DEF Moves, CleansUp, Goes, TypeInv, Command
  <2> QED BY <1>1, <2>1 DEF Places
<1>4. CASE \E name \in Commands, seeded \in BOOLEAN : Begins(name, seeded)
  BY <1>1, <1>4 DEF Begins, Places
<1>5. CASE Sampled
  BY <1>1, <1>5, SampledIs DEF Places
<1>6. CASE Homed \/ HomeZeroed \/ ScanZeroed \/ Contacted \/ Scrubbed \/ Fails
  <2>1. NextTouch(cmd).at = "touch" /\ NextTouch(cmd) \in Command /\ Idle.at = "idle"
    BY NextTouchIs, IdleType DEF TypeInv
  <2>2. cmd'.at \in {"idle", "touch", "failed"}
    BY <1>6, <2>1 DEF Homed, HomeZeroed, ScanZeroed, Contacted, Scrubbed, Fails, ZFromTouch,
                      TypeInv, Command
  <2> QED BY <1>1, <2>2 DEF Places
<1>7. CASE Noise
  BY <1>7 DEF Noise, StartInv, StartSeen, Rested, probe, zaxis
<1>8. CASE Shutdown
  BY <1>8 DEF Shutdown, StartInv
<1>9. CASE Restart \/ MotorOff
  BY <1>1, <1>9 DEF Restart, MotorOff, At, Places
<1> QED BY <1>2, <1>3, <1>4, <1>5, <1>6, <1>7, <1>8, <1>9

-----------------------------------------------------------------------------
\* What a touch does to the command: it keeps the command's name, whether it gave a
\* seed and its touches so far, and it does not home.
LEMMA TouchKeeps ==
  ASSUME TypeInv,
         \/ TouchBegins \/ Released \/ Arms \/ Moves \/ Finishes \/ CleansUp
         \/ \E m \in Mcus : Acknowledged(m) \/ NotAcknowledged(m)
  PROVE  /\ cmd'.name = cmd.name /\ cmd'.seeded = cmd.seeded /\ cmd'.collected = cmd.collected
         /\ cmd.at \notin {"idle", "found"} /\ cmd'.at \notin {"idle", "found"}
         /\ UNCHANGED <<homed, basis, ratio, down>>
<1> USE DEF TypeInv, At, mcus, probe, zaxis
<1>1. CASE \E place \in Places \ {"idle", "found"} : Goes(place)
  <2>1. /\ cmd'.name = cmd.name /\ cmd'.seeded = cmd.seeded /\ cmd'.collected = cmd.collected
        /\ cmd'.at \notin {"idle", "found"}
    BY <1>1, GoesCmd
  <2> QED BY <2>1 DEF TouchBegins, Released, Arms, Moves, Finishes, CleansUp, Acknowledged,
                      NotAcknowledged, Awaits
<1>2. CASE Moves
  BY <1>2 DEF Moves, Goes, Command
<1>3. CASE CleansUp
  BY <1>3 DEF CleansUp, Goes, Command
<1>4. ASSUME NEW m \in Mcus, Acknowledged(m) \/ NotAcknowledged(m)
      PROVE  \E place \in Places \ {"idle", "found"} : Goes(place)
  BY <1>4 DEF Acknowledged, NotAcknowledged, Places
<1>5. ASSUME TouchBegins \/ Released \/ Arms \/ Finishes
      PROVE  \E place \in Places \ {"idle", "found"} : Goes(place)
  BY <1>5 DEF TouchBegins, Released, Arms, Finishes, Places
<1> QED BY <1>1, <1>2, <1>3, <1>4, <1>5

LEMMA CommandStep ==
  ASSUME TypeInv, CommandInv, [Next]_vars
  PROVE  CommandInv'
<1> USE DEF TypeInv, TypeMcus, At, OnlyZ, ZFromTouch, mcus, probe, zaxis
<1>1. CASE \/ TouchBegins \/ Released \/ Arms \/ Moves \/ Finishes \/ CleansUp
           \/ \E m \in Mcus : Acknowledged(m) \/ NotAcknowledged(m)
  BY <1>1, TouchKeeps DEF CommandInv
<1>2. ASSUME NEW name \in Commands, NEW seeded \in BOOLEAN, Begins(name, seeded)
      PROVE  CommandInv'
  <2>1. /\ cmd.at = "idle" /\ ~down /\ ~down' /\ UNCHANGED ratio /\ cmd'.at # "idle"
        /\ cmd'.name = name /\ cmd'.seeded = seeded
    BY <1>2 DEF Begins
  <2>2. ~ratio /\ ~cmd.seeded /\ cmd.name = "none" /\ (homed => basis = "touch")
    BY <2>1 DEF CommandInv
  <2>3. seeded => name \in {"PRTOUCH_HOME", "SCAN"}
    BY <1>2 DEF Begins
  <2>4. homed' /\ basis' # "touch" => seeded \/ name = "G28"
    BY <1>2, <2>2 DEF Begins
  <2> QED BY <2>1, <2>2, <2>3, <2>4 DEF CommandInv
<1>3. CASE Sampled
  <2>1. /\ cmd.at = "touched" /\ cmd'.at # "idle" /\ cmd'.name = cmd.name
        /\ cmd'.seeded = cmd.seeded /\ UNCHANGED <<homed, basis, ratio, down>>
    BY <1>3, SampledIs DEF Sampled
  <2> QED BY <2>1 DEF CommandInv
<1>4. CASE Homed \/ HomeZeroed \/ ScanZeroed
  <2>1. /\ cmd' = Idle /\ basis' = "touch" /\ UNCHANGED ratio
        /\ cmd.name \in {"G28", "PRTOUCH_HOME", "SCAN"}
    BY <1>4 DEF Homed, HomeZeroed, ScanZeroed
  <2> QED BY <2>1, IdleType DEF CommandInv
<1>5. CASE Contacted
  <2>1. NextTouch(cmd) \in Command /\ NextTouch(cmd).at = "touch" /\ NextTouch(cmd).name = cmd.name
          /\ NextTouch(cmd).seeded = cmd.seeded
    BY NextTouchIs
  <2>2. cmd.name = "TWIST" /\ UNCHANGED <<homed, basis, ratio, down>>
    BY <1>5 DEF Contacted
  <2>3. \/ cmd'.at = "touch" /\ cmd'.name = cmd.name /\ cmd'.seeded = cmd.seeded
        \/ cmd' = Idle
    BY <1>5, <2>1 DEF Contacted, Command
  <2> QED BY <2>2, <2>3, IdleType DEF CommandInv
<1>6. CASE Scrubbed
  <2>1. NextTouch(cmd) \in Command /\ NextTouch(cmd).at = "touch" /\ NextTouch(cmd).name = cmd.name
          /\ NextTouch(cmd).seeded = cmd.seeded
    BY NextTouchIs
  <2>2. cmd.name = "SCRUB" /\ UNCHANGED <<homed, basis, down>>
    BY <1>6 DEF Scrubbed
  <2>3. \/ cmd'.at \in {"touch", "failed"} /\ cmd'.name = cmd.name /\ cmd'.seeded = cmd.seeded
        \/ cmd' = Idle /\ ~ratio'
    BY <1>6, <2>1 DEF Scrubbed, Command
  <2> QED BY <2>2, <2>3, IdleType DEF CommandInv
<1>7. CASE Fails
  <2>1. cmd' = Idle /\ ratio' = FALSE /\ UNCHANGED down
    BY <1>7 DEF Fails
  <2>2. ~down' /\ homed' /\ basis' # "touch" => FALSE
    BY <1>7 DEF Fails, Unhomes, CommandInv
  <2> QED BY <2>1, <2>2, IdleType DEF CommandInv
<1>8. CASE MotorOff \/ Restart
  BY <1>8 DEF MotorOff, Restart, CommandInv
<1>9. CASE Noise \/ Shutdown \/ (\E m \in Mcus : McuStarts(m) \/ McuStops(m)) \/ UNCHANGED vars
  <2>1. UNCHANGED <<cmd, homed, basis, ratio>> /\ (down' \/ UNCHANGED down)
    BY <1>9 DEF Noise, Shutdown, McuStarts, McuStops, vars
  <2> QED BY <2>1 DEF CommandInv
<1> QED BY <1>1, <1>2, <1>3, <1>4, <1>5, <1>6, <1>7, <1>8, <1>9, BeginsIs DEF Next

LEMMA CollectedStep ==
  ASSUME TypeInv, CollectedInv, [Next]_vars
  PROVE  CollectedInv'
<1> USE DEF TypeInv, At, OnlyZ, ZFromTouch
<1>1. CASE \/ TouchBegins \/ Released \/ Arms \/ Moves \/ Finishes \/ CleansUp
           \/ \E m \in Mcus : Acknowledged(m) \/ NotAcknowledged(m)
  BY <1>1, TouchKeeps DEF CollectedInv
<1>2. ASSUME NEW name \in Commands, NEW seeded \in BOOLEAN, Begins(name, seeded)
      PROVE  CollectedInv'
  BY <1>2 DEF CollectedInv, Begins
<1>3. CASE Sampled
  <2>1. cmd.at = "touched"
    BY <1>3 DEF Sampled
  <2> QED BY <1>3, <2>1, SampledIs DEF CollectedInv
<1>4. CASE Homed \/ HomeZeroed \/ ScanZeroed \/ Fails
  BY <1>4, IdleType DEF Homed, HomeZeroed, ScanZeroed, Fails, CollectedInv
<1>5. CASE Contacted
  <2>1. cmd'.at # "found" /\ cmd'.collected = <<>>
    BY <1>5, NextTouchIs, IdleType DEF Contacted, Command
  <2> QED BY <2>1 DEF CollectedInv
<1>6. CASE Scrubbed
  <2>1. cmd.at = "touched" /\ cmd'.at # "found" /\ cmd'.collected \in {cmd.collected, <<>>}
    BY <1>6, NextTouchIs, IdleType DEF Scrubbed, Command
  <2> QED BY <2>1 DEF CollectedInv
<1>7. CASE UNCHANGED cmd
  BY <1>7 DEF CollectedInv
<1> QED BY <1>1, <1>2, <1>3, <1>4, <1>5, <1>6, <1>7, BeginsIs
        DEF Next, McuStarts, McuStops, Noise, Shutdown, Restart, MotorOff, vars

-----------------------------------------------------------------------------
IInv == TypeInv /\ QueueInv /\ StartInv /\ CommandInv /\ CollectedInv

LEMMA InitInv == Init => IInv
<1> SUFFICES ASSUME Init PROVE IInv
  OBVIOUS
<1>1. TypeInv
  <2>1. TypeMcus
    BY Bounds DEF Init, TypeMcus, AckType, NoAck
  <2>2. cmd \in Command /\ Room
    BY IdleType, SamplesAssumption DEF Init, Room
  <2> QED BY <2>1, <2>2 DEF TypeInv
<1>2. QueueInv
  BY IdleType, Bounds DEF Init, QueueInv, OnlyLastNew, Rested, AtMove
<1>3. StartInv /\ CommandInv /\ CollectedInv
  BY IdleType DEF Init, StartInv, CommandInv, CollectedInv
<1> QED BY <1>1, <1>2, <1>3 DEF IInv

LEMMA StepInv ==
  ASSUME IInv, [Next]_vars
  PROVE  IInv'
<1> USE DEF IInv
<1>1. CASE UNCHANGED vars
  <2>1. UNCHANGED <<queue, ack, runs, cmd, armed, down, stale>>
    BY <1>1 DEF vars, mcus, probe
  <2>2. QueueInv' /\ StartInv'
    BY <2>1 DEF QueueInv, StartInv, Rested, StartSeen
  <2> QED BY <2>2, TypeStep, CommandStep, CollectedStep
<1>2. CASE Next
  <2>1. QueueInv'
    BY <1>2, QueueMcus, QueueTouch, QueueAcks, BeginsIs, QueueCommand, QueueOutside DEF Next
  <2>2. StartInv'
    BY <1>2, StartMcus, StartTouch, BeginsIs, StartElse DEF Next
  <2> QED BY <2>1, <2>2, TypeStep, CommandStep, CollectedStep
<1> QED BY <1>1, <1>2

\* The types hold of every behaviour, and so do the limits of the samples, of the
\* retries and of the scrub's touches.
THEOREM TypeCorrect == Spec => []TypeOK
<1>1. TypeInv => TypeOK
  <2> SUFFICES ASSUME TypeInv PROVE TypeOK
    OBVIOUS
  <2>1. \A m \in Mcus : /\ \A i \in DOMAIN queue[m] : queue[m][i] \in {"new", "old", "stop"}
                       /\ ack[m] \in [ok : BOOLEAN, is : {"none", "new", "old"}]
    BY DEF TypeInv, TypeMcus, AckType, Sent
  <2> QED BY <2>1 DEF TypeInv, TypeMcus, Room, Command, Places, Ends, TypeOK
<1>2. IInv => TypeInv
  BY DEF IInv
<1> QED BY <1>1, <1>2, InitInv, StepInv, PTL DEF Spec

\* However touches fail, overlap with late acknowledgements or are cut short, between
\* commands klippy counts nothing as armed, each MCU is stopped or is about to be,
\* and the threshold is the normal one.
THEOREM RestIsDisarmed == Spec => []DisarmedAtRest
<1>1. IInv => DisarmedAtRest
  BY DEF IInv, QueueInv, CommandInv, DisarmedAtRest, Rested, At, RestPlaces, AtMove
<1> QED BY <1>1, InitInv, StepInv, PTL DEF Spec

\* The nozzle moves only when both MCUs are at work, or one acknowledged an earlier
\* start, or klippy was shut down.
THEOREM MovesArmed == Spec => []MotionArmed
<1>1. IInv => MotionArmed
  BY DEF IInv, TypeInv, TypeMcus, StartInv, MotionArmed, At, Mcus
<1> QED BY <1>1, InitInv, StepInv, PTL DEF Spec

\* At rest a homed Z was homed by a touch.
THEOREM SeedForgotten == Spec => []SeedNeverKept
<1>1. IInv => SeedNeverKept
  BY DEF IInv, CommandInv, SeedNeverKept, At
<1> QED BY <1>1, InitInv, StepInv, PTL DEF Spec

\* Touches are accepted exactly when enough of the last ones agree, whatever heights
\* they found and in whatever order: the search by sorting finds such touches if
\* there are any.
THEOREM ZeroFromAgreement == Spec => []ZeroAgreed
<1>1. IInv => ZeroAgreed
  BY DEF IInv, CollectedInv, ZeroAgreed, At, Window
<1> QED BY <1>1, InitInv, StepInv, PTL DEF Spec
=============================================================================
