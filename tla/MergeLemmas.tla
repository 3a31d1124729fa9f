------------------------------- MODULE MergeLemmas -------------------------------
(***************************************************************************)
(* What the operators of MedianOps and MergeOps compute: FindMedian as a   *)
(* binary search, Sorted and Merged by counting smaller values.  The       *)
(* proofs about FindMedian, PMerge and PMergeSort rest on these facts.     *)
(***************************************************************************)
EXTENDS MedianOps, MergeOps, FiniteSetTheorems, WellFoundedInduction, TLAPS

\* The sentinels are integers, MIN<T>() below MAX<T>().
LEMMA Sentinels == MinT \in Int /\ MaxT \in Int /\ MinT < MaxT
BY SentinelAssumption DEF SentinelAssumption

USE Sentinels

\* An element read through the sentinels is a value of the type.
LEMMA AtType ==
  ASSUME NEW s \in Seq(MinT..MaxT), NEW i \in Int
  PROVE  At(s, i) \in MinT..MaxT
BY DEF At

\* Reading through the sentinels keeps a sorted span sorted.
LEMMA AtMonotone ==
  ASSUME NEW s \in Seq(MinT..MaxT), SortedSpan(s),
         NEW i \in Int, NEW j \in Int, i <= j
  PROVE  At(s, i) <= At(s, j)
<1>1. CASE i < 0
  BY <1>1, AtType DEF At
<1>2. CASE j >= Len(s)
  BY <1>2, AtType DEF At
<1>3. CASE 0 <= i /\ j < Len(s)
  <2>1. At(s, i) = s[i + 1] /\ At(s, j) = s[j + 1]
    BY <1>3 DEF At
  <2>2. i + 1 \in 1..Len(s) /\ j + 1 \in 1..Len(s) /\ i + 1 <= j + 1
    BY <1>3
  <2>. QED
    BY <2>1, <2>2 DEF SortedSpan
<1>. QED
  BY <1>1, <1>2, <1>3

\* One probe in terms of the three integers it compares: the element at i (v),
\* and its two neighbours in the other span (lo, hi).
LEMMA ProbeValues ==
  ASSUME NEW x \in Seq(MinT..MaxT), NEW y \in Seq(MinT..MaxT), NEW i \in Int,
         NEW h \in Int, h = Half(x, y)
  PROVE  /\ At(x, i) \in MinT..MaxT
         /\ At(y, h - i - 1) \in MinT..MaxT
         /\ At(y, h - i) \in MinT..MaxT
         /\ TooSmall(x, y, i) = (At(x, i) < At(y, h - i - 1))
         /\ TooLarge(x, y, i) = (At(y, h - i) < At(x, i))
         /\ Separates(x, y, i) = (/\ At(y, h - i - 1) < At(x, i)
                                  /\ At(x, i) < At(y, h - i))
<1>1. h - i - 1 \in Int /\ h - i \in Int
  OBVIOUS
<1>2. /\ At(x, i) \in MinT..MaxT
      /\ At(y, h - i - 1) \in MinT..MaxT
      /\ At(y, h - i) \in MinT..MaxT
  BY <1>1, AtType
<1>. QED
  BY <1>2 DEF TooSmall, TooLarge, Separates

\* The rank searched for is one of the union's, whichever span is called first.
LEMMA HalfRank ==
  ASSUME NEW x \in Seq(MinT..MaxT), NEW y \in Seq(MinT..MaxT)
  PROVE  /\ Half(x, y) \in Nat
         /\ Half(x, y) = Half(y, x)
         /\ Len(x) + Len(y) > 0 => Half(x, y) < Len(x) + Len(y)
BY DEF Half

\* A position below one that is too small is too small, one above a position
\* that is too large is too large: why half of the range can be dropped.
LEMMA TestsMonotone ==
  ASSUME NEW x \in Seq(MinT..MaxT), SortedSpan(x),
         NEW y \in Seq(MinT..MaxT), SortedSpan(y),
         NEW i \in Int, NEW j \in Int, i <= j
  PROVE  /\ TooSmall(x, y, j) => TooSmall(x, y, i)
         /\ TooLarge(x, y, i) => TooLarge(x, y, j)
<1>1. PICK h \in Int : h = Half(x, y)
  BY HalfRank
<1>2. At(x, i) <= At(x, j)
  BY AtMonotone
<1>3. At(y, h - j - 1) <= At(y, h - i - 1)
  <2>1. h - j - 1 \in Int /\ h - i - 1 \in Int /\ h - j - 1 <= h - i - 1
    OBVIOUS
  <2>. QED
    BY <2>1, AtMonotone
<1>4. At(y, h - j) <= At(y, h - i)
  <2>1. h - j \in Int /\ h - i \in Int /\ h - j <= h - i
    OBVIOUS
  <2>. QED
    BY <2>1, AtMonotone
<1>5. /\ At(x, i) \in MinT..MaxT /\ At(x, j) \in MinT..MaxT
      /\ At(y, h - i - 1) \in MinT..MaxT /\ At(y, h - i) \in MinT..MaxT
      /\ At(y, h - j - 1) \in MinT..MaxT /\ At(y, h - j) \in MinT..MaxT
  BY <1>1, ProbeValues
<1>6. TooSmall(x, y, j) => TooSmall(x, y, i)
  BY <1>1, <1>2, <1>3, <1>5 DEF TooSmall
<1>7. TooLarge(x, y, i) => TooLarge(x, y, j)
  BY <1>1, <1>2, <1>4, <1>5 DEF TooLarge
<1>. QED
  BY <1>6, <1>7

\* A position that is neither too small nor too large separates the spans,
\* unless a value is tied with another or with a sentinel.
LEMMA OnlyTiesFall ==
  ASSUME NEW x \in Seq(MinT..MaxT), NEW y \in Seq(MinT..MaxT),
         Searchable(x, y), NEW i \in 0..(Len(x) + Len(y) - 1),
         ~TooSmall(x, y, i), ~TooLarge(x, y, i)
  PROVE  Separates(x, y, i)
<1>1. PICK h \in Nat : h = Half(x, y) /\ h < Len(x) + Len(y)
  BY HalfRank DEF Searchable
<1>2. /\ At(x, i) \in MinT..MaxT
      /\ At(y, h - i - 1) \in MinT..MaxT
      /\ At(y, h - i) \in MinT..MaxT
  <2>1. i \in Int /\ h - i - 1 \in Int /\ h - i \in Int
    OBVIOUS
  <2>. QED
    BY <2>1, AtType
<1>3. At(y, h - i - 1) <= At(x, i) /\ At(x, i) <= At(y, h - i)
  BY <1>1, <1>2 DEF TooSmall, TooLarge
<1>4. i < Len(x)
  <2>1. SUFFICES ASSUME i >= Len(x) PROVE FALSE
    OBVIOUS
  <2>2. At(x, i) = MaxT
    BY <2>1 DEF At
  <2>3. h - i < Len(y)
    BY <2>1, <1>1
  <2>4. At(y, h - i) < MaxT
    <3>1. CASE h - i < 0
      BY <3>1 DEF At
    <3>2. CASE h - i >= 0
      <4>1. h - i + 1 \in 1..Len(y) /\ At(y, h - i) = y[h - i + 1]
        BY <3>2, <2>3, <1>1 DEF At
      <4>. QED
        BY <4>1 DEF Searchable
    <3>. QED
      BY <3>1, <3>2, <1>1
  <2>. QED
    BY <1>2, <1>3, <2>2, <2>4
<1>5. At(x, i) = x[i + 1] /\ i + 1 \in 1..Len(x)
  BY <1>4 DEF At
<1>6. MinT < x[i + 1] /\ x[i + 1] < MaxT
  BY <1>5 DEF Searchable
<1>7. ASSUME NEW k \in Int PROVE At(y, k) # x[i + 1]
  <2>1. CASE k < 0 \/ k >= Len(y)
    BY <2>1, <1>6 DEF At
  <2>2. CASE 0 <= k /\ k < Len(y)
    <3>1. At(y, k) = y[k + 1] /\ k + 1 \in 1..Len(y)
      BY <2>2 DEF At
    <3>. QED
      BY <3>1, <1>5 DEF Searchable
  <2>. QED
    BY <2>1, <2>2
<1>8. At(y, h - i - 1) # At(x, i) /\ At(y, h - i) # At(x, i)
  <2>1. h - i - 1 \in Int /\ h - i \in Int
    OBVIOUS
  <2>. QED
    BY <2>1, <1>5, <1>7
<1>. QED
  BY <1>1, <1>2, <1>3, <1>8 DEF Separates

\* A separating position is the median of the two spans.
LEMMA SeparatorIsMedian ==
  ASSUME NEW x \in Seq(MinT..MaxT), SortedSpan(x),
         NEW y \in Seq(MinT..MaxT), SortedSpan(y),
         NEW i \in 0..(Len(x) + Len(y) - 1), Separates(x, y, i)
  PROVE  IsMedian(x, y, At(x, i))
<1>1. PICK h \in Nat : h = Half(x, y)
  BY HalfRank
<1>2. /\ At(x, i) \in MinT..MaxT
      /\ At(y, h - i - 1) \in MinT..MaxT
      /\ At(y, h - i) \in MinT..MaxT
  <2>1. i \in Int /\ h - i - 1 \in Int /\ h - i \in Int
    OBVIOUS
  <2>. QED
    BY <2>1, AtType
<1>3. At(y, h - i - 1) < At(x, i) /\ At(x, i) < At(y, h - i)
  BY <1>1 DEF Separates
<1>4. i < Len(x) /\ At(x, i) = x[i + 1] /\ i + 1 \in 1..Len(x)
  BY <1>2, <1>3 DEF At
<1>5. h - i >= 0
  BY <1>2, <1>3 DEF At
<1>6. h - i - 1 < Len(y)
  BY <1>2, <1>3 DEF At
<1>7. \A k \in 1..Len(x) : IF k <= i THEN x[k] <= x[i + 1] ELSE x[i + 1] <= x[k]
  BY <1>4 DEF SortedSpan
<1>8. ASSUME NEW k \in 1..Len(y)
      PROVE  IF k <= h - i THEN y[k] <= x[i + 1] ELSE x[i + 1] <= y[k]
  <2>1. At(y, k - 1) = y[k] /\ y[k] \in Int
    BY DEF At
  <2>2. CASE k <= h - i
    <3>1. k - 1 \in Int /\ h - i - 1 \in Int /\ k - 1 <= h - i - 1
      BY <2>2
    <3>2. At(y, k - 1) <= At(y, h - i - 1)
      BY <3>1, AtMonotone
    <3>. QED
      BY <3>2, <2>1, <2>2, <1>2, <1>3, <1>4
  <2>3. CASE k > h - i
    <3>1. k - 1 \in Int /\ h - i \in Int /\ h - i <= k - 1
      BY <2>3
    <3>2. At(y, h - i) <= At(y, k - 1)
      BY <3>1, AtMonotone
    <3>. QED
      BY <3>2, <2>1, <2>3, <1>2, <1>3, <1>4
  <2>. QED
    BY <2>2, <2>3
<1>9. PICK j \in 0..Len(y) : j = h - i
  BY <1>5, <1>6
<1>10. i \in 0..Len(x) /\ i + j = (Len(x) + Len(y)) \div 2
  BY <1>1, <1>4, <1>9 DEF Half
<1>11. \A k \in 1..Len(y) : IF k <= j THEN y[k] <= x[i + 1] ELSE x[i + 1] <= y[k]
  BY <1>8, <1>9
<1>. QED
  BY <1>4, <1>7, <1>9, <1>10, <1>11 DEF IsMedian

\* Two spans cannot both be excluded completely: the reason the second loop
\* finds what the first did not.
LEMMA NotBothExcluded ==
  ASSUME NEW x \in Seq(MinT..MaxT), NEW y \in Seq(MinT..MaxT),
         Len(x) + Len(y) > 0,
         NEW b \in 0..(Len(x) + Len(y)), Narrowed(x, y, b, b),
         NEW c \in 0..(Len(x) + Len(y)), Narrowed(y, x, c, c)
  PROVE  FALSE
<1>1. PICK h \in Nat : h = Half(x, y) /\ h = Half(y, x) /\ h < Len(x) + Len(y)
  BY HalfRank
\* the last position of x excluded as too small
<1>2. ASSUME b > 0
      PROVE  At(x, b - 1) < At(y, h - b)
  <2>1. TooSmall(x, y, b - 1)
    BY <1>2 DEF Narrowed
  <2>2. h - (b - 1) - 1 = h - b
    OBVIOUS
  <2>. QED
    BY <2>1, <2>2, <1>1 DEF TooSmall
<1>3. ASSUME NEW k \in Int
      PROVE  /\ At(x, k) \in MinT..MaxT /\ At(y, k) \in MinT..MaxT
             /\ k < 0 => At(x, k) = MinT /\ At(y, k) = MinT
  <2>1. At(x, k) \in MinT..MaxT /\ At(y, k) \in MinT..MaxT
    BY AtType
  <2>2. k < 0 => At(x, k) = MinT /\ At(y, k) = MinT
    BY DEF At
  <2>. QED
    BY <2>1, <2>2
\* so b is not beyond the rank searched for
<1>4. b <= h
  <2>1. SUFFICES ASSUME b > h PROVE FALSE
    OBVIOUS
  <2>2. b - 1 \in Int /\ h - b \in Int /\ h - b < 0
    BY <2>1
  <2>3. At(y, h - b) = MinT /\ At(x, b - 1) \in MinT..MaxT
    BY <2>2, <1>3
  <2>. QED
    BY <1>2, <2>1, <2>3
<1>5. PICK j \in Nat : j = h - b /\ j < Len(x) + Len(y)
  BY <1>1, <1>4
<1>6. At(x, b) \in MinT..MaxT /\ At(y, j) \in MinT..MaxT
  <2>1. b \in Int /\ j \in Int
    OBVIOUS
  <2>. QED
    BY <2>1, <1>3
\* the first position of x excluded as too large
<1>7. At(y, j) < At(x, b)
  <2>1. TooLarge(x, y, b)
    BY <1>1, <1>4 DEF Narrowed
  <2>. QED
    BY <2>1, <1>1, <1>5 DEF TooLarge
<1>8. CASE j < c
  <2>1. TooSmall(y, x, j) /\ h - j - 1 = b - 1
    BY <1>8, <1>5 DEF Narrowed
  <2>2. At(y, j) < At(x, b - 1)
    BY <2>1, <1>1 DEF TooSmall
  <2>3. b - 1 \in Int
    OBVIOUS
  <2>5. At(x, b - 1) \in MinT..MaxT
    BY <2>3, <1>3
  <2>4. b > 0
    <3>1. b - 1 < 0 => At(x, b - 1) = MinT
      BY <2>3, <1>3
    <3>. QED
      BY <3>1, <2>2, <2>5, <1>6
  <2>. QED
    BY <2>2, <2>5, <2>4, <1>2, <1>5, <1>6
<1>9. CASE j >= c
  <2>1. TooLarge(y, x, j) /\ h - j = b
    BY <1>9, <1>5 DEF Narrowed
  <2>2. At(x, b) < At(y, j)
    BY <2>1, <1>1 DEF TooLarge
  <2>. QED
    BY <2>2, <1>6, <1>7
<1>. QED
  BY <1>5, <1>8, <1>9

\* The median does not depend on which span is called first.
LEMMA Symmetric ==
  ASSUME NEW x \in Seq(MinT..MaxT), NEW y \in Seq(MinT..MaxT)
  PROVE  /\ Searchable(x, y) = Searchable(y, x)
         /\ \A v : IsMedian(x, y, v) => IsMedian(y, x, v)
<1>1. Searchable(x, y) = Searchable(y, x)
  BY DEF Searchable
<1>2. ASSUME NEW v, IsMedian(x, y, v) PROVE IsMedian(y, x, v)
  <2>1. PICK i \in 0..Len(x), j \in 0..Len(y) :
          /\ i + j = (Len(x) + Len(y)) \div 2
          /\ \A k \in 1..Len(x) : IF k <= i THEN x[k] <= v ELSE v <= x[k]
          /\ \A k \in 1..Len(y) : IF k <= j THEN y[k] <= v ELSE v <= y[k]
          /\ (i < Len(x) /\ x[i + 1] = v) \/ (j < Len(y) /\ y[j + 1] = v)
    BY <1>2 DEF IsMedian
  <2>2. j + i = (Len(y) + Len(x)) \div 2
    BY <2>1
  <2>. QED
    BY <2>1, <2>2 DEF IsMedian
<1>. QED
  BY <1>1, <1>2

---------------------------------------------------------------------------------
(* The loops as a function. *)

NatLess == OpToRel(<, Nat)

\* A set of naturals has a smallest element.
LEMMA NatMin ==
  ASSUME NEW S \in SUBSET Nat, S # {}
  PROVE  \E n \in S : \A m \in S : n <= m
<1>1. IsWellFoundedOn(NatLess, Nat)
  BY NatLessThanWellFounded DEF NatLess
<1>2. \A x, y \in Nat : x < y => <<x, y>> \in NatLess
  BY DEF OpToRel, NatLess
<1>3. PICK x \in S : \A y \in S : ~(<<y, x>> \in NatLess)
  BY <1>1, WFMin
<1>4. \A y \in S : ~(y < x)
  BY <1>2, <1>3
<1>. QED
  BY <1>4

\* One turn of the loop, which iterates with f, and the equation of the loop.
Turn(x, y, f, b, e) ==
  LET mid == (b + e) \div 2 IN
  IF b >= e                    THEN [tag |-> "absent", val |-> MinT]
  ELSE IF TooSmall(x, y, mid)  THEN f[<<mid + 1, e>>]
  ELSE IF TooLarge(x, y, mid)  THEN f[<<b, mid>>]
  ELSE IF Separates(x, y, mid) THEN [tag |-> "returned", val |-> At(x, mid)]
  ELSE                              [tag |-> "tie", val |-> MinT]

IsLoop(x, y, n, f) == f = [r \in (0..n) \X (0..n) |-> Turn(x, y, f, r[1], r[2])]

\* The loop is a function that satisfies its equation, if there is one ...
LEMMA LoopChoice ==
  ASSUME NEW x, NEW y
  PROVE  ProbeLoop(x, y) = CHOOSE f : IsLoop(x, y, Len(x) + Len(y), f)
BY DEF ProbeLoop, IsLoop, Turn

\* A turn looks no further than a shorter range.
LEMMA TurnLocal ==
  ASSUME NEW x, NEW y, NEW n \in Nat, NEW b \in 0..n, NEW e \in 0..n, NEW f, NEW g, NEW k \in Int,
         e - b <= k + 1,
         \A c \in 0..n, d \in 0..n : d - c <= k => f[<<c, d>>] = g[<<c, d>>]
  PROVE  b < e => Turn(x, y, f, b, e) = Turn(x, y, g, b, e)
<1>1. ASSUME b < e
      PROVE  LET mid == (b + e) \div 2 IN f[<<mid + 1, e>>] = g[<<mid + 1, e>>] /\ f[<<b, mid>>] = g[<<b, mid>>]
  <2>1. PICK mid \in Nat : mid = (b + e) \div 2 /\ b <= mid /\ mid < e
    BY <1>1
  <2>2. mid + 1 \in 0..n /\ mid \in 0..n /\ e - (mid + 1) <= k /\ mid - b <= k
    BY <2>1
  <2>. QED
    BY <2>1, <2>2
<1>. QED
  BY <1>1 DEF Turn

\* ... and there is: the ranges up to a length determine those one longer.
LEMMA LoopExists ==
  ASSUME NEW x, NEW y, NEW n \in Nat
  PROVE  \E f : IsLoop(x, y, n, f)
<1>. DEFINE Up(k, f) == \A b \in 0..n, e \in 0..n : e - b <= k => f[<<b, e>>] = Turn(x, y, f, b, e)
            On(f) == f = [r \in (0..n) \X (0..n) |-> f[r]]
            S == {k \in Nat : ~\E f : On(f) /\ Up(k, f)}
<1>1. S = {}
  <2>1. SUFFICES ASSUME S # {} PROVE FALSE
    OBVIOUS
  <2>2. PICK k \in S : \A l \in S : k <= l
    <3>1. S \in SUBSET Nat
      OBVIOUS
    <3>. HIDE DEF S
    <3>. QED
      BY <2>1, <3>1, NatMin
  <2>3. k \in Nat /\ ~\E f : On(f) /\ Up(k, f)
    OBVIOUS
  <2>4. k # 0
    <3>. DEFINE f == [r \in (0..n) \X (0..n) |-> [tag |-> "absent", val |-> MinT]]
    <3>1. On(f)
      OBVIOUS
    <3>2. Up(0, f)
      BY DEF Turn
    <3>. HIDE DEF f, On, Up
    <3>. QED
      BY <2>3, <3>1, <3>2
  <2>5. k - 1 \in Nat /\ k - 1 \notin S
    <3>1. k - 1 \in Nat /\ ~(k <= k - 1)
      BY <2>3, <2>4
    <3>. HIDE DEF S
    <3>. QED
      BY <2>2, <3>1
  <2>6. PICK f : On(f) /\ Up(k - 1, f)
    BY <2>5
  <2>. DEFINE g == [r \in (0..n) \X (0..n) |-> Turn(x, y, f, r[1], r[2])]
  <2>7. On(g)
    OBVIOUS
  <2>8. \A b \in 0..n, e \in 0..n : g[<<b, e>>] = Turn(x, y, f, b, e)
    OBVIOUS
  <2>9. \A b \in 0..n, e \in 0..n : e - b <= k - 1 => f[<<b, e>>] = g[<<b, e>>]
    BY <2>6, <2>8
  <2>. HIDE DEF g
  <2>10. ASSUME NEW b \in 0..n, NEW e \in 0..n, e - b <= k PROVE g[<<b, e>>] = Turn(x, y, g, b, e)
    <3>1. CASE b < e
      <4>1. k - 1 \in Int /\ e - b <= (k - 1) + 1
        BY <2>3, <2>10
      <4>. QED
        BY <2>8, <2>9, <3>1, <4>1, TurnLocal
    <3>2. CASE ~(b < e)
      BY <2>8, <3>2 DEF Turn
    <3>. QED
      BY <3>1, <3>2
  <2>11. Up(k, g)
    BY <2>10
  <2>. HIDE DEF On, Up
  <2>. QED
    BY <2>3, <2>7, <2>11
<1>2. n \in Nat /\ n \notin S
  BY <1>1
<1>3. PICK f : On(f) /\ Up(n, f)
  BY <1>2
<1>4. \A b \in 0..n, e \in 0..n : f[<<b, e>>] = Turn(x, y, f, b, e)
  <2>1. \A b \in 0..n, e \in 0..n : e - b <= n
    OBVIOUS
  <2>. QED
    BY <1>3, <2>1
<1>5. f = [r \in (0..n) \X (0..n) |-> Turn(x, y, f, r[1], r[2])]
  BY <1>3, <1>4
<1>. QED
  BY <1>5 DEF IsLoop

\* One turn of the loop of FindMedian.
LEMMA LoopTurn ==
  ASSUME NEW x, NEW y, Len(x) + Len(y) \in Nat,
         NEW b \in 0..(Len(x) + Len(y)), NEW e \in 0..(Len(x) + Len(y))
  PROVE  ProbeLoop(x, y)[<<b, e>>] = Turn(x, y, ProbeLoop(x, y), b, e)
<1>. DEFINE n == Len(x) + Len(y)
            f == ProbeLoop(x, y)
<1>1. f = CHOOSE g : IsLoop(x, y, n, g)
  BY LoopChoice
<1>2. \E g : IsLoop(x, y, n, g)
  BY LoopExists
<1>3. IsLoop(x, y, n, f)
  <2>. HIDE DEF f
  <2>. QED
    BY <1>1, <1>2
<1>. QED
  BY <1>3 DEF IsLoop

\* What a loop that still has begin .. end to probe answers: nothing, a median or a tie, and
\* no tie on spans the search can answer.
AnswersRight(x, y, b, e) ==
  LET a == ProbeLoop(x, y)[<<b, e>>] IN
    /\ a.tag \in {"absent", "returned", "tie"}
    /\ a.tag = "returned" => IsMedian(x, y, a.val) /\ a.val \in MinT..MaxT
    /\ Searchable(x, y) /\ Narrowed(x, y, b, e) =>
         \/ a.tag = "returned"
         \/ a.tag = "absent" /\ \E c \in 0..(Len(x) + Len(y)) : Narrowed(x, y, c, c)

\* A turn answers right if the turns after it do.
LEMMA TurnAnswers ==
  ASSUME NEW x \in Seq(MinT..MaxT), SortedSpan(x), NEW y \in Seq(MinT..MaxT), SortedSpan(y),
         NEW b \in 0..(Len(x) + Len(y)), NEW e \in 0..(Len(x) + Len(y)), b <= e,
         \A c \in b..e, d \in b..e : c <= d /\ d - c < e - b => AnswersRight(x, y, c, d)
  PROVE  AnswersRight(x, y, b, e)
<1>. DEFINE f == ProbeLoop(x, y)
<1>1. f[<<b, e>>] = Turn(x, y, f, b, e)
  BY LoopTurn
<1>. HIDE DEF f
<1>2. CASE b >= e
  <2>1. b = e /\ f[<<b, e>>] = [tag |-> "absent", val |-> MinT]
    BY <1>1, <1>2 DEF Turn
  <2>. QED
    BY <2>1 DEF AnswersRight, f
<1>3. CASE b < e
  <2>1. PICK mid \in Nat : mid = (b + e) \div 2 /\ b <= mid /\ mid < e
    BY <1>3
  <2>2. mid \in 0..(Len(x) + Len(y) - 1) /\ mid \in Int
    BY <2>1
  <2>3. CASE TooSmall(x, y, mid)
    <3>1. f[<<b, e>>] = f[<<mid + 1, e>>]
      BY <1>1, <1>3, <2>1, <2>3 DEF Turn
    <3>2. AnswersRight(x, y, mid + 1, e)
      BY <2>1
    <3>3. \A i \in 0..mid : TooSmall(x, y, i)
      BY <2>2, <2>3, TestsMonotone
    <3>4. Narrowed(x, y, b, e) => Narrowed(x, y, mid + 1, e)
      BY <3>3, <2>1 DEF Narrowed
    <3>. QED
      BY <3>1, <3>2, <3>4 DEF AnswersRight, f
  <2>4. CASE ~TooSmall(x, y, mid) /\ TooLarge(x, y, mid)
    <3>1. f[<<b, e>>] = f[<<b, mid>>]
      BY <1>1, <1>3, <2>1, <2>4 DEF Turn
    <3>2. AnswersRight(x, y, b, mid)
      BY <2>1
    <3>3. \A i \in mid..(Len(x) + Len(y) - 1) : TooLarge(x, y, i)
      BY <2>2, <2>4, TestsMonotone
    <3>4. Narrowed(x, y, b, e) => Narrowed(x, y, b, mid)
      BY <3>3, <2>1 DEF Narrowed
    <3>. QED
      BY <3>1, <3>2, <3>4 DEF AnswersRight, f
  <2>5. CASE ~TooSmall(x, y, mid) /\ ~TooLarge(x, y, mid) /\ Separates(x, y, mid)
    <3>1. f[<<b, e>>] = [tag |-> "returned", val |-> At(x, mid)]
      BY <1>1, <1>3, <2>1, <2>5 DEF Turn
    <3>2. IsMedian(x, y, At(x, mid)) /\ At(x, mid) \in MinT..MaxT
      BY <2>2, <2>5, SeparatorIsMedian, AtType
    <3>. QED
      BY <3>1, <3>2 DEF AnswersRight, f
  <2>6. CASE ~TooSmall(x, y, mid) /\ ~TooLarge(x, y, mid) /\ ~Separates(x, y, mid)
    <3>1. f[<<b, e>>] = [tag |-> "tie", val |-> MinT]
      BY <1>1, <1>3, <2>1, <2>6 DEF Turn
    <3>2. ~Searchable(x, y)
      BY <2>2, <2>6, OnlyTiesFall
    <3>. QED
      BY <3>1, <3>2 DEF AnswersRight, f
  <2>. QED
    BY <2>3, <2>4, <2>5, <2>6
<1>. QED
  BY <1>2, <1>3

\* The loops answer right.
LEMMA LoopAnswers ==
  ASSUME NEW x \in Seq(MinT..MaxT), SortedSpan(x), NEW y \in Seq(MinT..MaxT), SortedSpan(y)
  PROVE  AnswersRight(x, y, 0, Len(x) + Len(y))
<1>. DEFINE n == Len(x) + Len(y)
            S == {k \in Nat : \E b \in 0..n, e \in 0..n : b <= e /\ e - b = k /\ ~AnswersRight(x, y, b, e)}
<1>1. S = {}
  <2>1. SUFFICES ASSUME S # {} PROVE FALSE
    OBVIOUS
  <2>2. PICK k \in S : \A j \in S : k <= j
    <3>1. S \in SUBSET Nat
      OBVIOUS
    <3>. HIDE DEF S
    <3>. QED
      BY <2>1, <3>1, NatMin
  <2>3. PICK b \in 0..n, e \in 0..n : k \in Nat /\ b <= e /\ e - b = k /\ ~AnswersRight(x, y, b, e)
    OBVIOUS
  <2>4. ASSUME NEW c \in b..e, NEW d \in b..e, c <= d, d - c < e - b PROVE AnswersRight(x, y, c, d)
    <3>1. d - c \in Nat /\ ~(k <= d - c) /\ c \in 0..n /\ d \in 0..n
      BY <2>3, <2>4
    <3>2. d - c \notin S
      <4>. HIDE DEF S
      <4>. QED
        BY <2>2, <3>1
    <3>. QED
      BY <2>4, <3>1, <3>2
  <2>. HIDE DEF S
  <2>. QED
    BY <2>3, <2>4, TurnAnswers
<1>2. n \in Nat /\ 0 \in 0..n /\ n \in 0..n /\ 0 <= n /\ n - 0 = n
  OBVIOUS
<1>3. n \notin S
  BY <1>1
<1>. QED
  BY <1>2, <1>3

\* What FindMedian returns is the median, and it returns on all spans it can answer.
LEMMA FindMedianAnswers ==
  ASSUME NEW x \in Seq(MinT..MaxT), SortedSpan(x), NEW y \in Seq(MinT..MaxT), SortedSpan(y)
  PROVE  LET a == FindMedian(x, y) IN
           /\ a.tag = "returned" => IsMedian(x, y, a.val) /\ a.val \in MinT..MaxT
           /\ Searchable(x, y) => a.tag = "returned"
           /\ Len(x) + Len(y) = 0 => a.tag = "threw"
<1>1. AnswersRight(x, y, 0, Len(x) + Len(y)) /\ AnswersRight(y, x, 0, Len(y) + Len(x))
  BY LoopAnswers
<1>2. Len(x) + Len(y) = Len(y) + Len(x) /\ Len(x) + Len(y) \in Nat
  OBVIOUS
<1>3. PICK p, q : p = Probe(x, y) /\ q = Probe(y, x)
  OBVIOUS
<1>4. /\ p.tag \in {"absent", "returned", "tie"} /\ q.tag \in {"absent", "returned", "tie"}
      /\ p.tag = "returned" => IsMedian(x, y, p.val) /\ p.val \in MinT..MaxT
      /\ q.tag = "returned" => IsMedian(y, x, q.val) /\ q.val \in MinT..MaxT
  BY <1>1, <1>3 DEF AnswersRight, Probe
<1>5. \A v : IsMedian(y, x, v) => IsMedian(x, y, v)
  BY Symmetric
<1>6. ASSUME Searchable(x, y) PROVE p.tag = "returned" \/ (p.tag = "absent" /\ q.tag = "returned")
  <2>1. Searchable(y, x) /\ Len(x) + Len(y) > 0
    BY <1>6, Symmetric DEF Searchable
  <2>2. Narrowed(x, y, 0, Len(x) + Len(y)) /\ Narrowed(y, x, 0, Len(y) + Len(x))
    BY DEF Narrowed
  <2>3. /\ p.tag = "returned" \/ (p.tag = "absent" /\ \E c \in 0..(Len(x) + Len(y)) : Narrowed(x, y, c, c))
        /\ q.tag = "returned" \/ (q.tag = "absent" /\ \E c \in 0..(Len(y) + Len(x)) : Narrowed(y, x, c, c))
    BY <1>1, <1>3, <1>6, <2>1, <2>2 DEF AnswersRight, Probe
  <2>. QED
    BY <1>2, <2>1, <2>3, NotBothExcluded
<1>7. ASSUME Len(x) + Len(y) = 0 PROVE p.tag = "absent" /\ q.tag = "absent"
  <2>1. 0 \in 0..(Len(x) + Len(y)) /\ 0 \in 0..(Len(y) + Len(x)) /\ Len(y) + Len(x) \in Nat
    BY <1>2
  <2>2. /\ ProbeLoop(x, y)[<<0, 0>>] = Turn(x, y, ProbeLoop(x, y), 0, 0)
        /\ ProbeLoop(y, x)[<<0, 0>>] = Turn(y, x, ProbeLoop(y, x), 0, 0)
    BY <1>2, <2>1, LoopTurn
  <2>3. \A u, v, f : Turn(u, v, f, 0, 0).tag = "absent"
    BY DEF Turn
  <2>. QED
    BY <1>2, <1>3, <1>7, <2>2, <2>3 DEF Probe
<1>8. FindMedian(x, y) = IF p.tag = "returned" THEN p
                         ELSE IF p.tag = "tie" THEN [tag |-> "threw", val |-> MinT]
                         ELSE IF q.tag = "returned" THEN q
                         ELSE IF q.tag = "tie" THEN [tag |-> "spins", val |-> MinT]
                         ELSE [tag |-> "threw", val |-> MinT]
  BY <1>3, <1>4 DEF FindMedian
<1>. QED
  BY <1>4, <1>5, <1>6, <1>7, <1>8

\* In a sorted span the smaller values come first, so counting them finds their end.
LEMMA LowerBoundCuts ==
  ASSUME NEW s \in Seq(Int), SortedSpan(s), NEW v \in Int
  PROVE  /\ LowerBound(s, v) \in 0..Len(s)
         /\ \A k \in 1..LowerBound(s, v) : s[k] < v
         /\ \A k \in (LowerBound(s, v) + 1)..Len(s) : v <= s[k]
<1>. DEFINE S == {k \in 1..Len(s) : s[k] < v}
<1>1. /\ Len(s) \in Nat /\ IsFiniteSet(1..Len(s)) /\ Cardinality(1..Len(s)) = Len(s)
      /\ \A k \in 1..Len(s) : s[k] \in Int
  <2>1. Len(s) \in Nat
    OBVIOUS
  <2>2. IsFiniteSet(1..Len(s)) /\ Cardinality(1..Len(s)) = Len(s)
    BY <2>1, FS_Interval
  <2>3. \A k \in 1..Len(s) : s[k] \in Int
    OBVIOUS
  <2>. QED
    BY <2>1, <2>2, <2>3
<1>2. S \in SUBSET (1..Len(s))
  OBVIOUS
<1>3. \A k \in 1..Len(s) : k \in S <=> s[k] < v
  OBVIOUS
<1>4. LowerBound(s, v) = Cardinality(S)
  BY DEF LowerBound
<1>. HIDE DEF S
<1>5. IsFiniteSet(S) /\ Cardinality(S) \in Nat /\ Cardinality(S) <= Len(s)
  BY <1>1, <1>2, FS_Subset, FS_CardinalityType
<1>6. ASSUME NEW k \in 1..Cardinality(S) PROVE s[k] < v
  <2>1. SUFFICES ASSUME ~(s[k] < v) PROVE FALSE
    OBVIOUS
  <2>2. k \in 1..Len(s)
    BY <1>1, <1>5
  <2>3. ASSUME NEW j \in S PROVE j \in 1..(k - 1)
    <3>1. j \in 1..Len(s) /\ s[j] < v
      BY <1>2, <1>3
    <3>2. k <= j => s[k] <= s[j]
      BY <2>2, <3>1 DEF SortedSpan
    <3>3. ~(k <= j)
      BY <1>1, <2>1, <2>2, <3>1, <3>2
    <3>. QED
      BY <2>2, <3>1, <3>3
  <2>4. S \in SUBSET (1..(k - 1))
    BY <2>3
  <2>5. IsFiniteSet(1..(k - 1)) /\ Cardinality(1..(k - 1)) = k - 1
    <3>1. k - 1 \in Int /\ (1 > k - 1 <=> k = 1)
      BY <2>2
    <3>. QED
      BY <3>1, FS_Interval
  <2>6. Cardinality(S) <= Cardinality(1..(k - 1))
    BY <2>4, <2>5, FS_Subset
  <2>. QED
    BY <1>5, <2>5, <2>6
<1>7. ASSUME NEW k \in (Cardinality(S) + 1)..Len(s) PROVE v <= s[k]
  <2>1. k \in 1..Len(s) /\ k \in Nat /\ s[k] \in Int
    BY <1>1, <1>5
  <2>2. SUFFICES ASSUME s[k] < v PROVE FALSE
    BY <2>1
  <2>3. ASSUME NEW j \in 1..k PROVE j \in S
    <3>1. j \in 1..Len(s) /\ j <= k
      BY <2>1
    <3>2. s[j] <= s[k]
      BY <2>1, <3>1 DEF SortedSpan
    <3>. QED
      BY <1>1, <1>3, <2>1, <2>2, <3>1, <3>2
  <2>4. 1..k \in SUBSET S
    BY <2>3
  <2>5. Cardinality(1..k) = k
    BY <2>1, FS_Interval
  <2>6. k <= Cardinality(S)
    BY <1>5, <2>4, <2>5, FS_Subset
  <2>. QED
    BY <1>5, <2>1, <2>6
<1>. QED
  BY <1>4, <1>5, <1>6, <1>7

\* No two values of x and y are the same.
AllDiffer(x, y) ==
  /\ \A i, j \in 1..Len(x) : i # j => x[i] # x[j]
  /\ \A i, j \in 1..Len(y) : i # j => y[i] # y[j]
  /\ \A i \in 1..Len(x), j \in 1..Len(y) : x[i] # y[j]

\* The median of two or more different values has some below it and is not below itself.
LEMMA MedianSplits ==
  ASSUME NEW x \in Seq(Int), SortedSpan(x), NEW y \in Seq(Int), SortedSpan(y), AllDiffer(x, y),
         Len(x) + Len(y) >= 2, NEW v \in Int, IsMedian(x, y, v)
  PROVE  /\ LowerBound(x, v) + LowerBound(y, v) >= 1
         /\ LowerBound(x, v) + LowerBound(y, v) < Len(x) + Len(y)
<1>1. PICK i \in 0..Len(x), j \in 0..Len(y) :
        /\ i + j = (Len(x) + Len(y)) \div 2
        /\ \A k \in 1..Len(x) : IF k <= i THEN x[k] <= v ELSE v <= x[k]
        /\ \A k \in 1..Len(y) : IF k <= j THEN y[k] <= v ELSE v <= y[k]
        /\ (i < Len(x) /\ x[i + 1] = v) \/ (j < Len(y) /\ y[j + 1] = v)
  BY DEF IsMedian
<1>2. /\ LowerBound(x, v) \in 0..Len(x) /\ LowerBound(y, v) \in 0..Len(y)
      /\ \A k \in 1..LowerBound(x, v) : x[k] < v
      /\ \A k \in 1..LowerBound(y, v) : y[k] < v
  BY LowerBoundCuts
<1>0. PICK m, n : m = LowerBound(x, v) /\ n = LowerBound(y, v)
  OBVIOUS
<1>3. /\ m \in Nat /\ n \in Nat /\ m <= Len(x) /\ n <= Len(y)
      /\ \A k \in 1..m : x[k] < v
      /\ \A k \in 1..n : y[k] < v
  <2>1. Len(x) \in Nat /\ Len(y) \in Nat
    OBVIOUS
  <2>. QED
    BY <1>0, <1>2, <2>1
<1>4. i + j >= 1 /\ Len(x) \in Nat /\ Len(y) \in Nat
  BY <1>1
<1>5. /\ \A k \in 1..Len(x) : x[k] \in Int
      /\ \A k \in 1..Len(y) : y[k] \in Int
  OBVIOUS
<1>6. ASSUME i >= 1 PROVE m >= 1
  <2>0. \A k \in (m + 1)..Len(x) : v <= x[k]
    BY <1>0, LowerBoundCuts
  <2>1. i \in 1..Len(x) /\ x[i] <= v
    BY <1>1, <1>6
  <2>2. x[i] # v
    <3>1. CASE i < Len(x) /\ x[i + 1] = v
      <4>1. i + 1 \in 1..Len(x) /\ i # i + 1
        BY <2>1, <3>1
      <4>. QED
        BY <2>1, <3>1, <4>1 DEF AllDiffer
    <3>2. CASE j < Len(y) /\ y[j + 1] = v
      <4>1. j + 1 \in 1..Len(y)
        BY <3>2
      <4>. QED
        BY <2>1, <3>2, <4>1 DEF AllDiffer
    <3>. QED
      BY <1>1, <3>1, <3>2
  <2>3. ~(v <= x[i])
    BY <1>5, <2>1, <2>2
  <2>. QED
    BY <1>3, <2>0, <2>1, <2>3
<1>7. ASSUME j >= 1 PROVE n >= 1
  <2>0. \A k \in (n + 1)..Len(y) : v <= y[k]
    BY <1>0, LowerBoundCuts
  <2>1. j \in 1..Len(y) /\ y[j] <= v
    BY <1>1, <1>7
  <2>2. y[j] # v
    <3>1. CASE i < Len(x) /\ x[i + 1] = v
      <4>1. i + 1 \in 1..Len(x)
        BY <3>1
      <4>. QED
        BY <2>1, <3>1, <4>1 DEF AllDiffer
    <3>2. CASE j < Len(y) /\ y[j + 1] = v
      <4>1. j + 1 \in 1..Len(y) /\ j # j + 1
        BY <2>1, <3>2
      <4>. QED
        BY <2>1, <3>2, <4>1 DEF AllDiffer
    <3>. QED
      BY <1>1, <3>1, <3>2
  <2>3. ~(v <= y[j])
    BY <1>5, <2>1, <2>2
  <2>. QED
    BY <1>3, <2>0, <2>1, <2>3
<1>8. m + n >= 1
  BY <1>3, <1>4, <1>6, <1>7
<1>9. m + n < Len(x) + Len(y)
  <2>1. ASSUME i < Len(x), x[i + 1] = v PROVE m < Len(x)
    <3>1. ~(x[i + 1] < v)
      BY <2>1
    <3>2. i + 1 \notin 1..m
      BY <1>3, <3>1
    <3>. QED
      BY <1>3, <1>4, <2>1, <3>2
  <2>2. ASSUME j < Len(y), y[j + 1] = v PROVE n < Len(y)
    <3>1. ~(y[j + 1] < v)
      BY <2>2
    <3>2. j + 1 \notin 1..n
      BY <1>3, <3>1
    <3>. QED
      BY <1>3, <1>4, <2>2, <3>2
  <2>. QED
    BY <1>1, <1>3, <1>4, <2>1, <2>2
<1>. QED
  BY <1>0, <1>8, <1>9

HIDE Sentinels

---------------------------------------------------------------------------------
(* Counting what is smaller. *)

\* How many of s[a + 1], ..., s[b] are smaller than v.
Lower(s, a, b, v) == {i \in (a + 1)..b : s[i] < v}
Below(s, a, b, v) == Cardinality(Lower(s, a, b, v))

Ascends(s, a, b) == \A i, j \in (a + 1)..b : i <= j => s[i] <= s[j]

\* It is a number.
LEMMA BelowNat ==
  ASSUME NEW s, NEW a \in Int, NEW b \in Int, NEW v
  PROVE  IsFiniteSet(Lower(s, a, b, v)) /\ Below(s, a, b, v) \in Nat
<1>1. IsFiniteSet((a + 1)..b)
  BY FS_Interval
<1>2. Lower(s, a, b, v) \in SUBSET ((a + 1)..b)
  BY DEF Lower
<1>3. IsFiniteSet(Lower(s, a, b, v))
  BY <1>1, <1>2, FS_Subset
<1>. QED
  BY <1>3, FS_CardinalityType DEF Below

\* A set of elements in the range gives bounds.
LEMMA BelowBounds ==
  ASSUME NEW s, NEW a \in Int, NEW b \in Int, NEW v
  PROVE  /\ \A S \in SUBSET Lower(s, a, b, v) : IsFiniteSet(S) /\ Cardinality(S) <= Below(s, a, b, v)
         /\ \A S : IsFiniteSet(S) /\ Lower(s, a, b, v) \subseteq S => Below(s, a, b, v) <= Cardinality(S)
<1>1. ASSUME NEW S \in SUBSET Lower(s, a, b, v) PROVE IsFiniteSet(S) /\ Cardinality(S) <= Below(s, a, b, v)
  BY BelowNat, FS_Subset DEF Below
<1>2. ASSUME NEW S, IsFiniteSet(S), Lower(s, a, b, v) \subseteq S PROVE Below(s, a, b, v) <= Cardinality(S)
  <2>1. Lower(s, a, b, v) \in SUBSET S
    BY <1>2
  <2>. QED
    BY <1>2, <2>1, FS_Subset DEF Below
<1>. QED
  BY <1>1, <1>2

\* Two ranges behind each other.
LEMMA BelowSplit ==
  ASSUME NEW s, NEW a \in Int, NEW c \in Int, NEW b \in Int, a <= c, c <= b, NEW v
  PROVE  Below(s, a, b, v) = Below(s, a, c, v) + Below(s, c, b, v)
<1>1. PICK A, B : A = Lower(s, a, c, v) /\ B = Lower(s, c, b, v)
  OBVIOUS
<1>2. IsFiniteSet(A) /\ IsFiniteSet(B) /\ Cardinality(A) \in Nat /\ Cardinality(B) \in Nat
  BY <1>1, BelowNat DEF Below
<1>3. \A i \in Int : i \in (a + 1)..b <=> i \in (a + 1)..c \/ i \in (c + 1)..b
  OBVIOUS
<1>4. \A i \in (a + 1)..c, j \in (c + 1)..b : i # j
  OBVIOUS
<1>5. Lower(s, a, b, v) = A \cup B
  BY <1>1, <1>3 DEF Lower
<1>6. A \cap B = {}
  BY <1>1, <1>4 DEF Lower
<1>7. Cardinality(A \cup B) = Cardinality(A) + Cardinality(B) - Cardinality(A \cap B)
  BY <1>2, FS_Union
<1>8. Cardinality(A \cap B) = 0
  BY <1>6, FS_EmptySet
<1>9. Cardinality(A \cup B) = Cardinality(A) + Cardinality(B)
  BY <1>2, <1>7, <1>8
<1>. QED
  BY <1>1, <1>5, <1>9 DEF Below

\* No element, and one.
LEMMA BelowFew ==
  ASSUME NEW s, NEW a \in Int, NEW v
  PROVE  /\ Below(s, a, a, v) = 0
         /\ Below(s, a, a + 1, v) = IF s[a + 1] < v THEN 1 ELSE 0
<1>1. Lower(s, a, a, v) = {}
  <2>1. \A i \in (a + 1)..a : FALSE
    OBVIOUS
  <2>. QED
    BY <2>1 DEF Lower
<1>2. Lower(s, a, a + 1, v) = IF s[a + 1] < v THEN {a + 1} ELSE {}
  <2>1. (a + 1)..(a + 1) = {a + 1}
    OBVIOUS
  <2>. QED
    BY <2>1 DEF Lower
<1>3. Cardinality({}) = 0 /\ Cardinality({a + 1}) = 1
  BY FS_EmptySet, FS_Singleton
<1>. QED
  BY <1>1, <1>2, <1>3 DEF Below

\* The same elements, at the same places or further on.
LEMMA BelowSame ==
  ASSUME NEW s, NEW t, NEW a \in Int, NEW b \in Int, \A i \in (a + 1)..b : s[i] = t[i], NEW v
  PROVE  Below(s, a, b, v) = Below(t, a, b, v)
<1>1. Lower(s, a, b, v) = Lower(t, a, b, v)
  BY DEF Lower
<1>. QED
  BY <1>1 DEF Below

\* s has the n elements of t behind its first m.
Follows(s, t, m, n) == \A i \in 1..n : s[m + i] = t[i]

\* ... further on.
LEMMA BelowShift ==
  ASSUME NEW s, NEW t, NEW m \in Nat, NEW n \in Nat, NEW z \in Int, NEW v,
         Follows(s, t, m, n), z = m + n
  PROVE  Below(s, m, z, v) = Below(t, 0, n, v)
<1>0. \A i \in 1..n : s[m + i] = t[i]
  BY DEF Follows
<1>1. PICK A, B : A = Lower(t, 0, n, v) /\ B = Lower(s, m, m + n, v)
  OBVIOUS
<1>. DEFINE g == [i \in A |-> m + i]
<1>2. \A i : i \in A <=> i \in 1..n /\ t[i] < v
  BY <1>1 DEF Lower
<1>3. \A i \in 1..n : m + i \in (m + 1)..(m + n)
  OBVIOUS
<1>4. g \in [A -> B]
  BY <1>0, <1>1, <1>2, <1>3 DEF Lower
<1>5. ASSUME NEW x \in B PROVE \E i \in A : g[i] = x
  <2>1. x \in (m + 1)..(m + n) /\ s[x] < v
    BY <1>1 DEF Lower
  <2>2. PICK i \in 1..n : x = m + i
    <3>1. x - m \in 1..n /\ x = m + (x - m)
      BY <2>1
    <3>. QED
      BY <3>1
  <2>3. i \in A
    BY <1>0, <1>2, <2>1, <2>2
  <2>. QED
    BY <2>2, <2>3
<1>6. ASSUME NEW i \in A, NEW j \in A, g[i] = g[j] PROVE i = j
  <2>1. i \in 1..n /\ j \in 1..n /\ m + i = m + j
    BY <1>2, <1>6
  <2>. QED
    BY <2>1
<1>. HIDE DEF g
<1>7. g \in Bijection(A, B)
  BY <1>4, <1>5, <1>6 DEF Bijection, Injection, Surjection, IsInjective
<1>8. IsFiniteSet(A)
  BY <1>1, BelowNat
<1>9. Cardinality(B) = Cardinality(A)
  BY <1>7, <1>8, FS_Bijection DEF ExistsBijection
<1>. QED
  BY <1>1, <1>9 DEF Below

\* More is below more.
LEMMA BelowGrows ==
  ASSUME NEW s, NEW a \in Int, NEW b \in Int, \A i \in (a + 1)..b : s[i] \in Int,
         NEW v \in Int, NEW w \in Int, v <= w
  PROVE  Below(s, a, b, v) <= Below(s, a, b, w)
<1>1. \A x \in Int : x < v => x < w
  OBVIOUS
<1>2. Lower(s, a, b, v) \in SUBSET Lower(s, a, b, w)
  BY <1>1 DEF Lower
<1>. QED
  BY <1>2, BelowBounds DEF Below

\* In an ascending vector an element's place is its rank.
LEMMA AscendingRank ==
  ASSUME NEW s, NEW n \in Nat, Ascends(s, 0, n), \A i \in 1..n : s[i] \in Int, NEW i \in 1..n
  PROVE  Below(s, 0, n, s[i]) <= i - 1 /\ i <= Below(s, 0, n, s[i] + 1)
<1>1. IsFiniteSet(1..(i - 1)) /\ Cardinality(1..(i - 1)) = i - 1
  <2>1. i - 1 \in Int /\ (1 > i - 1 <=> i = 1)
    OBVIOUS
  <2>. QED
    BY <2>1, FS_Interval
<1>2. Lower(s, 0, n, s[i]) \subseteq 1..(i - 1)
  <2>1. ASSUME NEW j \in Lower(s, 0, n, s[i]) PROVE j \in 1..(i - 1)
    <3>1. j \in 1..n /\ s[j] < s[i]
      BY DEF Lower
    <3>2. ~(i <= j)
      BY <3>1 DEF Ascends
    <3>. QED
      BY <3>1, <3>2
  <2>. QED
    BY <2>1
<1>3. IsFiniteSet(1..i) /\ Cardinality(1..i) = i
  BY FS_Interval
<1>4. 1..i \in SUBSET Lower(s, 0, n, s[i] + 1)
  <2>1. ASSUME NEW j \in 1..i PROVE j \in Lower(s, 0, n, s[i] + 1)
    <3>1. j \in 1..n /\ j <= i
      OBVIOUS
    <3>2. s[j] <= s[i] /\ s[j] \in Int /\ s[i] \in Int
      BY <3>1 DEF Ascends
    <3>3. s[j] < s[i] + 1
      BY <3>2
    <3>. QED
      BY <3>1, <3>3 DEF Lower
  <2>. QED
    BY <2>1
<1>. QED
  BY <1>1, <1>2, <1>3, <1>4, BelowBounds

\* Only one value has a rank.
LEMMA RankUnique ==
  ASSUME NEW s, NEW n \in Nat, \A i \in 1..n : s[i] \in Int, NEW i \in Int, NEW x \in Int, NEW y \in Int,
         Below(s, 0, n, x) <= i - 1, i <= Below(s, 0, n, x + 1),
         Below(s, 0, n, y) <= i - 1, i <= Below(s, 0, n, y + 1)
  PROVE  x = y
<1>1. ASSUME NEW u \in Int, NEW w \in Int, i <= Below(s, 0, n, u + 1), Below(s, 0, n, w) <= i - 1
      PROVE  ~(u < w)
  <2>1. SUFFICES ASSUME u < w PROVE FALSE
    OBVIOUS
  <2>2. Below(s, 0, n, u + 1) <= Below(s, 0, n, w)
    <3>1. (0 + 1)..n = 1..n /\ u + 1 \in Int /\ u + 1 <= w
      BY <2>1
    <3>2. \A k \in (0 + 1)..n : s[k] \in Int
      BY <3>1
    <3>. QED
      BY <3>1, <3>2, BelowGrows
  <2>3. Below(s, 0, n, u + 1) \in Nat /\ Below(s, 0, n, w) \in Nat
    BY BelowNat
  <2>. QED
    BY <1>1, <2>2, <2>3
<1>2. ~(x < y) /\ ~(y < x)
  BY <1>1
<1>. QED
  BY <1>2

---------------------------------------------------------------------------------
(* What Sorted returns, which Merged and so MergeOutcome are made of. *)

\* How many elements come before s[j] is between 0 and the number of the others.
LEMMA PrecedingFinite ==
  ASSUME NEW s \in Seq(Int), NEW j \in 1..Len(s)
  PROVE  /\ IsFiniteSet(Preceding(s, j))
         /\ Cardinality(Preceding(s, j)) \in 0..(Len(s) - 1)
<1>1. /\ Len(s) \in Nat /\ IsFiniteSet(1..Len(s)) /\ Cardinality(1..Len(s)) = Len(s)
  <2>1. Len(s) \in Nat
    OBVIOUS
  <2>. QED
    BY <2>1, FS_Interval
<1>2. /\ IsFiniteSet((1..Len(s)) \ {j}) /\ Cardinality((1..Len(s)) \ {j}) = Len(s) - 1
  BY <1>1, FS_RemoveElement
<1>3. Preceding(s, j) \in SUBSET ((1..Len(s)) \ {j})
  <2>1. ~(s[j] < s[j]) /\ ~(j < j)
    <3>1. s[j] \in Int
      OBVIOUS
    <3>. QED
      BY <3>1
  <2>. QED
    BY <2>1 DEF Preceding
<1>4. /\ IsFiniteSet(Preceding(s, j))
      /\ Cardinality(Preceding(s, j)) <= Cardinality((1..Len(s)) \ {j})
  BY <1>2, <1>3, FS_Subset
<1>5. Cardinality(Preceding(s, j)) \in Nat
  BY <1>4, FS_CardinalityType
<1>. QED
  BY <1>1, <1>2, <1>4, <1>5

\* An element that comes before another has fewer before it.
LEMMA PrecedingLess ==
  ASSUME NEW s \in Seq(Int), NEW k \in 1..Len(s), NEW j \in Preceding(s, k)
  PROVE  Cardinality(Preceding(s, j)) < Cardinality(Preceding(s, k))
<1>1. j \in 1..Len(s) /\ (s[j] < s[k] \/ (s[j] = s[k] /\ j < k))
  BY DEF Preceding
<1>2. \A i \in 1..Len(s) : s[i] \in Int
  OBVIOUS
<1>3. ASSUME NEW i \in Preceding(s, j) PROVE i \in Preceding(s, k) /\ i # j
  <2>1. i \in 1..Len(s) /\ (s[i] < s[j] \/ (s[i] = s[j] /\ i < j))
    BY <1>3 DEF Preceding
  <2>2. s[i] < s[k] \/ (s[i] = s[k] /\ i < k)
    BY <1>1, <1>2, <2>1
  <2>. QED
    BY <1>1, <1>2, <2>1, <2>2 DEF Preceding
<1>4. Preceding(s, j) \in SUBSET (Preceding(s, k) \ {j})
  BY <1>3
<1>5. /\ IsFiniteSet(Preceding(s, k)) /\ Cardinality(Preceding(s, k)) \in Nat
      /\ Cardinality(Preceding(s, j)) \in Nat
  BY <1>1, PrecedingFinite
<1>6. /\ IsFiniteSet(Preceding(s, k) \ {j})
      /\ Cardinality(Preceding(s, k) \ {j}) = Cardinality(Preceding(s, k)) - 1
  BY <1>5, FS_RemoveElement
<1>7. Cardinality(Preceding(s, j)) <= Cardinality(Preceding(s, k) \ {j})
  BY <1>4, <1>6, FS_Subset
<1>. QED
  BY <1>5, <1>6, <1>7

\* Of two elements one comes first, and no two have equally many before them.
LEMMA PrecedingTotal ==
  ASSUME NEW s \in Seq(Int), NEW j \in 1..Len(s), NEW k \in 1..Len(s), j # k
  PROVE  /\ j \in Preceding(s, k) \/ k \in Preceding(s, j)
         /\ Cardinality(Preceding(s, j)) # Cardinality(Preceding(s, k))
<1>1. s[j] \in Int /\ s[k] \in Int
  OBVIOUS
<1>2. j \in Preceding(s, k) \/ k \in Preceding(s, j)
  BY <1>1 DEF Preceding
<1>3. Cardinality(Preceding(s, j)) \in Nat /\ Cardinality(Preceding(s, k)) \in Nat
  BY PrecedingFinite
<1>. QED
  BY <1>2, <1>3, PrecedingLess

\* For each number there is an element with that many before it.
LEMMA PrecedingOnto ==
  ASSUME NEW s \in Seq(Int), NEW i \in 1..Len(s)
  PROVE  \E j \in 1..Len(s) : Cardinality(Preceding(s, j)) = i - 1
<1>. DEFINE rank == [j \in 1..Len(s) |-> Cardinality(Preceding(s, j)) + 1]
<1>1. Len(s) \in Nat /\ IsFiniteSet(1..Len(s))
  BY FS_Interval
<1>2. rank \in [1..Len(s) -> 1..Len(s)]
  <2>1. ASSUME NEW j \in 1..Len(s) PROVE Cardinality(Preceding(s, j)) + 1 \in 1..Len(s)
    BY <1>1, PrecedingFinite
  <2>. QED
    BY <2>1
<1>3. \A j, k \in 1..Len(s) : rank[j] = rank[k] => j = k
  <2>1. ASSUME NEW j \in 1..Len(s), NEW k \in 1..Len(s), rank[j] = rank[k], j # k
        PROVE  FALSE
    <3>1. Cardinality(Preceding(s, j)) + 1 = Cardinality(Preceding(s, k)) + 1
      BY <2>1
    <3>2. Cardinality(Preceding(s, j)) \in Nat /\ Cardinality(Preceding(s, k)) \in Nat
      BY PrecedingFinite
    <3>. QED
      BY <2>1, <3>1, <3>2, PrecedingTotal
  <2>. QED
    BY <2>1
<1>4. \A j \in 1..Len(s) : rank[j] = Cardinality(Preceding(s, j)) + 1
  OBVIOUS
<1>. HIDE DEF rank
<1>5. rank \in Injection(1..Len(s), 1..Len(s))
  BY <1>2, <1>3 DEF Injection, IsInjective
<1>6. rank \in Surjection(1..Len(s), 1..Len(s))
  BY <1>1, <1>5, FS_Injection
<1>7. PICK j \in 1..Len(s) : rank[j] = i
  BY <1>6 DEF Surjection
<1>8. Cardinality(Preceding(s, j)) \in Nat
  BY PrecedingFinite
<1>. QED
  BY <1>4, <1>7, <1>8

\* s is a vector of n values.
Vector(s, n) == s \in Seq(Int) /\ Len(s) = n

\* What that says of its elements.
LEMMA VectorAt ==
  ASSUME NEW s, NEW n, Vector(s, n)
  PROVE  /\ s \in Seq(Int) /\ Len(s) = n /\ n \in Nat
         /\ \A i \in 1..n : s[i] \in Int
         /\ s = [i \in 1..n |-> s[i]]
BY DEF Vector

\* The i-th element of Sorted(s) is an element of s and has the rank i.
LEMMA SortedRank ==
  ASSUME NEW s, NEW n \in Nat, Vector(s, n), NEW i \in 1..n
  PROVE  /\ Sorted(s)[i] \in Int
         /\ Below(s, 0, n, Sorted(s)[i]) <= i - 1 /\ i <= Below(s, 0, n, Sorted(s)[i] + 1)
<1>1. s \in Seq(Int) /\ Len(s) = n /\ \A k \in 1..n : s[k] \in Int
  BY VectorAt
<1>2. PICK j \in 1..n : Cardinality(Preceding(s, j)) = i - 1 /\ Sorted(s)[i] = s[j]
  <2>1. \E j \in 1..Len(s) : Cardinality(Preceding(s, j)) = i - 1
    BY <1>1, PrecedingOnto
  <2>2. PICK c : c = CHOOSE j \in 1..Len(s) : Cardinality(Preceding(s, j)) = i - 1
    OBVIOUS
  <2>3. c \in 1..Len(s) /\ Cardinality(Preceding(s, c)) = i - 1
    BY <2>1, <2>2
  <2>4. Sorted(s)[i] = s[c]
    BY <1>1, <2>2 DEF Sorted
  <2>. QED
    BY <1>1, <2>3, <2>4
<1>3. IsFiniteSet(Preceding(s, j))
  BY <1>1, PrecedingFinite
<1>4. Lower(s, 0, n, s[j]) \subseteq Preceding(s, j)
  BY <1>1 DEF Lower, Preceding
<1>5. Below(s, 0, n, s[j]) <= i - 1
  BY <1>2, <1>3, <1>4, BelowBounds
<1>6. j \notin Preceding(s, j)
  <2>1. ~(s[j] < s[j]) /\ ~(j < j)
    BY <1>1
  <2>. QED
    BY <2>1 DEF Preceding
<1>7. Cardinality(Preceding(s, j) \cup {j}) = i
  <2>1. Cardinality(Preceding(s, j) \cup {j}) = Cardinality(Preceding(s, j)) + 1
    BY <1>3, <1>6, FS_AddElement
  <2>. QED
    BY <1>2, <2>1
<1>8. Preceding(s, j) \cup {j} \in SUBSET Lower(s, 0, n, s[j] + 1)
  <2>1. ASSUME NEW k \in Preceding(s, j) \cup {j} PROVE k \in 1..n /\ s[k] < s[j] + 1
    <3>1. k \in 1..n /\ (s[k] < s[j] \/ s[k] = s[j])
      BY <1>1 DEF Preceding
    <3>2. s[k] \in Int /\ s[j] \in Int
      BY <1>1, <3>1
    <3>. QED
      BY <3>1, <3>2
  <2>. QED
    BY <2>1 DEF Lower
<1>9. i <= Below(s, 0, n, s[j] + 1)
  BY <1>7, <1>8, BelowBounds
<1>. QED
  BY <1>1, <1>2, <1>5, <1>9

\* The only ascending vector with as many smaller elements as s, whatever the value, is
\* Sorted(s): repeated values do no harm.
LEMMA SortedUnique ==
  ASSUME NEW s, NEW r, NEW n \in Nat, Vector(s, n), Vector(r, n),
         Ascends(r, 0, n), \A v \in Int : Below(r, 0, n, v) = Below(s, 0, n, v)
  PROVE  r = Sorted(s)
<1>1. ASSUME NEW i \in 1..n PROVE r[i] = Sorted(s)[i]
  <2>1. r[i] \in Int /\ Sorted(s)[i] \in Int
    BY SortedRank, VectorAt
  <2>2. PICK x \in Int, y \in Int : x = r[i] /\ y = Sorted(s)[i]
    BY <2>1
  <2>3. \A k \in 1..n : r[k] \in Int /\ s[k] \in Int
    BY VectorAt
  <2>4. Below(r, 0, n, x) <= i - 1 /\ i <= Below(r, 0, n, x + 1)
    BY <2>2, <2>3, AscendingRank
  <2>5. Below(s, 0, n, x) <= i - 1 /\ i <= Below(s, 0, n, x + 1)
    BY <2>4
  <2>6. Below(s, 0, n, y) <= i - 1 /\ i <= Below(s, 0, n, y + 1)
    BY <2>2, SortedRank
  <2>7. i \in Int
    OBVIOUS
  <2>8. x = y
    BY <2>3, <2>5, <2>6, <2>7, RankUnique
  <2>. QED
    BY <2>2, <2>8
<1>2. Sorted(s) = [i \in 1..n |-> Sorted(s)[i]]
  <2>1. Len(s) = n
    BY VectorAt
  <2>. QED
    BY <2>1 DEF Sorted
<1>3. r = [i \in 1..n |-> r[i]]
  BY VectorAt
<1>. QED
  BY <1>1, <1>2, <1>3

\* Two vectors behind each other.
LEMMA JoinedSeqs ==
  ASSUME NEW l \in Seq(Int), NEW r \in Seq(Int)
  PROVE  /\ l \o r \in Seq(Int) /\ Len(l \o r) = Len(l) + Len(r)
         /\ \A i \in 1..Len(l) : (l \o r)[i] = l[i]
         /\ \A i \in 1..Len(r) : (l \o r)[Len(l) + i] = r[i]
OBVIOUS

\* The same of vectors of known lengths.
LEMMA JoinedVectors ==
  ASSUME NEW l, NEW r, NEW m \in Nat, NEW n \in Nat, Vector(l, m), Vector(r, n), NEW z, z = m + n
  PROVE  /\ Vector(l \o r, z)
         /\ \A i \in 1..m : (l \o r)[i] = l[i]
         /\ Follows(l \o r, r, m, n)
<1>1. l \in Seq(Int) /\ r \in Seq(Int) /\ Len(l) = m /\ Len(r) = n
  BY VectorAt
<1>2. PICK t : t = l \o r
  OBVIOUS
<1>3. /\ t \in Seq(Int) /\ Len(t) = Len(l) + Len(r)
      /\ \A i \in 1..Len(l) : t[i] = l[i]
      /\ \A i \in 1..Len(r) : t[Len(l) + i] = r[i]
  BY <1>1, <1>2, JoinedSeqs
<1>4. t \in Seq(Int) /\ Len(t) = m + n /\ (\A i \in 1..m : t[i] = l[i]) /\ \A i \in 1..n : t[m + i] = r[i]
  BY <1>1, <1>3, Zenon
<1>. QED
  BY <1>2, <1>4 DEF Vector, Follows

\* ... have as many smaller elements as both.
LEMMA JoinedBelow ==
  ASSUME NEW t, NEW l, NEW r, NEW m \in Nat, NEW n \in Nat, NEW z \in Nat, NEW v, z = m + n,
         \A i \in 1..m : t[i] = l[i], Follows(t, r, m, n)
  PROVE  Below(t, 0, z, v) = Below(l, 0, m, v) + Below(r, 0, n, v)
<1>0. Lower(t, 0, m, v) = Lower(l, 0, m, v)
  BY DEF Lower
<1>1. Below(t, m, z, v) = Below(r, 0, n, v)
  BY BelowShift
<1>2. 0 + 1 = 1 /\ 0 <= m /\ m <= z
  OBVIOUS
<1>3. Below(t, 0, z, v) = Below(t, 0, m, v) + Below(t, m, z, v)
  BY <1>2, BelowSplit
<1>4. Below(t, 0, m, v) = Below(l, 0, m, v)
  BY <1>0 DEF Below
<1>. QED
  BY <1>1, <1>3, <1>4

\* ... and the only one with as many as l and r together is Merged(l, r).
LEMMA MergedUnique ==
  ASSUME NEW l, NEW r, NEW s, NEW m \in Nat, NEW n \in Nat,
         Vector(l, m), Vector(r, n), Vector(s, m + n), Ascends(s, 0, m + n),
         \A v \in Int : Below(s, 0, m + n, v) = Below(l, 0, m, v) + Below(r, 0, n, v)
  PROVE  s = Merged(l, r)
<1>1. PICK t : t = l \o r
  OBVIOUS
<1>2. PICK z \in Nat : z = m + n
  OBVIOUS
<1>3. Vector(t, z) /\ (\A i \in 1..m : t[i] = l[i]) /\ Follows(t, r, m, n)
  BY <1>1, <1>2, JoinedVectors
<1>4. \A v : Below(t, 0, z, v) = Below(l, 0, m, v) + Below(r, 0, n, v)
  BY <1>2, <1>3, JoinedBelow
<1>5. s = Sorted(t)
  <2>1. Vector(s, z) /\ Vector(t, z) /\ Ascends(s, 0, z)
    BY <1>2, <1>3
  <2>2. \A v \in Int : Below(s, 0, z, v) = Below(t, 0, z, v)
    BY <1>2, <1>4
  <2>. QED
    BY <2>1, <2>2, SortedUnique
<1>. QED
  BY <1>1, <1>5 DEF Merged

---------------------------------------------------------------------------------
(* Merged stretches. *)

\* Some element is smaller exactly if one is counted ...
LEMMA BelowSome ==
  ASSUME NEW s, NEW a \in Int, NEW b \in Int, NEW v
  PROVE  (\E p \in (a + 1)..b : s[p] < v) <=> Below(s, a, b, v) > 0
<1>1. IsFiniteSet(Lower(s, a, b, v)) /\ Below(s, a, b, v) \in Nat
  BY BelowNat
<1>2. Cardinality(Lower(s, a, b, v)) = 0 <=> Lower(s, a, b, v) = {}
  BY <1>1, FS_EmptySet
<1>3. (\E p \in (a + 1)..b : s[p] < v) <=> Lower(s, a, b, v) # {}
  BY DEF Lower
<1>. QED
  BY <1>1, <1>2, <1>3 DEF Below

\* ... and some is not exactly if not all are.
LEMMA BelowAll ==
  ASSUME NEW s, NEW a \in Int, NEW b \in Int, a <= b, NEW v
  PROVE  (\E p \in (a + 1)..b : ~(s[p] < v)) <=> Below(s, a, b, v) < b - a
<1>. DEFINE R == (a + 1)..b
<1>1. IsFiniteSet(Lower(s, a, b, v)) /\ Below(s, a, b, v) \in Nat
  BY BelowNat
<1>2. IsFiniteSet(R) /\ Cardinality(R) = b - a
  <2>1. a + 1 \in Int /\ (a + 1 > b <=> a = b) /\ b - (a + 1) + 1 = b - a
    BY DEF R
  <2>2. Cardinality(R) = IF a + 1 > b THEN 0 ELSE b - (a + 1) + 1
    BY FS_Interval
  <2>3. IsFiniteSet(R)
    BY FS_Interval
  <2>. QED
    BY <2>1, <2>2, <2>3
<1>3. Lower(s, a, b, v) \in SUBSET R
  BY DEF Lower
<1>4. (\E p \in R : ~(s[p] < v)) <=> Lower(s, a, b, v) # R
  BY DEF Lower
<1>. HIDE DEF R
<1>5. Cardinality(Lower(s, a, b, v)) <= Cardinality(R)
      /\ (Cardinality(Lower(s, a, b, v)) = Cardinality(R) => Lower(s, a, b, v) = R)
  BY <1>1, <1>2, <1>3, FS_Subset
<1>6. (\E p \in R : ~(s[p] < v)) <=> Below(s, a, b, v) < b - a
  BY <1>1, <1>2, <1>4, <1>5 DEF Below
<1>. QED
  BY <1>6 DEF R

\* The elements of s behind the first i + j, up to the (k + l)-th, are those of x behind
\* the first i, up to the k-th, and those of y behind the first j, up to the l-th, in order.
HoldsMerge(s, x, y, i, j, k, l) ==
  /\ \A p \in (i + j + 1)..(k + l) : s[p] \in Int
  /\ Ascends(s, i + j, k + l)
  /\ \A v \in Int : Below(s, i + j, k + l, v) = Below(x, i, k, v) + Below(y, j, l, v)

\* Nothing of x and y behind i and j and before c and d is above anything from there up to
\* k and l.
Divides(x, y, i, j, c, d, k, l) ==
  /\ \A p \in (i + 1)..c : /\ x[p] \in Int
                           /\ \A q \in (c + 1)..k : x[p] <= x[q]
                           /\ \A q \in (d + 1)..l : x[p] <= y[q]
  /\ \A p \in (j + 1)..d : /\ y[p] \in Int
                           /\ \A q \in (c + 1)..k : y[p] <= x[q]
                           /\ \A q \in (d + 1)..l : y[p] <= y[q]
  /\ \A q \in (c + 1)..k : x[q] \in Int
  /\ \A q \in (d + 1)..l : y[q] \in Int

\* Then the two merged stretches stand in order.
LEMMA StretchesAscend ==
  ASSUME NEW s, NEW x, NEW y, NEW i \in Nat, NEW j \in Nat, NEW c \in Nat, NEW d \in Nat,
         NEW k \in Nat, NEW l \in Nat, i <= c, c <= k, j <= d, d <= l,
         HoldsMerge(s, x, y, i, j, c, d), HoldsMerge(s, x, y, c, d, k, l), Divides(x, y, i, j, c, d, k, l),
         NEW p \in (i + j + 1)..(c + d), NEW q \in (c + d + 1)..(k + l)
  PROVE  s[p] <= s[q]
<1>1. PICK a \in Int, b \in Int, e \in Int : a = i + j /\ b = c + d /\ e = k + l
  OBVIOUS
<1>2. /\ p \in (a + 1)..b /\ q \in (b + 1)..e /\ a <= b /\ b <= e
      /\ \A v \in Int : Below(s, a, b, v) = Below(x, i, c, v) + Below(y, j, d, v)
      /\ \A v \in Int : Below(s, b, e, v) = Below(x, c, k, v) + Below(y, d, l, v)
      /\ s[p] \in Int /\ s[q] \in Int
  BY <1>1 DEF HoldsMerge
<1>3. SUFFICES ASSUME s[q] < s[p] PROVE FALSE
  BY <1>2
<1>4. PICK v \in Int, w \in Int : v = s[p] /\ w = s[q] + 1 /\ w <= v
  BY <1>2, <1>3
<1>5. Below(s, a, b, v) < b - a
  <2>1. ~(s[p] < v)
    BY <1>2, <1>4
  <2>. QED
    BY <1>2, <2>1, BelowAll
<1>6. Below(s, b, e, w) > 0
  <2>1. s[q] < w
    BY <1>2, <1>4
  <2>. QED
    BY <1>2, <2>1, BelowSome
<1>7. /\ Below(x, i, c, v) \in Nat /\ Below(y, j, d, v) \in Nat
      /\ Below(x, c, k, w) \in Nat /\ Below(y, d, l, w) \in Nat
  BY BelowNat
<1>8. Below(x, i, c, v) < c - i \/ Below(y, j, d, v) < d - j
  <2>1. Below(x, i, c, v) + Below(y, j, d, v) < (c + d) - (i + j)
    BY <1>1, <1>2, <1>5
  <2>. QED
    BY <1>7, <2>1
<1>9. Below(x, c, k, w) > 0 \/ Below(y, d, l, w) > 0
  BY <1>2, <1>6, <1>7
<1>10. (\E f \in (i + 1)..c : ~(x[f] < v)) \/ (\E f \in (j + 1)..d : ~(y[f] < v))
  BY <1>8, BelowAll
<1>11. (\E g \in (c + 1)..k : x[g] < w) \/ (\E g \in (d + 1)..l : y[g] < w)
  BY <1>9, BelowSome
<1>12. ASSUME NEW f \in Int, NEW g \in Int, ~(f < v), g < w PROVE ~(f <= g)
  BY <1>4, <1>12
<1>. QED
  BY <1>10, <1>11, <1>12 DEF Divides

\* ... and are one.
LEMMA MergeJoin ==
  ASSUME NEW s, NEW x, NEW y, NEW i \in Nat, NEW j \in Nat, NEW c \in Nat, NEW d \in Nat,
         NEW k \in Nat, NEW l \in Nat, i <= c, c <= k, j <= d, d <= l,
         HoldsMerge(s, x, y, i, j, c, d), HoldsMerge(s, x, y, c, d, k, l), Divides(x, y, i, j, c, d, k, l)
  PROVE  HoldsMerge(s, x, y, i, j, k, l)
<1>1. PICK a \in Int, b \in Int, e \in Int : a = i + j /\ b = c + d /\ e = k + l
  OBVIOUS
<1>2. /\ \A p \in (a + 1)..b : s[p] \in Int
      /\ \A p \in (b + 1)..e : s[p] \in Int
      /\ \A p, q \in (a + 1)..b : p <= q => s[p] <= s[q]
      /\ \A p, q \in (b + 1)..e : p <= q => s[p] <= s[q]
      /\ \A v \in Int : Below(s, a, b, v) = Below(x, i, c, v) + Below(y, j, d, v)
      /\ \A v \in Int : Below(s, b, e, v) = Below(x, c, k, v) + Below(y, d, l, v)
      /\ a <= b /\ b <= e
  BY <1>1 DEF HoldsMerge, Ascends
<1>3. \A p \in (a + 1)..b, q \in (b + 1)..e : s[p] <= s[q]
  BY <1>1, StretchesAscend
<1>4. \A p \in (a + 1)..e : p \in (a + 1)..b \/ p \in (b + 1)..e
  BY <1>2
<1>5. \A p \in (a + 1)..e : s[p] \in Int
  BY <1>2, <1>4
<1>6. Ascends(s, a, e)
  <2>1. ASSUME NEW p \in (a + 1)..e, NEW q \in (a + 1)..e, p <= q PROVE s[p] <= s[q]
    <3>1. ~(p \in (b + 1)..e /\ q \in (a + 1)..b)
      BY <2>1
    <3>. QED
      BY <1>2, <1>3, <1>4, <2>1, <3>1
  <2>. QED
    BY <2>1 DEF Ascends
<1>7. ASSUME NEW v \in Int PROVE Below(s, a, e, v) = Below(x, i, k, v) + Below(y, j, l, v)
  <2>1. Below(s, a, e, v) = Below(s, a, b, v) + Below(s, b, e, v)
    BY <1>2, BelowSplit
  <2>2. /\ Below(x, i, k, v) = Below(x, i, c, v) + Below(x, c, k, v)
        /\ Below(y, j, l, v) = Below(y, j, d, v) + Below(y, d, l, v)
    BY BelowSplit
  <2>3. /\ Below(x, i, c, v) \in Nat /\ Below(y, j, d, v) \in Nat
        /\ Below(x, c, k, v) \in Nat /\ Below(y, d, l, v) \in Nat
    BY BelowNat
  <2>4. /\ Below(s, a, b, v) = Below(x, i, c, v) + Below(y, j, d, v)
        /\ Below(s, b, e, v) = Below(x, c, k, v) + Below(y, d, l, v)
    BY <1>2
  <2>. QED
    BY <2>1, <2>2, <2>3, <2>4
<1>. QED
  BY <1>1, <1>5, <1>6, <1>7 DEF HoldsMerge

\* Nothing merges to nothing, and one element to itself.
LEMMA MergeFew ==
  ASSUME NEW s, NEW x, NEW y, NEW i \in Nat, NEW j \in Nat
  PROVE  /\ HoldsMerge(s, x, y, i, j, i, j)
         /\ x[i + 1] \in Int /\ s[i + j + 1] = x[i + 1] => HoldsMerge(s, x, y, i, j, i + 1, j)
         /\ y[j + 1] \in Int /\ s[i + j + 1] = y[j + 1] => HoldsMerge(s, x, y, i, j, i, j + 1)
<1>1. PICK a \in Int : a = i + j
  OBVIOUS
<1>2. /\ i + 1 + j = a + 1 /\ i + (j + 1) = a + 1 /\ (a + 1)..(a + 1) = {a + 1}
      /\ \A p \in (a + 1)..a : FALSE
  BY <1>1
<1>3. ASSUME NEW v PROVE /\ Below(s, a, a, v) = 0 /\ Below(x, i, i, v) = 0 /\ Below(y, j, j, v) = 0
                         /\ Below(s, a, a + 1, v) = IF s[a + 1] < v THEN 1 ELSE 0
                         /\ Below(x, i, i + 1, v) = IF x[i + 1] < v THEN 1 ELSE 0
                         /\ Below(y, j, j + 1, v) = IF y[j + 1] < v THEN 1 ELSE 0
  BY BelowFew
<1>4. Ascends(s, a, a) /\ (s[a + 1] \in Int => Ascends(s, a, a + 1))
  BY <1>2 DEF Ascends
<1>5. HoldsMerge(s, x, y, i, j, i, j)
  BY <1>1, <1>2, <1>3, <1>4 DEF HoldsMerge
<1>6. ASSUME x[i + 1] \in Int, s[a + 1] = x[i + 1] PROVE HoldsMerge(s, x, y, i, j, i + 1, j)
  <2>1. \A v \in Int : Below(s, a, a + 1, v) = Below(x, i, i + 1, v) + Below(y, j, j, v)
    BY <1>3, <1>6
  <2>. QED
    BY <1>1, <1>2, <1>4, <1>6, <2>1 DEF HoldsMerge
<1>7. ASSUME y[j + 1] \in Int, s[a + 1] = y[j + 1] PROVE HoldsMerge(s, x, y, i, j, i, j + 1)
  <2>1. \A v \in Int : Below(s, a, a + 1, v) = Below(x, i, i, v) + Below(y, j, j + 1, v)
    BY <1>3, <1>7
  <2>. QED
    BY <1>1, <1>2, <1>4, <1>7, <2>1 DEF HoldsMerge
<1>. QED
  BY <1>1, <1>5, <1>6, <1>7

\* One element of each, the smaller first.
LEMMA MergeTwo ==
  ASSUME NEW s, NEW x, NEW y, NEW i \in Nat, NEW j \in Nat, x[i + 1] \in Int, y[j + 1] \in Int,
         s[i + j + 1] = IF x[i + 1] < y[j + 1] THEN x[i + 1] ELSE y[j + 1],
         s[i + j + 2] = IF x[i + 1] < y[j + 1] THEN y[j + 1] ELSE x[i + 1]
  PROVE  HoldsMerge(s, x, y, i, j, i + 1, j + 1)
<1>1. (i + 1) + j + 1 = i + j + 2 /\ i + (j + 1) + 1 = i + j + 2 /\ i + 1 \in Nat /\ j + 1 \in Nat
  OBVIOUS
<1>2. PICK i1 \in Nat, j1 \in Nat : i1 = i + 1 /\ j1 = j + 1
  BY <1>1
<1>3. \A n \in Nat : (n + 1)..n = {} /\ (n + 1)..(n + 1) = {n + 1}
  OBVIOUS
<1>4. CASE x[i + 1] < y[j + 1]
  <2>1. HoldsMerge(s, x, y, i, j, i1, j) /\ HoldsMerge(s, x, y, i1, j, i1, j1)
    BY <1>1, <1>2, <1>4, MergeFew
  <2>2. Divides(x, y, i, j, i1, j, i1, j1)
    BY <1>2, <1>3, <1>4 DEF Divides
  <2>3. i <= i1 /\ i1 <= i1 /\ j <= j /\ j <= j1
    BY <1>2
  <2>4. HoldsMerge(s, x, y, i, j, i1, j1)
    BY <2>1, <2>2, <2>3, MergeJoin
  <2>. QED
    BY <1>2, <2>4
<1>5. CASE ~(x[i + 1] < y[j + 1])
  <2>1. HoldsMerge(s, x, y, i, j, i, j1) /\ HoldsMerge(s, x, y, i, j1, i1, j1)
    BY <1>1, <1>2, <1>5, MergeFew
  <2>2. Divides(x, y, i, j, i, j1, i1, j1)
    BY <1>2, <1>3, <1>5 DEF Divides
  <2>3. i <= i /\ i <= i1 /\ j <= j1 /\ j1 <= j1
    BY <1>2
  <2>4. HoldsMerge(s, x, y, i, j, i1, j1)
    BY <2>1, <2>2, <2>3, MergeJoin
  <2>. QED
    BY <1>2, <2>4
<1>. QED
  BY <1>4, <1>5

\* It is a matter of the stretch alone.
LEMMA MergeSame ==
  ASSUME NEW s, NEW t, NEW x, NEW y, NEW i \in Nat, NEW j \in Nat, NEW k \in Nat, NEW l \in Nat,
         HoldsMerge(s, x, y, i, j, k, l), \A p \in (i + j + 1)..(k + l) : t[p] = s[p]
  PROVE  HoldsMerge(t, x, y, i, j, k, l)
<1>1. PICK a \in Int, b \in Int : a = i + j /\ b = k + l
  OBVIOUS
<1>2. \A p \in (a + 1)..b : s[p] = t[p]
  BY <1>1
<1>3. \A v \in Int : Below(s, a, b, v) = Below(t, a, b, v)
  BY <1>2, BelowSame
<1>. QED
  BY <1>1, <1>2, <1>3 DEF HoldsMerge, Ascends

\* The whole of s is the merge of the whole of x and y.
LEMMA MergeAll ==
  ASSUME NEW s, NEW x, NEW y, NEW m \in Nat, NEW n \in Nat, Vector(x, m), Vector(y, n),
         Vector(s, m + n), HoldsMerge(s, x, y, 0, 0, m, n)
  PROVE  s = Merged(x, y)
<1>1. PICK z \in Nat : z = m + n
  OBVIOUS
<1>2. 0 + 0 = 0
  OBVIOUS
<1>3. Ascends(s, 0, m + n) /\ \A v \in Int : Below(s, 0, m + n, v) = Below(x, 0, m, v) + Below(y, 0, n, v)
  BY <1>2 DEF HoldsMerge
<1>. QED
  BY <1>3, MergedUnique

---------------------------------------------------------------------------------
(* The arithmetic of the split loop of PMerge, as the function in LastPieceEmpty. *)

\* One turn of the loop, which iterates with f, and the equation of the loop.
CutTurn(z, n, f, c, i) ==
  LET cuts == c = (i * z) \div n
  IN IF c = z - 1 THEN cuts ELSE f[<<c + 1, IF cuts THEN i + 1 ELSE i>>]

IsCutLoop(z, n, f) ==
  f = [at \in (0..(z - 1)) \X (Nat \ {0}) |-> CutTurn(z, n, f, at[1], at[2])]

CutLoop(z, n) == CHOOSE f : IsCutLoop(z, n, f)

\* The loop is a function that satisfies its equation, if there is one ...
LEMMA CutLoopChoice ==
  ASSUME NEW z, NEW n
  PROVE  LastPieceEmpty(z, n) = CutLoop(z, n)[<<0, 1>>]
BY DEF LastPieceEmpty, CutLoop, IsCutLoop, CutTurn

\* ... and there is: the turns from a count on determine the one before.
LEMMA CutLoopExists ==
  ASSUME NEW z \in Nat, NEW n
  PROVE  \E f : IsCutLoop(z, n, f)
<1>. DEFINE D == (0..(z - 1)) \X (Nat \ {0})
            Up(k, f) == \A c \in 0..(z - 1), i \in Nat \ {0} :
                          c >= z - k => f[<<c, i>>] = CutTurn(z, n, f, c, i)
            On(f) == f = [at \in D |-> f[at]]
            S == {k \in Nat : ~\E f : On(f) /\ Up(k, f)}
<1>1. S = {}
  <2>1. SUFFICES ASSUME S # {} PROVE FALSE
    OBVIOUS
  <2>2. PICK k \in S : \A l \in S : k <= l
    <3>1. S \in SUBSET Nat
      OBVIOUS
    <3>. HIDE DEF S
    <3>. QED
      BY <2>1, <3>1, NatMin
  <2>3. k \in Nat /\ ~\E f : On(f) /\ Up(k, f)
    OBVIOUS
  <2>4. k # 0
    <3>. DEFINE f == [at \in D |-> FALSE]
    <3>1. On(f)
      OBVIOUS
    <3>2. Up(0, f)
      OBVIOUS
    <3>. HIDE DEF f, On, Up
    <3>. QED
      BY <2>3, <3>1, <3>2
  <2>5. k - 1 \in Nat /\ k - 1 \notin S
    <3>1. k - 1 \in Nat /\ ~(k <= k - 1)
      BY <2>3, <2>4
    <3>. HIDE DEF S
    <3>. QED
      BY <2>2, <3>1
  <2>6. PICK f : On(f) /\ Up(k - 1, f)
    BY <2>5
  <2>. DEFINE g == [at \in D |-> CutTurn(z, n, f, at[1], at[2])]
  <2>7. On(g)
    OBVIOUS
  <2>8. \A c \in 0..(z - 1), i \in Nat \ {0} : g[<<c, i>>] = CutTurn(z, n, f, c, i)
    OBVIOUS
  <2>9. \A c \in 0..(z - 1), i \in Nat \ {0} : c >= z - (k - 1) => f[<<c, i>>] = g[<<c, i>>]
    BY <2>6, <2>8
  <2>. HIDE DEF g
  <2>10. ASSUME NEW c \in 0..(z - 1), NEW i \in Nat \ {0}, c >= z - k
         PROVE  g[<<c, i>>] = CutTurn(z, n, g, c, i)
    <3>1. CASE c = z - 1
      BY <2>8, <3>1 DEF CutTurn
    <3>2. CASE c # z - 1
      <4>1. c + 1 \in 0..(z - 1) /\ c + 1 >= z - (k - 1)
        BY <2>3, <2>10, <3>2
      <4>2. i \in Nat \ {0} /\ i + 1 \in Nat \ {0}
        OBVIOUS
      <4>3. f[<<c + 1, i>>] = g[<<c + 1, i>>] /\ f[<<c + 1, i + 1>>] = g[<<c + 1, i + 1>>]
        BY <2>9, <4>1, <4>2
      <4>. QED
        BY <2>8, <3>2, <4>3 DEF CutTurn
    <3>. QED
      BY <3>1, <3>2
  <2>11. Up(k, g)
    BY <2>10
  <2>. HIDE DEF On, Up
  <2>. QED
    BY <2>3, <2>7, <2>11
<1>2. z \in Nat /\ z \notin S
  BY <1>1
<1>3. PICK f : On(f) /\ Up(z, f)
  BY <1>2
<1>4. \A c \in 0..(z - 1), i \in Nat \ {0} : f[<<c, i>>] = CutTurn(z, n, f, c, i)
  <2>1. \A c \in 0..(z - 1) : c >= z - z
    OBVIOUS
  <2>. QED
    BY <1>3, <2>1
<1>5. f = [at \in D |-> CutTurn(z, n, f, at[1], at[2])]
  BY <1>3, <1>4
<1>. QED
  BY <1>5 DEF IsCutLoop

\* One turn of the loop.
LEMMA CutLoopTurn ==
  ASSUME NEW z \in Nat, NEW n, NEW c \in 0..(z - 1), NEW i \in Nat \ {0}
  PROVE  CutLoop(z, n)[<<c, i>>] = CutTurn(z, n, CutLoop(z, n), c, i)
<1>. DEFINE f == CutLoop(z, n)
<1>1. \E g : IsCutLoop(z, n, g)
  BY CutLoopExists
<1>2. IsCutLoop(z, n, f)
  BY <1>1 DEF CutLoop
<1>. QED
  BY <1>2 DEF IsCutLoop
=================================================================================
