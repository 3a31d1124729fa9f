---------------------------- MODULE PMergeSortProofs ----------------------------
(***************************************************************************)
(* Theorems about PMergeSort, for inputs of any length and any number of   *)
(* workers: the vectors it holds stay sorted and apart, and with 1, 2, 3   *)
(* or 5 workers it returns the sorted input whenever it returns.  And      *)
(* about FindMedian, for spans of every length: what it returns is the     *)
(* median, and it throws only on spans it cannot answer.                   *)
(***************************************************************************)
EXTENDS PMergeSort, MedianSearch, MergeLemmas, SequenceTheorems

---------------------------------------------------------------------------------
(* What Sorted returns. *)

\* Sorted(s) has the elements of s, in ascending order; strictly so when they differ.
LEMMA SortedFacts ==
  ASSUME NEW s \in Seq(Int)
  PROVE  /\ Sorted(s) \in Seq(Int) /\ Len(Sorted(s)) = Len(s)
         /\ ToSet(Sorted(s)) = ToSet(s)
         /\ \A i, k \in 1..Len(s) : i < k => Sorted(s)[i] <= Sorted(s)[k]
         /\ Distinct(s) => \A i, k \in 1..Len(s) : i < k => Sorted(s)[i] < Sorted(s)[k]
<1>. DEFINE from == [i \in 1..Len(s) |->
                       CHOOSE j \in 1..Len(s) : Cardinality(Preceding(s, j)) = i - 1]
<1>1. /\ Len(s) \in Nat /\ \A i \in 1..Len(s) : s[i] \in Int
      /\ DOMAIN s = 1..Len(s)
  OBVIOUS
<1>2. ASSUME NEW i \in 1..Len(s)
      PROVE  from[i] \in 1..Len(s) /\ Cardinality(Preceding(s, from[i])) = i - 1
  BY PrecedingOnto
<1>3. Sorted(s) = [i \in 1..Len(s) |-> s[from[i]]]
  BY DEF Sorted
<1>. HIDE DEF from
<1>4. ASSUME NEW j \in 1..Len(s)
      PROVE  \E i \in 1..Len(s) : from[i] = j
  <2>1. PICK i \in 1..Len(s) : i - 1 = Cardinality(Preceding(s, j))
    <3>1. PICK c \in 0..(Len(s) - 1) : c = Cardinality(Preceding(s, j))
      BY PrecedingFinite
    <3>2. c + 1 \in 1..Len(s) /\ (c + 1) - 1 = c
      BY <1>1
    <3>. QED
      BY <3>1, <3>2
  <2>2. from[i] \in 1..Len(s) /\ Cardinality(Preceding(s, from[i])) = i - 1
    BY <1>2
  <2>3. from[i] = j
    BY <2>1, <2>2, PrecedingTotal
  <2>. QED
    BY <2>3
<1>. DEFINE t == Sorted(s)
<1>5. t \in [1..Len(s) -> Int] /\ \A i \in 1..Len(s) : t[i] = s[from[i]]
  BY <1>1, <1>2, <1>3
<1>6. t \in Seq(Int) /\ Len(t) = Len(s) /\ DOMAIN t = 1..Len(s)
  BY <1>1, <1>5
<1>7. ToSet(t) = ToSet(s)
  <2>1. \A i \in 1..Len(s) : t[i] \in ToSet(s)
    BY <1>1, <1>2, <1>5 DEF ToSet
  <2>2. \A j \in 1..Len(s) : s[j] \in ToSet(t)
    BY <1>4, <1>5, <1>6 DEF ToSet
  <2>. QED
    BY <1>1, <1>6, <2>1, <2>2 DEF ToSet
<1>8. ASSUME NEW i \in 1..Len(s), NEW k \in 1..Len(s), i < k
      PROVE  t[i] <= t[k] /\ (Distinct(s) => t[i] < t[k])
  <2>1. PICK x \in 1..Len(s) : x = from[i] /\ Cardinality(Preceding(s, x)) = i - 1
    BY <1>2
  <2>2. PICK y \in 1..Len(s) : y = from[k] /\ Cardinality(Preceding(s, y)) = k - 1
    BY <1>2
  <2>3. x # y
    BY <1>1, <1>8, <2>1, <2>2
  <2>4. y \notin Preceding(s, x)
    <3>1. ASSUME y \in Preceding(s, x) PROVE FALSE
      <4>1. Cardinality(Preceding(s, y)) < Cardinality(Preceding(s, x))
        BY <3>1, PrecedingLess
      <4>. QED
        BY <1>1, <1>8, <2>1, <2>2, <4>1
    <3>. QED
      BY <3>1
  <2>5. s[x] < s[y] \/ s[x] = s[y]
    BY <2>3, <2>4, PrecedingTotal DEF Preceding
  <2>6. Distinct(s) => s[x] # s[y]
    BY <2>3 DEF Distinct
  <2>. QED
    BY <1>1, <1>5, <2>1, <2>2, <2>5, <2>6
<1>. QED
  BY <1>6, <1>7, <1>8

---------------------------------------------------------------------------------
(* Ascending sequences. *)

\* Neighbours in order are all in order.
LEMMA AscendingPairs ==
  ASSUME NEW s \in Seq(Int), Ascending(s), NEW i \in 1..Len(s), NEW k \in 1..Len(s), i < k
  PROVE  s[i] < s[k]
<1>. DEFINE Bad == {n \in 1..Len(s) : i < n /\ ~(s[i] < s[n])}
<1>1. Len(s) \in Nat /\ \A n \in 1..Len(s) : s[n] \in Int
  OBVIOUS
<1>2. ASSUME Bad # {} PROVE FALSE
  <2>1. Bad \in SUBSET Nat
    OBVIOUS
  <2>2. PICK n \in Bad : \A m \in Bad : n <= m
    <3>. HIDE DEF Bad
    <3>. QED
      BY <1>2, <2>1, NatMin
  <2>3. n \in 1..Len(s) /\ i < n /\ ~(s[i] < s[n])
    BY <2>2
  <2>4. n - 1 \in 1..(Len(s) - 1) /\ n - 1 + 1 = n /\ n - 1 \in 1..Len(s)
    BY <1>1, <2>3
  <2>5. s[n - 1] < s[n]
    BY <2>4 DEF Ascending
  <2>6. CASE n - 1 = i
    BY <2>3, <2>5, <2>6
  <2>7. CASE n - 1 # i
    <3>1. i < n - 1 /\ ~(n <= n - 1)
      BY <1>1, <2>3, <2>7
    <3>2. s[i] < s[n - 1]
      BY <2>2, <2>4, <3>1
    <3>. QED
      BY <1>1, <2>3, <2>4, <2>5, <3>2
  <2>. QED
    BY <2>6, <2>7
<1>. QED
  BY <1>1, <1>2

\* And so its elements differ.
LEMMA AscendingDistinct ==
  ASSUME NEW s \in Seq(Int), Ascending(s)
  PROVE  Distinct(s)
<1>1. ASSUME NEW i \in 1..Len(s), NEW k \in 1..Len(s), s[i] = s[k] PROVE i = k
  <2>1. s[i] \in Int /\ ~(s[i] < s[k]) /\ ~(s[k] < s[i])
    BY <1>1
  <2>2. ~(i < k) /\ ~(k < i)
    BY <2>1, AscendingPairs
  <2>. QED
    BY <2>2
<1>. QED
  BY <1>1 DEF Distinct

\* Sorting elements that differ makes them ascend.
LEMMA SortedAscends ==
  ASSUME NEW s \in Seq(Int), Distinct(s)
  PROVE  Sorted(s) \in Seq(Int) /\ Ascending(Sorted(s)) /\ ToSet(Sorted(s)) = ToSet(s)
<1>1. Len(s) \in Nat
  OBVIOUS
<1>2. \A i \in 1..(Len(s) - 1) : i \in 1..Len(s) /\ i + 1 \in 1..Len(s) /\ i < i + 1
  BY <1>1
<1>. QED
  BY <1>2, SortedFacts DEF Ascending

\* Where two ascending sequences agree so far, the one with all values of the other has not
\* ended, and is not above it.
LEMMA NotAbove ==
  ASSUME NEW s \in Seq(Int), NEW t \in Seq(Int), Ascending(s), Ascending(t),
         ToSet(s) \subseteq ToSet(t), NEW i \in 1..Len(s),
         \A k \in 1..(i - 1) : k <= Len(t) /\ s[k] = t[k]
  PROVE  i <= Len(t) /\ t[i] <= s[i]
<1>1. /\ Len(s) \in Nat /\ Len(t) \in Nat /\ DOMAIN s = 1..Len(s) /\ DOMAIN t = 1..Len(t)
      /\ \A n \in 1..Len(s) : s[n] \in Int
      /\ \A n \in 1..Len(t) : t[n] \in Int
  OBVIOUS
<1>2. PICK k \in 1..Len(t) : t[k] = s[i]
  <2>1. s[i] \in ToSet(t)
    BY <1>1 DEF ToSet
  <2>. QED
    BY <1>1, <2>1 DEF ToSet
<1>3. ~(k < i)
  <2>1. ASSUME k < i PROVE FALSE
    <3>1. k \in 1..(i - 1) /\ k \in 1..Len(s)
      BY <1>1, <2>1
    <3>2. s[k] = s[i]
      BY <1>2, <3>1
    <3>3. s[k] < s[i]
      BY <2>1, <3>1, AscendingPairs
    <3>. QED
      BY <1>1, <3>1, <3>2, <3>3
  <2>. QED
    BY <2>1
<1>4. i \in 1..Len(t)
  BY <1>1, <1>3
<1>5. CASE k = i
  BY <1>1, <1>2, <1>4, <1>5
<1>6. CASE k # i
  <2>1. i < k
    BY <1>1, <1>3, <1>6
  <2>2. t[i] < t[k]
    BY <1>4, <2>1, AscendingPairs
  <2>. QED
    BY <1>1, <1>2, <1>4, <2>2
<1>. QED
  BY <1>5, <1>6

\* There is one way to put values in ascending order.
LEMMA AscendingUnique ==
  ASSUME NEW s \in Seq(Int), NEW t \in Seq(Int), Ascending(s), Ascending(t),
         ToSet(s) = ToSet(t)
  PROVE  s = t
<1>1. /\ Len(s) \in Nat /\ Len(t) \in Nat
      /\ \A n \in 1..Len(s) : s[n] \in Int
      /\ \A n \in 1..Len(t) : t[n] \in Int
  OBVIOUS
<1>. DEFINE Same(n) == n <= Len(s) /\ n <= Len(t) /\ s[n] = t[n]
            Bad == {n \in Nat \ {0} : (n <= Len(s) \/ n <= Len(t)) /\ ~Same(n)}
<1>2. ASSUME Bad # {} PROVE FALSE
  <2>1. Bad \in SUBSET Nat
    OBVIOUS
  <2>2. PICK n \in Bad : \A m \in Bad : n <= m
    <3>. HIDE DEF Bad
    <3>. QED
      BY <1>2, <2>1, NatMin
  <2>3. n \in Nat \ {0} /\ (n <= Len(s) \/ n <= Len(t)) /\ ~Same(n)
    BY <2>2
  <2>4. ASSUME NEW k \in 1..(n - 1) PROVE Same(k)
    <3>1. k \in Nat \ {0} /\ ~(n <= k) /\ (k <= Len(s) \/ k <= Len(t))
      BY <1>1, <2>3
    <3>2. k \notin Bad
      BY <2>2, <3>1
    <3>. QED
      BY <3>1, <3>2
  <2>5. ASSUME n <= Len(s) PROVE n <= Len(t) /\ t[n] <= s[n]
    <3>1. n \in 1..Len(s)
      BY <1>1, <2>3, <2>5
    <3>. QED
      BY <2>4, <3>1, NotAbove
  <2>6. ASSUME n <= Len(t) PROVE n <= Len(s) /\ s[n] <= t[n]
    <3>1. n \in 1..Len(t)
      BY <1>1, <2>3, <2>6
    <3>2. \A k \in 1..(n - 1) : k <= Len(s) /\ t[k] = s[k]
      BY <2>4
    <3>. QED
      BY <3>1, <3>2, NotAbove
  <2>7. n \in 1..Len(s) /\ n \in 1..Len(t) /\ t[n] <= s[n] /\ s[n] <= t[n]
    BY <1>1, <2>3, <2>5, <2>6
  <2>8. s[n] = t[n]
    BY <1>1, <2>7
  <2>. QED
    BY <1>1, <2>3, <2>7, <2>8
<1>3. \A n \in Nat \ {0} : (n <= Len(s) \/ n <= Len(t)) => Same(n)
  BY <1>2
<1>4. Len(s) = Len(t)
  <2>1. CASE Len(s) < Len(t)
    <3>1. Len(s) + 1 \in Nat \ {0} /\ Len(s) + 1 <= Len(t) /\ ~(Len(s) + 1 <= Len(s))
      BY <1>1, <2>1
    <3>. QED
      BY <1>3, <3>1
  <2>2. CASE Len(t) < Len(s)
    <3>1. Len(t) + 1 \in Nat \ {0} /\ Len(t) + 1 <= Len(s) /\ ~(Len(t) + 1 <= Len(t))
      BY <1>1, <2>2
    <3>. QED
      BY <1>3, <3>1
  <2>. QED
    BY <1>1, <2>1, <2>2
<1>5. \A n \in 1..Len(s) : s[n] = t[n]
  BY <1>1, <1>3
<1>. QED
  BY <1>4, <1>5, SeqEqual

\* The values of a sequence.
LEMMA InToSet ==
  ASSUME NEW S, NEW s \in Seq(S), NEW x
  PROVE  x \in ToSet(s) <=> \E i \in 1..Len(s) : s[i] = x
<1>1. DOMAIN s = 1..Len(s)
  OBVIOUS
<1>. QED
  BY <1>1 DEF ToSet

\* A part of a sequence.
LEMMA Slice ==
  ASSUME NEW S, NEW s \in Seq(S), NEW a \in Nat \ {0}, NEW b \in Nat, b <= Len(s), a <= b + 1
  PROVE  /\ SubSeq(s, a, b) \in Seq(S) /\ Len(SubSeq(s, a, b)) = b + 1 - a
         /\ \A i \in 1..(b + 1 - a) : SubSeq(s, a, b)[i] = s[i + (a - 1)]
<1>1. a \in Int /\ b \in Int /\ \A i \in a..b : s[i] \in S
  OBVIOUS
<1>2. SubSeq(s, a, b) \in Seq(S)
  BY <1>1, SubSeqProperties
<1>3. Len(SubSeq(s, a, b)) = b + 1 - a
  BY <1>1, SubSeqProperties
<1>4. ASSUME NEW i \in 1..(b + 1 - a) PROVE SubSeq(s, a, b)[i] = s[i + (a - 1)]
  OBVIOUS
<1>. QED
  BY <1>2, <1>3, <1>4

\* A merge of two ascending vectors that share no value.
LEMMA MergedAscends ==
  ASSUME NEW l \in Seq(Int), NEW r \in Seq(Int), Ascending(l), Ascending(r),
         ToSet(l) \cap ToSet(r) = {}
  PROVE  /\ Merged(l, r) \in Seq(Int) /\ Ascending(Merged(l, r))
         /\ ToSet(Merged(l, r)) = ToSet(l) \cup ToSet(r)
<1>. DEFINE s == l \o r
<1>1. /\ Len(l) \in Nat /\ Len(r) \in Nat /\ DOMAIN l = 1..Len(l) /\ DOMAIN r = 1..Len(r)
  OBVIOUS
<1>2. /\ s \in Seq(Int) /\ Len(s) = Len(l) + Len(r)
      /\ \A i \in 1..(Len(l) + Len(r)) : s[i] = IF i <= Len(l) THEN l[i] ELSE r[i - Len(l)]
  BY ConcatProperties
<1>. HIDE DEF s
<1>3. DOMAIN s = 1..(Len(l) + Len(r))
  BY <1>2
<1>4. ASSUME NEW i \in 1..Len(s)
      PROVE  \/ i \in 1..Len(l) /\ s[i] = l[i]
             \/ i - Len(l) \in 1..Len(r) /\ s[i] = r[i - Len(l)] /\ ~(i <= Len(l))
  BY <1>1, <1>2
<1>5. ASSUME NEW i \in 1..Len(l) PROVE i \in 1..Len(s) /\ s[i] = l[i]
  BY <1>1, <1>2
<1>6. ASSUME NEW i \in 1..Len(r) PROVE i + Len(l) \in 1..Len(s) /\ s[i + Len(l)] = r[i]
  <2>1. i + Len(l) \in 1..(Len(l) + Len(r)) /\ ~(i + Len(l) <= Len(l)) /\ (i + Len(l)) - Len(l) = i
    BY <1>1
  <2>. QED
    BY <1>2, <2>1
<1>7. ToSet(s) = ToSet(l) \cup ToSet(r)
  <2>1. ASSUME NEW x \in ToSet(s) PROVE x \in ToSet(l) \cup ToSet(r)
    <3>1. PICK i \in 1..Len(s) : s[i] = x
      BY <1>2, InToSet
    <3>2. CASE i \in 1..Len(l) /\ s[i] = l[i]
      BY <3>1, <3>2, InToSet
    <3>3. CASE i - Len(l) \in 1..Len(r) /\ s[i] = r[i - Len(l)]
      BY <3>1, <3>3, InToSet
    <3>. QED
      BY <1>4, <3>2, <3>3
  <2>2. ASSUME NEW x \in ToSet(l) PROVE x \in ToSet(s)
    <3>1. PICK i \in 1..Len(l) : l[i] = x
      BY InToSet
    <3>. QED
      BY <1>2, <1>5, <3>1, InToSet
  <2>3. ASSUME NEW x \in ToSet(r) PROVE x \in ToSet(s)
    <3>1. PICK i \in 1..Len(r) : r[i] = x
      BY InToSet
    <3>. QED
      BY <1>2, <1>6, <3>1, InToSet
  <2>. QED
    BY <2>1, <2>2, <2>3
<1>8. Distinct(s)
  <2>1. ASSUME NEW i \in 1..Len(s), NEW k \in 1..Len(s), s[i] = s[k] PROVE i = k
    <3>1. CASE i \in 1..Len(l) /\ s[i] = l[i] /\ k \in 1..Len(l) /\ s[k] = l[k]
      BY <2>1, <3>1, AscendingDistinct DEF Distinct
    <3>2. CASE /\ i - Len(l) \in 1..Len(r) /\ s[i] = r[i - Len(l)]
               /\ k - Len(l) \in 1..Len(r) /\ s[k] = r[k - Len(l)]
      <4>1. i - Len(l) = k - Len(l)
        BY <2>1, <3>2, AscendingDistinct DEF Distinct
      <4>. QED
        BY <1>1, <1>2, <4>1
    <3>3. ASSUME NEW x \in 1..Len(l), NEW y \in 1..Len(r) PROVE l[x] # r[y]
      BY <1>1 DEF ToSet
    <3>. QED
      BY <1>4, <2>1, <3>1, <3>2, <3>3
  <2>. QED
    BY <2>1 DEF Distinct
<1>. QED
  BY <1>2, <1>7, <1>8, SortedAscends DEF Merged, s

\* What PMerge makes of two held vectors, when the process goes on.
LEMMA OutcomeFacts ==
  ASSUME NEW l \in Seq(Int), NEW r \in Seq(Int), Ascending(l), Ascending(r),
         ToSet(l) \cap ToSet(r) = {}, NEW n,
         MergeOutcome(l, r, n).tag # "aborted"
  PROVE  /\ MergeOutcome(l, r, n).val \in Seq(Int) /\ Ascending(MergeOutcome(l, r, n).val)
         /\ ToSet(MergeOutcome(l, r, n).val) = ToSet(l) \cup ToSet(r)
<1>1. CASE l = <<>>
  <2>1. MergeOutcome(l, r, n).val = r
    BY <1>1 DEF MergeOutcome
  <2>2. ToSet(l) = {}
    BY <1>1 DEF ToSet
  <2>. QED
    BY <2>1, <2>2
<1>2. CASE l # <<>> /\ r = <<>>
  <2>1. MergeOutcome(l, r, n).val = l
    BY <1>2 DEF MergeOutcome
  <2>2. ToSet(r) = {}
    BY <1>2 DEF ToSet
  <2>. QED
    BY <2>1, <2>2
<1>3. CASE l # <<>> /\ r # <<>>
  <2>1. MergeOutcome(l, r, n).val = Merged(l, r)
    BY <1>3 DEF MergeOutcome
  <2>. QED
    BY <2>1, MergedAscends
<1>. QED
  BY <1>1, <1>2, <1>3

---------------------------------------------------------------------------------
(* Lists of vectors. *)

Vec == Seq(Int)

\* The vectors are sorted, share no value and have only values of S.
Sound(vs, S) ==
  /\ vs \in Seq(Vec)
  /\ \A i \in 1..Len(vs) : Ascending(vs[i]) /\ ToSet(vs[i]) \subseteq S
  /\ \A i, k \in 1..Len(vs) : i # k => ToSet(vs[i]) \cap ToSet(vs[k]) = {}

\* The values of a list are those of its vectors.
LEMMA InValues ==
  ASSUME NEW vs \in Seq(Vec), NEW x
  PROVE  x \in Values(vs) <=> \E i \in 1..Len(vs) : x \in ToSet(vs[i])
<1>1. \A v : v \in ToSet(vs) <=> \E i \in 1..Len(vs) : vs[i] = v
  BY InToSet
<1>. QED
  BY <1>1 DEF Values

\* A vector with new values is put behind the others.
LEMMA SoundAppend ==
  ASSUME NEW S, NEW vs, Sound(vs, S), NEW v \in Vec, Ascending(v), ToSet(v) \subseteq S,
         ToSet(v) \cap Values(vs) = {}
  PROVE  /\ Sound(Append(vs, v), S) /\ Len(Append(vs, v)) = Len(vs) + 1
         /\ Values(Append(vs, v)) = Values(vs) \cup ToSet(v)
<1>. DEFINE ws == Append(vs, v)
<1>1. vs \in Seq(Vec) /\ Len(vs) \in Nat
  BY DEF Sound
<1>2. /\ ws \in Seq(Vec) /\ Len(ws) = Len(vs) + 1
      /\ \A i \in 1..Len(vs) : ws[i] = vs[i]
      /\ ws[Len(vs) + 1] = v
  BY <1>1, AppendProperties
<1>. HIDE DEF ws
<1>3. \A i \in 1..Len(ws) : i \in 1..Len(vs) \/ i = Len(vs) + 1
  BY <1>1, <1>2
<1>4. \A i \in 1..Len(vs) : ToSet(vs[i]) \cap ToSet(v) = {}
  BY <1>1, InValues
<1>5. ASSUME NEW i \in 1..Len(ws) PROVE Ascending(ws[i]) /\ ToSet(ws[i]) \subseteq S
  BY <1>2, <1>3 DEF Sound
<1>6. ASSUME NEW i \in 1..Len(ws), NEW k \in 1..Len(ws), i # k
      PROVE  ToSet(ws[i]) \cap ToSet(ws[k]) = {}
  BY <1>2, <1>3, <1>4, <1>6 DEF Sound
<1>7. Sound(ws, S)
  BY <1>2, <1>5, <1>6 DEF Sound
<1>8. Values(ws) = Values(vs) \cup ToSet(v)
  <2>1. \A x : x \in Values(ws) <=> \E i \in 1..Len(ws) : x \in ToSet(ws[i])
    BY <1>2, InValues
  <2>2. \A x : x \in Values(vs) <=> \E i \in 1..Len(vs) : x \in ToSet(vs[i])
    BY <1>1, InValues
  <2>3. \A i \in 1..Len(vs) : i \in 1..Len(ws)
    BY <1>1, <1>2
  <2>4. Len(vs) + 1 \in 1..Len(ws)
    BY <1>1, <1>2
  <2>5. ASSUME NEW x \in Values(ws) PROVE x \in Values(vs) \cup ToSet(v)
    BY <1>2, <1>3, <2>1, <2>2
  <2>6. ASSUME NEW x \in Values(vs) PROVE x \in Values(ws)
    BY <1>2, <2>1, <2>2, <2>3
  <2>7. ASSUME NEW x \in ToSet(v) PROVE x \in Values(ws)
    BY <1>2, <2>1, <2>4
  <2>. QED
    BY <2>5, <2>6, <2>7
<1>. QED
  BY <1>2, <1>7, <1>8 DEF ws

\* The first two vectors are taken away.
LEMMA SoundRest ==
  ASSUME NEW S, NEW vs, Sound(vs, S), Len(vs) >= 2
  PROVE  /\ vs[1] \in Vec /\ Ascending(vs[1]) /\ ToSet(vs[1]) \subseteq S
         /\ vs[2] \in Vec /\ Ascending(vs[2]) /\ ToSet(vs[2]) \subseteq S
         /\ ToSet(vs[1]) \cap ToSet(vs[2]) = {}
         /\ Sound(SubSeq(vs, 3, Len(vs)), S) /\ Len(SubSeq(vs, 3, Len(vs))) = Len(vs) - 2
         /\ Values(vs) = (ToSet(vs[1]) \cup ToSet(vs[2])) \cup Values(SubSeq(vs, 3, Len(vs)))
         /\ (ToSet(vs[1]) \cup ToSet(vs[2])) \cap Values(SubSeq(vs, 3, Len(vs))) = {}
<1>. DEFINE ws == SubSeq(vs, 3, Len(vs))
<1>1. vs \in Seq(Vec) /\ Len(vs) \in Nat /\ 1 \in 1..Len(vs) /\ 2 \in 1..Len(vs)
  BY DEF Sound
<1>2. /\ ws \in Seq(Vec) /\ Len(ws) = Len(vs) - 2
      /\ \A i \in 1..Len(ws) : ws[i] = vs[i + 2]
  <2>1. Len(vs) <= Len(vs) /\ 3 <= Len(vs) + 1 /\ 3 \in Nat \ {0} /\ 3 - 1 = 2
    BY <1>1
  <2>2. PICK b \in Nat : b = Len(vs)
    BY <1>1
  <2>3. /\ SubSeq(vs, 3, b) \in Seq(Vec) /\ Len(SubSeq(vs, 3, b)) = b + 1 - 3
        /\ \A i \in 1..(b + 1 - 3) : SubSeq(vs, 3, b)[i] = vs[i + (3 - 1)]
    <3>1. 3 \in Nat \ {0} /\ b <= Len(vs) /\ 3 <= b + 1
      BY <2>1, <2>2
    <3>. QED
      BY <1>1, <3>1, Slice
  <2>4. Len(vs) + 1 - 3 = Len(vs) - 2
    BY <1>1
  <2>. QED
    BY <2>1, <2>2, <2>4, <2>3
<1>. HIDE DEF ws
<1>3. \A i \in 1..Len(ws) : i + 2 \in 1..Len(vs) /\ i + 2 # 1 /\ i + 2 # 2
  BY <1>1, <1>2
<1>4. \A i \in 1..Len(vs) : i = 1 \/ i = 2 \/ (i - 2 \in 1..Len(ws) /\ ws[i - 2] = vs[i])
  <2>1. ASSUME NEW i \in 1..Len(vs), i # 1, i # 2
        PROVE  i - 2 \in 1..Len(ws) /\ ws[i - 2] = vs[i]
    <3>1. i - 2 \in 1..Len(ws) /\ (i - 2) + 2 = i
      BY <1>1, <1>2, <2>1
    <3>. QED
      BY <1>2, <3>1
  <2>. QED
    BY <2>1
<1>5. ASSUME NEW i \in 1..Len(ws) PROVE Ascending(ws[i]) /\ ToSet(ws[i]) \subseteq S
  BY <1>2, <1>3 DEF Sound
<1>6. ASSUME NEW i \in 1..Len(ws), NEW k \in 1..Len(ws), i # k
      PROVE  ToSet(ws[i]) \cap ToSet(ws[k]) = {}
  <2>1. i + 2 # k + 2
    BY <1>1, <1>2, <1>6
  <2>. QED
    BY <1>2, <1>3, <2>1 DEF Sound
<1>7. Sound(ws, S)
  BY <1>2, <1>5, <1>6 DEF Sound
<1>8. /\ \A x : x \in Values(ws) <=> \E i \in 1..Len(ws) : x \in ToSet(ws[i])
      /\ \A x : x \in Values(vs) <=> \E i \in 1..Len(vs) : x \in ToSet(vs[i])
  BY <1>1, <1>2, InValues
<1>9. Values(vs) = (ToSet(vs[1]) \cup ToSet(vs[2])) \cup Values(ws)
  <2>1. ASSUME NEW x \in Values(vs) PROVE x \in (ToSet(vs[1]) \cup ToSet(vs[2])) \cup Values(ws)
    BY <1>4, <1>8
  <2>2. ASSUME NEW x \in Values(ws) PROVE x \in Values(vs)
    BY <1>2, <1>3, <1>8
  <2>3. ASSUME NEW x \in ToSet(vs[1]) \cup ToSet(vs[2]) PROVE x \in Values(vs)
    BY <1>1, <1>8
  <2>. QED
    BY <2>1, <2>2, <2>3
<1>10. (ToSet(vs[1]) \cup ToSet(vs[2])) \cap Values(ws) = {}
  <2>1. ASSUME NEW i \in 1..Len(ws)
        PROVE  ToSet(vs[1]) \cap ToSet(ws[i]) = {} /\ ToSet(vs[2]) \cap ToSet(ws[i]) = {}
    BY <1>1, <1>2, <1>3 DEF Sound
  <2>. QED
    BY <1>8, <2>1
<1>11. /\ vs[1] \in Vec /\ Ascending(vs[1]) /\ ToSet(vs[1]) \subseteq S
       /\ vs[2] \in Vec /\ Ascending(vs[2]) /\ ToSet(vs[2]) \subseteq S
       /\ ToSet(vs[1]) \cap ToSet(vs[2]) = {}
  BY <1>1 DEF Sound
<1>. QED
  BY <1>2, <1>7, <1>9, <1>10, <1>11 DEF ws

\* Two lists that share no value, one after the other.
LEMMA SoundConcat ==
  ASSUME NEW S, NEW vs, NEW ws, Sound(vs, S), Sound(ws, S), Values(vs) \cap Values(ws) = {}
  PROVE  Sound(vs \o ws, S) /\ Values(vs \o ws) = Values(vs) \cup Values(ws)
<1>. DEFINE us == vs \o ws
<1>1. vs \in Seq(Vec) /\ Len(vs) \in Nat /\ ws \in Seq(Vec) /\ Len(ws) \in Nat
  BY DEF Sound
<1>2. /\ us \in Seq(Vec) /\ Len(us) = Len(vs) + Len(ws)
      /\ \A i \in 1..(Len(vs) + Len(ws)) : us[i] = IF i <= Len(vs) THEN vs[i] ELSE ws[i - Len(vs)]
  BY <1>1, ConcatProperties
<1>. HIDE DEF us
<1>3. ASSUME NEW i \in 1..Len(us)
      PROVE  \/ i \in 1..Len(vs) /\ us[i] = vs[i]
             \/ i - Len(vs) \in 1..Len(ws) /\ us[i] = ws[i - Len(vs)]
  BY <1>1, <1>2
<1>4. ASSUME NEW i \in 1..Len(vs) PROVE i \in 1..Len(us) /\ us[i] = vs[i]
  BY <1>1, <1>2
<1>5. ASSUME NEW i \in 1..Len(ws) PROVE i + Len(vs) \in 1..Len(us) /\ us[i + Len(vs)] = ws[i]
  <2>1. /\ i + Len(vs) \in 1..(Len(vs) + Len(ws)) /\ ~(i + Len(vs) <= Len(vs))
        /\ (i + Len(vs)) - Len(vs) = i
    BY <1>1
  <2>. QED
    BY <1>2, <2>1
<1>6. /\ \A x : x \in Values(vs) <=> \E i \in 1..Len(vs) : x \in ToSet(vs[i])
      /\ \A x : x \in Values(ws) <=> \E i \in 1..Len(ws) : x \in ToSet(ws[i])
      /\ \A x : x \in Values(us) <=> \E i \in 1..Len(us) : x \in ToSet(us[i])
  BY <1>1, <1>2, InValues
<1>7. \A i \in 1..Len(vs), k \in 1..Len(ws) : ToSet(vs[i]) \cap ToSet(ws[k]) = {}
  BY <1>6
<1>8. ASSUME NEW i \in 1..Len(us) PROVE Ascending(us[i]) /\ ToSet(us[i]) \subseteq S
  BY <1>3 DEF Sound
<1>9. ASSUME NEW i \in 1..Len(us), NEW k \in 1..Len(us), i # k
      PROVE  ToSet(us[i]) \cap ToSet(us[k]) = {}
  <2>1. CASE /\ i - Len(vs) \in 1..Len(ws) /\ us[i] = ws[i - Len(vs)]
             /\ k - Len(vs) \in 1..Len(ws) /\ us[k] = ws[k - Len(vs)]
    <3>1. i - Len(vs) # k - Len(vs)
      BY <1>1, <1>2, <1>9
    <3>. QED
      BY <2>1, <3>1 DEF Sound
  <2>2. CASE i \in 1..Len(vs) /\ us[i] = vs[i] /\ k \in 1..Len(vs) /\ us[k] = vs[k]
    BY <1>9, <2>2 DEF Sound
  <2>. QED
    BY <1>3, <1>7, <2>1, <2>2
<1>10. Sound(us, S)
  BY <1>2, <1>8, <1>9 DEF Sound
<1>11. Values(us) = Values(vs) \cup Values(ws)
  <2>1. ASSUME NEW x \in Values(us) PROVE x \in Values(vs) \cup Values(ws)
    BY <1>3, <1>6
  <2>2. ASSUME NEW x \in Values(vs) PROVE x \in Values(us)
    BY <1>4, <1>6
  <2>3. ASSUME NEW x \in Values(ws) PROVE x \in Values(us)
    BY <1>5, <1>6
  <2>. QED
    BY <2>1, <2>2, <2>3
<1>. QED
  BY <1>10, <1>11 DEF us

---------------------------------------------------------------------------------
(* The invariant. *)

\* Position behind the elements of the first c jobs.
Cut(c) == IF c = n_worker THEN Len(input) ELSE c * (Len(input) \div n_worker)

Elements(s, a, b) == {s[k] : k \in a..b}

\* With a lossless number of workers, the sizes of jobs and res and the index between them
\* that the merge loop can come to: one job is left at the end, or none.
LosslessLoop(n, i, merged) ==
  \/ i = 0 /\ merged = 0 /\ n \in {2, 3, 5}
  \/ i = 2 /\ merged = 1 /\ n \in {0, 1, 3}
  \/ i = 4 /\ merged = 2 /\ n = 1

\* The jobs dealt out so far have the elements up to the cut.
SplitInv ==
  pc = "split" =>
    /\ res = <<>> /\ Len(jobs) = count
    /\ Values(jobs) = Elements(input, 1, Cut(count))

RoundsInv ==
  pc = "rounds" => /\ res = <<>> /\ Len(jobs) >= 1
                   /\ n_worker \in Lossless => Len(jobs) \in Lossless

\* The loop runs at least once, and then idx has moved.
MergingInv ==
  pc = "merging" =>
    /\ \/ idx = 0 /\ Len(jobs) >= 2 /\ res = <<>>
       \/ idx >= 2 /\ Len(res) >= 1
    /\ n_worker \in Lossless => LosslessLoop(Len(jobs), idx, Len(res))

ArrInv ==
  /\ pc # "done" => arr = input
  /\ pc = "done" => /\ arr \in Vec /\ Ascending(arr) /\ ToSet(arr) \subseteq ToSet(input)
                    /\ n_worker \in Lossless => ToSet(arr) = ToSet(input)

ListsInv ==
  /\ Sound(jobs, ToSet(input)) /\ Sound(res, ToSet(input))
  /\ Values(jobs) \cap Values(res) = {}
  /\ n_worker \in Lossless /\ pc \in {"rounds", "merging"} =>
       Values(jobs) \cup Values(res) = ToSet(input)

RangeInv ==
  /\ <<input, n_worker>> \in Calls
  /\ pc \in {"split", "rounds", "merging", "done", "aborted"}
  /\ count \in 0..n_worker /\ idx \in Nat

Inv == RangeInv /\ ArrInv /\ ListsInv /\ SplitInv /\ RoundsInv /\ MergingInv

\* What a call is.
LEMMA CallTypes ==
  ASSUME RangeInv
  PROVE  /\ input \in Vec /\ Len(input) \in Nat /\ Distinct(input)
         /\ n_worker \in Nat /\ n_worker > 0
<1>1. PICK c \in Calls : c = <<input, n_worker>>
  BY DEF RangeInv
<1>2. c \in Seq(Int) \X (Nat \ {0}) /\ Distinct(c[1])
  BY CallAssumption
<1>. QED
  BY <1>1, <1>2 DEF Vec

\* An empty list.
LEMMA SoundEmpty ==
  ASSUME NEW S
  PROVE  Sound(<<>>, S) /\ Values(<<>>) = {}
<1>1. <<>> \in Seq(Vec) /\ Len(<<>>) = 0
  OBVIOUS
<1>2. 1..Len(<<>>) = {}
  BY <1>1
<1>3. \A x : x \notin Values(<<>>)
  BY <1>1, <1>2, InValues
<1>. QED
  BY <1>1, <1>2, <1>3 DEF Sound

\* The cuts divide the input in order.
LEMMA CutsAscend ==
  ASSUME NEW L \in Nat, NEW n \in Nat \ {0}, NEW c \in 0..(n - 1)
  PROVE  /\ c * (L \div n) \in Nat /\ (c + 1) * (L \div n) \in Nat
         /\ c * (L \div n) <= (c + 1) * (L \div n) /\ (c + 1) * (L \div n) <= L
<1>1. PICK j \in Nat, r \in 0..(n - 1) : j = L \div n /\ L = n * j + r
  <2>1. L \div n \in Nat /\ L % n \in 0..(n - 1) /\ L = n * (L \div n) + (L % n)
    OBVIOUS
  <2>. QED
    BY <2>1
<1>2. PICK k \in Nat : n = c + 1 + k
  <2>1. n - c - 1 \in Nat /\ n = c + 1 + (n - c - 1)
    OBVIOUS
  <2>. QED
    BY <2>1
<1>3. /\ n * j = c * j + j + k * j /\ (c + 1) * j = c * j + j
      /\ c * j \in Nat /\ k * j \in Nat
  BY <1>1, <1>2
<1>. QED
  BY <1>1, <1>3

\* The initial states satisfy the invariant.
LEMMA InitInv == Init => Inv
<1>. SUFFICES ASSUME Init PROVE Inv
  OBVIOUS
<1>1. PICK c \in Calls : input = c[1] /\ arr = c[1] /\ n_worker = c[2]
  BY DEF Init
<1>2. c \in Seq(Int) \X (Nat \ {0}) /\ c = <<input, n_worker>>
  BY <1>1, CallAssumption
<1>3. /\ jobs = <<>> /\ res = <<>> /\ count = 0 /\ idx = 0
      /\ pc = IF arr = <<>> THEN "done" ELSE "split"
  BY DEF Init
<1>4. RangeInv
  BY <1>2, <1>3 DEF RangeInv
<1>5. input \in Vec /\ Len(input) \in Nat /\ n_worker \in Nat /\ n_worker > 0 /\ arr = input
  BY <1>1, <1>4, CallTypes
<1>6. ArrInv
  <2>1. CASE arr = <<>>
    <3>1. Ascending(arr) /\ arr \in Vec
      BY <2>1 DEF Ascending, Vec
    <3>. QED
      BY <1>3, <1>5, <2>1, <3>1 DEF ArrInv
  <2>2. CASE arr # <<>>
    BY <1>3, <1>5, <2>2 DEF ArrInv
  <2>. QED
    BY <2>1, <2>2
<1>7. ListsInv
  BY <1>3, SoundEmpty DEF ListsInv
<1>8. SplitInv
  <2>1. Cut(0) = 0
    <3>1. Len(input) \div n_worker \in Nat
      BY <1>5
    <3>. QED
      BY <1>5, <3>1 DEF Cut
  <2>2. Elements(input, 1, 0) = {}
    BY DEF Elements
  <2>. QED
    BY <1>3, <2>1, <2>2, SoundEmpty DEF SplitInv
<1>9. RoundsInv /\ MergingInv
  BY <1>3 DEF RoundsInv, MergingInv
<1>. QED
  BY <1>4, <1>6, <1>7, <1>8, <1>9 DEF Inv

\* The job that SplitJob cuts, sorted.
LEMMA NextJob ==
  ASSUME NEW s \in Vec, Distinct(s), NEW a \in Nat, NEW b \in Nat, a <= b, b <= Len(s)
  PROVE  /\ Sorted(SubSeq(s, a + 1, b)) \in Vec /\ Ascending(Sorted(SubSeq(s, a + 1, b)))
         /\ ToSet(Sorted(SubSeq(s, a + 1, b))) = Elements(s, a + 1, b)
         /\ Elements(s, a + 1, b) \cap Elements(s, 1, a) = {}
         /\ Elements(s, 1, a) \cup Elements(s, a + 1, b) = Elements(s, 1, b)
         /\ Elements(s, 1, b) \subseteq ToSet(s)
         /\ Elements(s, 1, Len(s)) = ToSet(s)
<1>. DEFINE t == SubSeq(s, a + 1, b)
<1>1. s \in Seq(Int) /\ Len(s) \in Nat /\ a + 1 \in Nat \ {0} /\ a + 1 <= b + 1
  BY DEF Vec
<1>2. /\ t \in Seq(Int) /\ Len(t) = b - a
      /\ \A i \in 1..(b - a) : t[i] = s[i + a]
  <2>1. PICK c \in Nat \ {0} : c = a + 1
    BY <1>1
  <2>2. /\ SubSeq(s, c, b) \in Seq(Int) /\ Len(SubSeq(s, c, b)) = b + 1 - c
        /\ \A i \in 1..(b + 1 - c) : SubSeq(s, c, b)[i] = s[i + (c - 1)]
    BY <1>1, <2>1, Slice
  <2>3. b + 1 - c = b - a /\ c - 1 = a
    BY <2>1
  <2>. QED
    BY <2>1, <2>2, <2>3
<1>. HIDE DEF t
<1>3. \A i \in 1..(b - a) : i + a \in (a + 1)..b /\ i + a \in 1..Len(s)
  BY <1>1
<1>4. ToSet(t) = {s[k] : k \in (a + 1)..b}
  <2>1. ASSUME NEW x \in ToSet(t) PROVE x \in {s[k] : k \in (a + 1)..b}
    <3>1. PICK i \in 1..(b - a) : t[i] = x
      BY <1>2, InToSet
    <3>. QED
      BY <1>2, <1>3, <3>1
  <2>2. ASSUME NEW k \in (a + 1)..b PROVE s[k] \in ToSet(t)
    <3>1. k - a \in 1..(b - a) /\ (k - a) + a = k
      OBVIOUS
    <3>2. t[k - a] = s[k]
      BY <1>2, <3>1
    <3>. QED
      BY <1>2, <3>1, <3>2, InToSet
  <2>. QED
    BY <2>1, <2>2
<1>5. Distinct(t)
  <2>1. ASSUME NEW i \in 1..(b - a), NEW k \in 1..(b - a), t[i] = t[k] PROVE i = k
    <3>1. i + a = k + a
      BY <1>2, <1>3, <2>1 DEF Distinct
    <3>. QED
      BY <3>1
  <2>. QED
    BY <1>2, <2>1 DEF Distinct
<1>6. /\ Sorted(t) \in Seq(Int) /\ Ascending(Sorted(t)) /\ ToSet(Sorted(t)) = ToSet(t)
  BY <1>2, <1>5, SortedAscends
<1>7. \A k \in (a + 1)..b, m \in 1..a : s[k] # s[m]
  <2>1. \A k \in (a + 1)..b, m \in 1..a : k \in 1..Len(s) /\ m \in 1..Len(s) /\ k # m
    BY <1>1
  <2>. QED
    BY <2>1 DEF Distinct
<1>8. {s[k] : k \in 1..a} \cup {s[k] : k \in (a + 1)..b} = {s[k] : k \in 1..b}
  <2>1. \A k \in 1..b : k \in 1..a \/ k \in (a + 1)..b
    OBVIOUS
  <2>2. \A k \in 1..a : k \in 1..b
    OBVIOUS
  <2>3. \A k \in (a + 1)..b : k \in 1..b
    OBVIOUS
  <2>. QED
    BY <2>1, <2>2, <2>3
<1>9. DOMAIN s = 1..Len(s) /\ \A k \in 1..b : k \in 1..Len(s)
  BY <1>1
<1>10. {s[k] : k \in 1..b} \subseteq ToSet(s) /\ {s[k] : k \in 1..Len(s)} = ToSet(s)
  BY <1>9 DEF ToSet
<1>11. {s[k] : k \in (a + 1)..b} \cap {s[k] : k \in 1..a} = {}
  BY <1>7
<1>. QED
  BY <1>4, <1>6, <1>8, <1>10, <1>11 DEF t, Vec, Elements

\* Dealing out the next slice of the array keeps the invariant (pmergejoin.h:289-296).
LEMMA SplitJobInv == Inv /\ SplitJob => Inv'
<1>. SUFFICES ASSUME Inv, SplitJob PROVE Inv'
  OBVIOUS
<1>. DEFINE j == Len(input) \div n_worker
            v == Sorted(SubSeq(input, Cut(count) + 1, Cut(count + 1)))
<1>1. /\ input \in Vec /\ Len(input) \in Nat /\ Distinct(input)
      /\ n_worker \in Nat /\ n_worker > 0 /\ count \in 0..n_worker /\ arr = input
  BY CallTypes DEF Inv, RangeInv, ArrInv, SplitJob
<1>2. pc = "split" /\ count < n_worker /\ count \in Nat /\ count + 1 \in 0..n_worker
  BY <1>1 DEF SplitJob
<1>3. /\ Cut(count) \in Nat /\ Cut(count + 1) \in Nat
      /\ Cut(count) <= Cut(count + 1) /\ Cut(count + 1) <= Len(input)
      /\ Cut(count) = count * j /\ Cut(count + 1) = JobEnd
  <2>1. count \in 0..(n_worker - 1)
    BY <1>1, <1>2
  <2>2. /\ count * j \in Nat /\ (count + 1) * j \in Nat
        /\ count * j <= (count + 1) * j /\ (count + 1) * j <= Len(input)
    <3>1. n_worker \in Nat \ {0}
      BY <1>1
    <3>. QED
      BY <1>1, <2>1, <3>1, CutsAscend
  <2>3. Cut(count) = count * j
    BY <1>1, <1>2 DEF Cut
  <2>4. Cut(count + 1) = JobEnd
    <3>1. count + 1 = n_worker <=> count = n_worker - 1
      BY <1>1, <1>2
    <3>. QED
      BY <1>1, <3>1 DEF Cut, JobEnd, jobs_each_thread
  <2>5. Cut(count + 1) = Len(input) \/ Cut(count + 1) = (count + 1) * j
    BY DEF Cut
  <2>. HIDE DEF j
  <2>. QED
    BY <1>1, <2>2, <2>3, <2>4, <2>5
<1>4. /\ jobs' = Append(jobs, v) /\ count' = count + 1
      /\ UNCHANGED <<input, arr, n_worker, pc, res, idx>>
  BY <1>1, <1>3 DEF SplitJob, jobs_each_thread
<1>5. /\ res = <<>> /\ Len(jobs) = count
      /\ Values(jobs) = Elements(input, 1, Cut(count)) /\ Sound(jobs, ToSet(input))
  BY <1>2 DEF Inv, SplitInv, ListsInv
<1>. HIDE DEF j
<1>6. /\ v \in Vec /\ Ascending(v)
      /\ ToSet(v) = Elements(input, Cut(count) + 1, Cut(count + 1))
      /\ ToSet(v) \cap Values(jobs) = {}
      /\ Values(jobs) \cup ToSet(v) = Elements(input, 1, Cut(count + 1))
      /\ ToSet(v) \subseteq ToSet(input)
  <2>1. PICK a \in Nat, b \in Nat : a = Cut(count) /\ b = Cut(count + 1)
    BY <1>3
  <2>. QED
    BY <1>1, <1>3, <1>5, <2>1, NextJob
<1>. HIDE DEF v
<1>7. /\ Sound(Append(jobs, v), ToSet(input)) /\ Len(Append(jobs, v)) = Len(jobs) + 1
      /\ Values(Append(jobs, v)) = Values(jobs) \cup ToSet(v)
  BY <1>5, <1>6, SoundAppend
<1>8. RangeInv' /\ ArrInv'
  BY <1>2, <1>4 DEF Inv, RangeInv, ArrInv
<1>9. ListsInv'
  <2>1. Values(res) = {} /\ Sound(res, ToSet(input))
    BY <1>5, SoundEmpty
  <2>2. Sound(jobs', ToSet(input)') /\ Sound(res', ToSet(input)') /\ Values(jobs') \cap Values(res') = {}
    BY <1>4, <1>7, <2>1
  <2>. QED
    BY <1>2, <1>4, <2>2 DEF ListsInv
<1>10. SplitInv'
  <2>1. Cut(count)' = Cut(count + 1)
    BY <1>4 DEF Cut
  <2>. QED
    BY <1>4, <1>5, <1>6, <1>7, <2>1 DEF SplitInv, Elements
<1>11. RoundsInv' /\ MergingInv'
  BY <1>2, <1>4 DEF RoundsInv, MergingInv
<1>. QED
  BY <1>8, <1>9, <1>10, <1>11 DEF Inv

\* Leaving the dealing loop keeps the invariant (pmergejoin.h:289-296).
LEMMA SplitEndInv == Inv /\ SplitEnd => Inv'
<1>. SUFFICES ASSUME Inv, SplitEnd PROVE Inv'
  OBVIOUS
<1>1. /\ pc = "split" /\ count = n_worker /\ pc' = "rounds"
      /\ UNCHANGED <<input, arr, n_worker, jobs, res, count, idx>>
  BY DEF SplitEnd
<1>2. /\ input \in Vec /\ Len(input) \in Nat /\ Distinct(input)
      /\ n_worker \in Nat /\ n_worker > 0
  BY CallTypes DEF Inv
<1>3. /\ res = <<>> /\ Len(jobs) = n_worker
      /\ Values(jobs) = Elements(input, 1, Len(input))
  BY <1>1 DEF Inv, SplitInv, Cut
<1>4. Elements(input, 1, Len(input)) = ToSet(input)
  <2>1. \A x : x \in ToSet(input) <=> \E k \in 1..Len(input) : input[k] = x
    BY <1>2, InToSet DEF Vec
  <2>. QED
    BY <2>1 DEF Elements
<1>5. RangeInv' /\ ArrInv' /\ SplitInv' /\ MergingInv'
  BY <1>1 DEF Inv, RangeInv, ArrInv, SplitInv, MergingInv
<1>6. ListsInv'
  <2>1. Values(res) = {}
    BY <1>3, SoundEmpty
  <2>2. Values(jobs) \cup Values(res) = ToSet(input)
    BY <1>3, <1>4, <2>1
  <2>. QED
    BY <1>1, <2>2 DEF Inv, ListsInv
<1>7. RoundsInv'
  BY <1>1, <1>2, <1>3 DEF RoundsInv
<1>. QED
  BY <1>5, <1>6, <1>7 DEF Inv

\* Starting a round keeps the invariant.
LEMMA RoundInv == Inv /\ Round => Inv'
<1>. SUFFICES ASSUME Inv, Round PROVE Inv'
  OBVIOUS
<1>1. /\ pc = "rounds" /\ Len(jobs) >= 2 /\ pc' = "merging" /\ idx' = 0
      /\ UNCHANGED <<input, arr, n_worker, jobs, res, count>>
  BY DEF Round
<1>2. res = <<>> /\ Len(res) = 0 /\ (n_worker \in Lossless => Len(jobs) \in Lossless)
  BY <1>1 DEF Inv, RoundsInv
<1>3. n_worker \in Lossless => LosslessLoop(Len(jobs), 0, 0)
  BY <1>1, <1>2 DEF Lossless, LosslessLoop
<1>4. MergingInv'
  BY <1>1, <1>2, <1>3 DEF MergingInv
<1>5. RangeInv' /\ ArrInv' /\ SplitInv' /\ RoundsInv' /\ ListsInv'
  BY <1>1 DEF Inv, RangeInv, ArrInv, SplitInv, RoundsInv, ListsInv
<1>. QED
  BY <1>4, <1>5 DEF Inv

\* The arithmetic of the merging loop's counters: a merge
\* of the front two keeps them in step, ...
LEMMA LoopMerges ==
  ASSUME NEW n \in Nat, NEW i \in Nat, NEW m \in Nat,
         LosslessLoop(n, i, m), n >= 2, i < n
  PROVE  LosslessLoop(n - 2, i + 2, m + 1)
<1>1. \/ i = 0 /\ m = 0 /\ n \in {2, 3, 5}
      \/ i = 2 /\ m = 1 /\ n = 3
  BY DEF LosslessLoop
<1>. QED
  BY <1>1 DEF LosslessLoop

\* ... and when the loop stops at most one job is left over, beside one or two
\* merged ones.
LEMMA LoopStops ==
  ASSUME NEW n \in Nat, NEW i \in Nat, NEW m \in Nat,
         LosslessLoop(n, i, m), ~(i < n)
  PROVE  n \in {0, 1} /\ m \in {1, 2} /\ (n = 0 => m = 1)
BY DEF LosslessLoop

\* One more than one or two jobs is a number of jobs no round loses one of.
LEMMA OneMoreIsLossless ==
  ASSUME NEW n \in Nat, NEW m \in {1, 2}, n = m + 1
  PROVE  n \in Lossless
BY DEF Lossless

\* A round of fewer than two jobs, but of some, is a round of one.
LEMMA OneLeft ==
  ASSUME NEW n \in Nat, n < 2, n >= 1
  PROVE  n = 1 /\ 1 \in 1..n /\ \A i \in 1..n : i = 1
OBVIOUS

\* Merging the front two jobs, or aborting in it, keeps the invariant.
LEMMA MergeFrontTwoInv == Inv /\ MergeFrontTwo => Inv'
<1>. SUFFICES ASSUME Inv, MergeFrontTwo PROVE Inv'
  OBVIOUS
<1>. DEFINE outcome == MergeOutcome(jobs[1], jobs[2], n_worker)
            rest == SubSeq(jobs, 3, Len(jobs))
            S == ToSet(input)
<1>1. /\ pc = "merging" /\ idx < Len(jobs) /\ UNCHANGED <<input, arr, n_worker, count>>
      /\ \/ outcome.tag = "aborted" /\ pc' = "aborted" /\ UNCHANGED <<jobs, res, idx>>
         \/ /\ outcome.tag # "aborted"
            /\ res' = Append(res, outcome.val) /\ jobs' = rest /\ idx' = idx + 2 /\ pc' = pc
  BY DEF MergeFrontTwo, Merges, WithoutFrontTwo
<1>2. /\ Sound(jobs, S) /\ Sound(res, S) /\ Values(jobs) \cap Values(res) = {}
      /\ n_worker \in Lossless => Values(jobs) \cup Values(res) = S
      /\ idx \in Nat /\ Len(jobs) \in Nat /\ Len(res) \in Nat
  <2>1. /\ Sound(jobs, S) /\ Sound(res, S) /\ Values(jobs) \cap Values(res) = {}
        /\ n_worker \in Lossless => Values(jobs) \cup Values(res) = S
    BY <1>1 DEF Inv, ListsInv
  <2>2. idx \in Nat
    BY DEF Inv, RangeInv
  <2>3. jobs \in Seq(Vec) /\ res \in Seq(Vec)
    BY <2>1 DEF Sound
  <2>. HIDE DEF S
  <2>. QED
    BY <2>1, <2>2, <2>3
<1>3. CASE outcome.tag = "aborted"
  BY <1>1, <1>3
     DEF Inv, RangeInv, ArrInv, SplitInv, RoundsInv, MergingInv, ListsInv
<1>4. CASE outcome.tag # "aborted"
  <2>1. Len(jobs) >= 2
    BY <1>1, <1>2 DEF Inv, MergingInv
  <2>2. /\ jobs[1] \in Vec /\ Ascending(jobs[1]) /\ ToSet(jobs[1]) \subseteq S
        /\ jobs[2] \in Vec /\ Ascending(jobs[2]) /\ ToSet(jobs[2]) \subseteq S
        /\ ToSet(jobs[1]) \cap ToSet(jobs[2]) = {}
        /\ Sound(rest, S) /\ Len(rest) = Len(jobs) - 2
        /\ Values(jobs) = (ToSet(jobs[1]) \cup ToSet(jobs[2])) \cup Values(rest)
        /\ (ToSet(jobs[1]) \cup ToSet(jobs[2])) \cap Values(rest) = {}
    BY <1>2, <2>1, SoundRest
  <2>3. PICK v : v = outcome.val
    OBVIOUS
  <2>4. v \in Vec /\ Ascending(v) /\ ToSet(v) = ToSet(jobs[1]) \cup ToSet(jobs[2])
    BY <1>4, <2>2, <2>3, OutcomeFacts DEF Vec
  <2>5. /\ res' = Append(res, v) /\ jobs' = rest /\ idx' = idx + 2 /\ pc' = "merging"
        /\ pc = "merging" /\ UNCHANGED <<input, arr, n_worker, count>>
    BY <1>1, <1>4, <2>3
  <2>. HIDE DEF outcome, rest
  <2>6. /\ Sound(Append(res, v), S) /\ Len(Append(res, v)) = Len(res) + 1
        /\ Values(Append(res, v)) = Values(res) \cup ToSet(v)
    BY <1>2, <2>2, <2>4, SoundAppend
  <2>7. ListsInv'
    <3>1. Sound(jobs', S) /\ Sound(res', S)
      BY <2>2, <2>5, <2>6
    <3>2. Values(jobs') \cap Values(res') = {}
      BY <1>2, <2>2, <2>4, <2>5, <2>6
    <3>3. n_worker \in Lossless => Values(jobs') \cup Values(res') = S
      BY <1>2, <2>2, <2>4, <2>5, <2>6
    <3>. QED
      BY <2>5, <3>1, <3>2, <3>3 DEF ListsInv
  <2>8. MergingInv'
    <3>1. idx + 2 >= 2 /\ Len(res') >= 1
      BY <1>2, <2>5, <2>6
    <3>2. ASSUME n_worker \in Lossless
          PROVE  LosslessLoop(Len(jobs'), idx', Len(res'))
      <4>1. LosslessLoop(Len(jobs), idx, Len(res))
        BY <2>5, <3>2 DEF Inv, MergingInv
      <4>2. Len(jobs') = Len(jobs) - 2 /\ idx' = idx + 2 /\ Len(res') = Len(res) + 1
        BY <2>2, <2>5, <2>6
      <4>3. LosslessLoop(Len(jobs) - 2, idx + 2, Len(res) + 1)
        BY <1>1, <1>2, <2>1, <4>1, LoopMerges
      <4>. QED
        BY <4>2, <4>3
    <3>. QED
      BY <2>5, <3>1, <3>2 DEF MergingInv
  <2>9. RangeInv' /\ ArrInv' /\ SplitInv' /\ RoundsInv'
    <3>1. idx' \in Nat
      BY <1>2, <2>5
    <3>. QED
      BY <2>5, <3>1 DEF Inv, RangeInv, ArrInv, SplitInv, RoundsInv
  <2>. QED
    BY <2>7, <2>8, <2>9 DEF Inv
<1>. QED
  BY <1>3, <1>4

\* Ending a round, with the left-over job carried or lost, keeps the invariant.
LEMMA RoundEndInv == Inv /\ RoundEnd => Inv'
<1>. SUFFICES ASSUME Inv, RoundEnd PROVE Inv'
  OBVIOUS
<1>. DEFINE S == ToSet(input)
<1>1. /\ pc = "merging" /\ ~(idx < Len(jobs)) /\ pc' = "rounds"
      /\ jobs' = Carried /\ res' = <<>> /\ UNCHANGED <<input, arr, n_worker, count, idx>>
  BY DEF RoundEnd, Merges
<1>2. /\ Sound(jobs, S) /\ Sound(res, S) /\ Values(jobs) \cap Values(res) = {}
      /\ n_worker \in Lossless => Values(jobs) \cup Values(res) = S
      /\ idx \in Nat /\ Len(jobs) \in Nat /\ Len(res) \in Nat /\ jobs \in Seq(Vec)
  <2>1. /\ Sound(jobs, S) /\ Sound(res, S) /\ Values(jobs) \cap Values(res) = {}
        /\ n_worker \in Lossless => Values(jobs) \cup Values(res) = S
    BY <1>1 DEF Inv, ListsInv
  <2>2. idx \in Nat
    BY DEF Inv, RangeInv
  <2>3. jobs \in Seq(Vec) /\ res \in Seq(Vec)
    BY <2>1 DEF Sound
  <2>. HIDE DEF S
  <2>. QED
    BY <2>1, <2>2, <2>3
<1>3. Len(res) >= 1
  BY <1>1, <1>2 DEF Inv, MergingInv
<1>4. ASSUME n_worker \in Lossless
      PROVE  Len(jobs) \in {0, 1} /\ Len(res) \in {1, 2} /\ (Len(jobs) = 0 => Len(res) = 1)
  <2>1. LosslessLoop(Len(jobs), idx, Len(res))
    BY <1>1, <1>4 DEF Inv, MergingInv
  <2>. QED
    BY <1>1, <1>2, <2>1, LoopStops
<1>5. /\ Sound(jobs', S) /\ Len(jobs') >= 1
      /\ n_worker \in Lossless => Len(jobs') \in Lossless /\ Values(jobs') = S
  <2>1. CASE jobs = <<>>
    <3>1. jobs' = res /\ Values(jobs) = {} /\ Len(jobs) = 0
      BY <1>1, <2>1, SoundEmpty DEF Carried
    <3>2. n_worker \in Lossless => Len(res) = 1
      BY <1>4, <3>1
    <3>. QED
      BY <1>2, <1>3, <3>1, <3>2 DEF Lossless
  <2>2. CASE jobs # <<>>
    <3>1. jobs' = Append(res, jobs[1]) /\ Len(jobs) >= 1 /\ 1 \in 1..Len(jobs)
      BY <1>1, <1>2, <2>2 DEF Carried
    <3>2. jobs[1] \in Vec /\ Ascending(jobs[1]) /\ ToSet(jobs[1]) \subseteq S
      BY <1>2, <3>1 DEF Sound
    <3>3. ToSet(jobs[1]) \subseteq Values(jobs)
      BY <1>2, <3>1, InValues
    <3>4. ToSet(jobs[1]) \cap Values(res) = {}
      BY <1>2, <3>3
    <3>5. /\ Sound(jobs', S) /\ Len(jobs') = Len(res) + 1
          /\ Values(jobs') = Values(res) \cup ToSet(jobs[1])
      BY <1>2, <3>1, <3>2, <3>4, SoundAppend
    <3>6. ASSUME n_worker \in Lossless
          PROVE  Len(jobs') \in Lossless /\ Values(jobs') = S
      <4>1. Len(jobs) = 1 /\ Len(res) \in {1, 2}
        BY <1>4, <3>1, <3>6
      <4>2. Values(jobs) \subseteq ToSet(jobs[1])
        <5>1. \A x : x \in Values(jobs) <=> \E i \in 1..Len(jobs) : x \in ToSet(jobs[i])
          BY <1>2, InValues
        <5>2. \A i \in 1..Len(jobs) : i = 1
          BY <4>1
        <5>. QED
          BY <5>1, <5>2
      <4>3. Len(jobs') \in Lossless
        <5>1. Len(jobs') \in Nat /\ Len(jobs') = Len(res) + 1
          BY <1>2, <3>5
        <5>. QED
          BY <4>1, <5>1, OneMoreIsLossless
      <4>. QED
        BY <1>2, <3>3, <3>5, <3>6, <4>2, <4>3
    <3>. QED
      BY <1>2, <3>5, <3>6
  <2>. QED
    BY <2>1, <2>2
<1>6. ListsInv'
  <2>1. Sound(<<>>, S) /\ Values(<<>>) = {}
    BY SoundEmpty
  <2>. QED
    BY <1>1, <1>5, <2>1 DEF ListsInv
<1>7. RoundsInv'
  BY <1>1, <1>5 DEF RoundsInv
<1>8. RangeInv' /\ ArrInv' /\ SplitInv' /\ MergingInv'
  BY <1>1 DEF Inv, RangeInv, ArrInv, SplitInv, MergingInv
<1>. QED
  BY <1>6, <1>7, <1>8 DEF Inv

\* Handing the last job back as the array keeps the invariant.
LEMMA FinishInv == Inv /\ Finish => Inv'
<1>. SUFFICES ASSUME Inv, Finish PROVE Inv'
  OBVIOUS
<1>1. /\ pc = "rounds" /\ Len(jobs) < 2 /\ arr' = jobs[1] /\ pc' = "done"
      /\ UNCHANGED <<input, n_worker, jobs, res, count, idx>>
  BY DEF Finish
<1>2. /\ Sound(jobs, ToSet(input)) /\ res = <<>> /\ Len(jobs) >= 1
      /\ n_worker \in Lossless => Values(jobs) \cup Values(res) = ToSet(input)
      /\ jobs \in Seq(Vec) /\ Len(jobs) \in Nat
  BY <1>1 DEF Inv, ListsInv, RoundsInv, Sound
<1>3. Len(jobs) = 1 /\ 1 \in 1..Len(jobs) /\ \A i \in 1..Len(jobs) : i = 1
  BY <1>1, <1>2, OneLeft
<1>4. jobs[1] \in Vec /\ Ascending(jobs[1]) /\ ToSet(jobs[1]) \subseteq ToSet(input)
  BY <1>2, <1>3 DEF Sound
<1>5. n_worker \in Lossless => ToSet(jobs[1]) = ToSet(input)
  <2>1. \A x : x \in Values(jobs) <=> \E i \in 1..Len(jobs) : x \in ToSet(jobs[i])
    BY <1>2, InValues
  <2>2. Values(res) = {}
    BY <1>2, SoundEmpty
  <2>3. Values(jobs) = ToSet(jobs[1])
    BY <1>3, <2>1
  <2>. QED
    BY <1>2, <2>2, <2>3
<1>6. ArrInv'
  BY <1>1, <1>4, <1>5 DEF ArrInv
<1>7. RangeInv' /\ SplitInv' /\ RoundsInv' /\ MergingInv' /\ ListsInv'
  BY <1>1 DEF Inv, RangeInv, SplitInv, RoundsInv, MergingInv, ListsInv
<1>. QED
  BY <1>6, <1>7 DEF Inv

\* Every step keeps the invariant.
LEMMA NextInv == Inv /\ [Next]_vars => Inv'
<1>. SUFFICES ASSUME Inv, [Next]_vars PROVE Inv'
  OBVIOUS
<1>1. CASE UNCHANGED vars
  BY <1>1 DEF vars, Inv, RangeInv, ArrInv, ListsInv, SplitInv, RoundsInv, MergingInv, Cut
<1>2. CASE Over
  BY <1>1, <1>2 DEF Over
<1>. QED
  BY <1>1, <1>2, SplitJobInv, SplitEndInv, RoundInv, MergeFrontTwoInv, RoundEndInv, FinishInv
     DEF Next

\* Inv is invariant.
THEOREM SortInv == Spec => []Inv
<1>. QED
  BY InitInv, NextInv, PTL DEF Spec

---------------------------------------------------------------------------------
(* What follows from it. *)

\* The list operations find what they need: two jobs to merge, one to return.
THEOREM SortTypeOK == Spec => []TypeOK
<1>1. Inv => TypeOK
  <2>. SUFFICES ASSUME Inv PROVE TypeOK
    OBVIOUS
  <2>1. arr \in Seq(Int)
    BY CallTypes DEF Inv, ArrInv, Vec
  <2>2. jobs \in Seq(Seq(Int)) /\ res \in Seq(Seq(Int)) /\ Len(jobs) \in Nat
    BY DEF Inv, ListsInv, Sound, Vec
  <2>3. Merges => Len(jobs) >= 2
    BY <2>2 DEF Inv, MergingInv, RangeInv, Merges
  <2>. QED
    BY <2>1, <2>2, <2>3 DEF Inv, RangeInv, RoundsInv, TypeOK
<1>. QED
  BY <1>1, SortInv, PTL

\* Every vector held is sorted, no value is in two places, and what is returned is sorted.
THEOREM SortSortedAndApart == Spec => []SortedAndApart
<1>1. Inv => SortedAndApart
  <2>. SUFFICES ASSUME Inv PROVE SortedAndApart
    OBVIOUS
  <2>1. Sound(Held, ToSet(input)) /\ Values(Held) = Values(jobs) \cup Values(res)
    BY SoundConcat DEF Inv, ListsInv, Held
  <2>2. \A x : x \in Values(Held) <=> \E i \in 1..Len(Held) : x \in ToSet(Held[i])
    BY <2>1, InValues DEF Sound
  <2>3. Values(Held) \subseteq ToSet(input)
    BY <2>1, <2>2 DEF Sound
  <2>4. pc = "done" => Ascending(arr) /\ ToSet(arr) \subseteq ToSet(input)
    BY DEF Inv, ArrInv
  <2>. QED
    BY <2>1, <2>3, <2>4 DEF Sound, SortedAndApart
<1>. QED
  BY <1>1, SortInv, PTL

\* With 1, 2, 3 or 5 workers every value is held until the sorted input is returned.
THEOREM SortNothingLost == Spec => []NothingLost
<1>1. Inv => NothingLost
  <2>. SUFFICES ASSUME Inv, n_worker \in Lossless
                PROVE  /\ pc \in {"rounds", "merging"} => Values(Held) = ToSet(input)
                       /\ pc = "done" => arr = Sorted(input)
    BY DEF NothingLost
  <2>1. pc \in {"rounds", "merging"} => Values(Held) = ToSet(input)
    <3>1. Values(Held) = Values(jobs) \cup Values(res)
      BY SoundConcat DEF Inv, ListsInv, Held
    <3>. QED
      BY <3>1 DEF Inv, ListsInv
  <2>2. ASSUME pc = "done" PROVE arr = Sorted(input)
    <3>1. arr \in Seq(Int) /\ Ascending(arr) /\ ToSet(arr) = ToSet(input)
      BY <2>2 DEF Inv, ArrInv, Vec
    <3>2. input \in Seq(Int) /\ Distinct(input)
      BY CallTypes DEF Inv, Vec
    <3>3. /\ Sorted(input) \in Seq(Int) /\ Ascending(Sorted(input))
          /\ ToSet(Sorted(input)) = ToSet(input)
      BY <3>2, SortedAscends
    <3>. QED
      BY <3>1, <3>3, AscendingUnique
  <2>. QED
    BY <2>1, <2>2
<1>. QED
  BY <1>1, SortInv, PTL
---------------------------------------------------------------------------------
(* The loops of FindMedian.  The argument is the usual one of a binary search,   *)
(* SearchInv, with the excluded positions described by the very tests that       *)
(* excluded them.                                                                *)

USE Sentinels

\* The facts every action's step starts from.
LEMMA LoopFacts ==
  ASSUME LoopTypeOK
  PROVE  /\ X \in Seq(MinT..MaxT) /\ SortedSpan(X)
         /\ Y \in Seq(MinT..MaxT) /\ SortedSpan(Y)
         /\ Len(X) + Len(Y) = Len(m1) + Len(m2)
         /\ Searchable(m1, m2) = Searchable(X, Y)
         /\ \A v : IsMedian(X, Y, v) => IsMedian(m1, m2, v)
         /\ begin < end => /\ Mid \in begin..(end - 1)
                           /\ Mid \in 0..(Len(X) + Len(Y) - 1)
<1>1. /\ m1 \in Seq(MinT..MaxT) /\ SortedSpan(m1)
      /\ m2 \in Seq(MinT..MaxT) /\ SortedSpan(m2)
  BY DEF LoopTypeOK
<1>2. Len(X) + Len(Y) = Len(m1) + Len(m2)
  BY <1>1 DEF X, Y
<1>3. begin < end => /\ Mid \in begin..(end - 1)
                     /\ Mid \in 0..(Len(X) + Len(Y) - 1)
  BY <1>1, <1>2 DEF LoopTypeOK, Mid
<1>4. Searchable(m1, m2) = Searchable(X, Y)
  BY <1>1, Symmetric DEF X, Y
<1>5. \A v : IsMedian(X, Y, v) => IsMedian(m1, m2, v)
  BY <1>1, Symmetric DEF X, Y
<1>. QED
  BY <1>1, <1>2, <1>3, <1>4, <1>5 DEF X, Y

\* The types hold, the excluded positions are excluded for the reason the branch
\* gave, and a loop that ended had excluded every position of its span
\* (pmergejoin.h:76-126).
THEOREM SearchInvariant == SearchSpec => []SearchInv
<1>1. SearchInit => SearchInv
  <2>. SUFFICES ASSUME SearchInit PROVE SearchInv
    OBVIOUS
  <2>1. /\ m1 \in Seq(MinT..MaxT) /\ SortedSpan(m1)
        /\ m2 \in Seq(MinT..MaxT) /\ SortedSpan(m2)
    BY InputAssumption DEF SearchInit
  <2>2. /\ pass = 1 /\ begin = 0 /\ end = Len(m1) + Len(m2)
        /\ result = [tag |-> "searching", val |-> MinT]
    BY DEF SearchInit
  <2>4. LoopTypeOK
    <3>1. result \in [tag : {"searching", "returned", "threw"}, val : MinT..MaxT]
      BY <2>2
    <3>2. end \in Nat
      BY <2>1, <2>2
    <3>. QED
      BY <2>1, <2>2, <3>1, <3>2 DEF LoopTypeOK
  <2>3. Narrowed(X, Y, begin, end)
    <3>1. begin = 0 /\ end = Len(X) + Len(Y)
      BY <2>1 DEF SearchInit, X, Y
    <3>2. Len(X) + Len(Y) \in Nat
      BY <2>1 DEF X, Y
    <3>. QED
      BY <3>1, <3>2 DEF Narrowed
  <2>5. ReturnsMedian /\ ThrowsOnlyUnsearchable
    BY <2>2 DEF ReturnsMedian, ThrowsOnlyUnsearchable
  <2>. QED
    BY <2>2, <2>3, <2>4, <2>5 DEF SearchInv
<1>2. SearchInv /\ [SearchNext]_searchVars => SearchInv'
  <2>. SUFFICES ASSUME SearchInv, [SearchNext]_searchVars PROVE SearchInv'
    OBVIOUS
  <2>. USE DEF SearchInv
  <2>1. CASE StepRight
    <3>. USE <2>1 DEF StepRight, Probing
    <3>1. X' = X /\ Y' = Y
      BY DEF X, Y
    <3>2. LoopTypeOK'
      BY LoopFacts DEF LoopTypeOK
    <3>3. Narrowed(X, Y, begin, end)'
      <4>1. ASSUME NEW i \in 0..Mid PROVE TooSmall(X, Y, i)
        BY LoopFacts, TestsMonotone
      <4>. QED
        BY <3>1, <4>1, LoopFacts DEF Narrowed
    <3>. QED
      BY <3>2, <3>3 DEF ReturnsMedian, ThrowsOnlyUnsearchable
  <2>2. CASE StepLeft
    <3>. USE <2>2 DEF StepLeft, Probing
    <3>1. X' = X /\ Y' = Y
      BY DEF X, Y
    <3>2. LoopTypeOK'
      BY LoopFacts DEF LoopTypeOK
    <3>3. Narrowed(X, Y, begin, end)'
      <4>1. ASSUME NEW i \in Mid..(Len(X) + Len(Y) - 1) PROVE TooLarge(X, Y, i)
        BY LoopFacts, TestsMonotone
      <4>. QED
        BY <3>1, <4>1, LoopFacts DEF Narrowed
    <3>. QED
      BY <3>2, <3>3 DEF ReturnsMedian, ThrowsOnlyUnsearchable
  <2>3. CASE Return
    <3>. USE <2>3 DEF Return, Probing
    <3>1. X' = X /\ Y' = Y
      BY DEF X, Y
    <3>2. LoopTypeOK'
      BY LoopFacts, AtType DEF LoopTypeOK
    <3>3. Narrowed(X, Y, begin, end)'
      BY <3>1
    <3>4. ReturnsMedian'
      BY LoopFacts, SeparatorIsMedian DEF ReturnsMedian
    <3>. QED
      BY <3>2, <3>3, <3>4 DEF ThrowsOnlyUnsearchable
  <2>4. CASE ThrowTie
    <3>. USE <2>4 DEF ThrowTie, Probing
    <3>1. X' = X /\ Y' = Y
      BY DEF X, Y
    <3>2. LoopTypeOK'
      BY DEF LoopTypeOK
    <3>3. Narrowed(X, Y, begin, end)'
      BY <3>1
    <3>4. ThrowsOnlyUnsearchable'
      BY LoopFacts, OnlyTiesFall DEF ThrowsOnlyUnsearchable
    <3>. QED
      BY <3>2, <3>3, <3>4 DEF ReturnsMedian
  <2>5. CASE SecondPass
    <3>. USE <2>5 DEF SecondPass
    <3>1. X = m1 /\ Y = m2 /\ X' = m2 /\ Y' = m1
      BY DEF X, Y
    <3>2. LoopTypeOK'
      BY DEF LoopTypeOK
    <3>3. Narrowed(X, Y, begin, end)'
      BY <3>1, LoopFacts DEF Narrowed
    <3>4. Narrowed(m1, m2, begin, begin)
      BY <3>1 DEF LoopTypeOK
    <3>. QED
      BY <3>2, <3>3, <3>4 DEF ReturnsMedian, ThrowsOnlyUnsearchable, LoopTypeOK
  <2>6. CASE ThrowAbsent
    <3>. USE <2>6 DEF ThrowAbsent
    <3>1. X' = X /\ Y' = Y
      BY DEF X, Y
    <3>2. LoopTypeOK'
      BY DEF LoopTypeOK
    <3>3. Narrowed(X, Y, begin, end)'
      BY <3>1
    <3>4. ThrowsOnlyUnsearchable'
      <4>1. X = m2 /\ Y = m1 /\ begin = end
        BY DEF X, Y, LoopTypeOK
      <4>2. Narrowed(m2, m1, begin, begin)
        BY <4>1
      <4>3. ~(Len(m1) + Len(m2) > 0)
        BY <4>2, NotBothExcluded DEF LoopTypeOK
      <4>. QED
        BY <4>3 DEF ThrowsOnlyUnsearchable, Searchable
    <3>. QED
      BY <3>2, <3>3, <3>4 DEF ReturnsMedian
  <2>7. CASE Spin \/ UNCHANGED searchVars
    BY <2>7 DEF Spin, searchVars, X, Y, LoopTypeOK, ReturnsMedian, ThrowsOnlyUnsearchable
  <2>. QED
    BY <2>1, <2>2, <2>3, <2>4, <2>5, <2>6, <2>7 DEF SearchNext
<1>. QED
  BY <1>1, <1>2, PTL DEF SearchSpec

\* Types: begin and end stay inside 0 .. m1.size() + m2.size(), in that order.
THEOREM SearchTypeOK == SearchSpec => []LoopTypeOK
BY SearchInvariant, PTL DEF SearchInv

\* Whatever FindMedian returns is the median of the union (pmergejoin.h:95, 122).
THEOREM SearchReturnsMedian == SearchSpec => []ReturnsMedian
BY SearchInvariant, PTL DEF SearchInv

\* FindMedian throws only on spans with no element, a value in both, or a value
\* equal to MIN<T>() or MAX<T>() (pmergejoin.h:97, 126).
THEOREM SearchThrowsOnlyUnsearchable == SearchSpec => []ThrowsOnlyUnsearchable
BY SearchInvariant, PTL DEF SearchInv

---------------------------------------------------------------------------------
\* The loop under way still has to answer what it had to answer when it began, and
\* the second one runs only where the first found nothing.
StillAnswers ==
  /\ result.tag = "searching" => ProbeLoop(X, Y)[<<begin, end>>] = Probe(X, Y)
  /\ pass = 2 => Probe(m1, m2).tag = "absent"
  /\ AgreesWithFindMedian

\* What each branch makes of the loop's answer.
LEMMA Branches ==
  ASSUME LoopTypeOK, result.tag = "searching"
  PROVE  LET answer == ProbeLoop(X, Y)[<<begin, end>>] IN
         /\ StepRight => answer = ProbeLoop(X, Y)[<<Mid + 1, end>>]
         /\ StepLeft => answer = ProbeLoop(X, Y)[<<begin, Mid>>]
         /\ Return => answer = [tag |-> "returned", val |-> At(X, Mid)]
         /\ ThrowTie => answer.tag = "tie"
         /\ begin >= end => answer.tag = "absent"
<1>1. /\ Len(X) + Len(Y) \in Nat
      /\ begin \in 0..(Len(X) + Len(Y)) /\ end \in 0..(Len(X) + Len(Y))
  BY LoopFacts DEF LoopTypeOK
<1>2. ProbeLoop(X, Y)[<<begin, end>>] = Turn(X, Y, ProbeLoop(X, Y), begin, end)
  BY <1>1, LoopTurn
<1>3. begin >= end => Turn(X, Y, ProbeLoop(X, Y), begin, end).tag = "absent"
  BY DEF Turn
<1>4. ASSUME Probing
      PROVE  LET answer == Turn(X, Y, ProbeLoop(X, Y), begin, end) IN
             /\ StepRight => answer = ProbeLoop(X, Y)[<<Mid + 1, end>>]
             /\ StepLeft => answer = ProbeLoop(X, Y)[<<begin, Mid>>]
             /\ Return => answer = [tag |-> "returned", val |-> At(X, Mid)]
             /\ ThrowTie => answer.tag = "tie"
  <2>1. ~(begin >= end)
    BY <1>1, <1>4 DEF Probing
  <2>. QED
    BY <2>1 DEF Turn, Mid, StepRight, StepLeft, Return, ThrowTie
<1>. QED
  BY <1>2, <1>3, <1>4 DEF StepRight, StepLeft, Return, ThrowTie

\* The two loops compute the function FindMedian that the merge threads call
\* (pmergejoin.h:76-126).
THEOREM SearchAgreesWithFindMedian == SearchSpec => []AgreesWithFindMedian
<1>1. SearchInit => StillAnswers
  <2>. SUFFICES ASSUME SearchInit PROVE StillAnswers
    OBVIOUS
  <2>1. pass = 1 /\ begin = 0 /\ result.tag = "searching"
        /\ end = Len(X) + Len(Y)
    BY DEF SearchInit, X, Y
  <2>. QED
    BY <2>1 DEF StillAnswers, Probe, AgreesWithFindMedian
<1>2. StillAnswers /\ LoopTypeOK /\ LoopTypeOK' /\ [SearchNext]_searchVars => StillAnswers'
  <2>. SUFFICES ASSUME StillAnswers, LoopTypeOK, LoopTypeOK', [SearchNext]_searchVars PROVE StillAnswers'
    OBVIOUS
  <2>. USE DEF StillAnswers
  <2>1. CASE StepRight
    <3>1. /\ X' = X /\ Y' = Y /\ begin' = Mid + 1 /\ UNCHANGED <<m1, m2, pass, end, result>>
          /\ result.tag = "searching"
      BY <2>1 DEF StepRight, Probing, X, Y
    <3>2. ProbeLoop(X, Y)[<<Mid + 1, end>>] = Probe(X, Y)
      BY <2>1, <3>1, Branches
    <3>. QED
      BY <3>1, <3>2 DEF AgreesWithFindMedian
  <2>2. CASE StepLeft
    <3>1. /\ X' = X /\ Y' = Y /\ end' = Mid /\ UNCHANGED <<m1, m2, pass, begin, result>>
          /\ result.tag = "searching"
      BY <2>2 DEF StepLeft, Probing, X, Y
    <3>2. ProbeLoop(X, Y)[<<begin, Mid>>] = Probe(X, Y)
      BY <2>2, <3>1, Branches
    <3>. QED
      BY <3>1, <3>2 DEF AgreesWithFindMedian
  <2>3. CASE Return
    <3>1. /\ result.tag = "searching" /\ UNCHANGED <<m1, m2, pass, begin, end>>
          /\ result' = [tag |-> "returned", val |-> At(X, Mid)]
      BY <2>3 DEF Return, Probing
    <3>2. Probe(X, Y) = result'
      BY <2>3, <3>1, Branches
    <3>3. CASE pass = 1
      BY <3>1, <3>2, <3>3 DEF X, Y, AgreesWithFindMedian, FindMedian
    <3>4. CASE pass = 2
      BY <3>1, <3>2, <3>4 DEF X, Y, AgreesWithFindMedian, FindMedian
    <3>. QED
      BY <3>3, <3>4 DEF LoopTypeOK
  <2>4. CASE ThrowTie
    <3>1. /\ result.tag = "searching" /\ pass = 1 /\ UNCHANGED <<m1, m2, pass, begin, end>>
          /\ result' = [tag |-> "threw", val |-> MinT]
      BY <2>4 DEF ThrowTie, Probing
    <3>2. Probe(m1, m2).tag = "tie"
      BY <2>4, <3>1, Branches DEF X, Y
    <3>. QED
      BY <3>1, <3>2 DEF AgreesWithFindMedian, FindMedian
  <2>5. CASE SecondPass
    <3>1. /\ result.tag = "searching" /\ begin >= end /\ pass = 1 /\ pass' = 2
          /\ UNCHANGED <<m1, m2, result>> /\ begin' = 0
      BY <2>5 DEF SecondPass
    <3>2. Probe(m1, m2).tag = "absent"
      BY <3>1, Branches DEF X, Y
    <3>3. X' = m2 /\ Y' = m1 /\ end' = Len(m2) + Len(m1)
      <4>1. Len(m1) \in Nat /\ Len(m2) \in Nat
        BY DEF LoopTypeOK
      <4>. QED
        BY <2>5, <4>1 DEF SecondPass, X, Y
    <3>4. ProbeLoop(X', Y')[<<begin', end'>>] = Probe(X', Y')
      BY <3>1, <3>3 DEF Probe
    <3>. QED
      BY <3>1, <3>2, <3>4 DEF AgreesWithFindMedian
  <2>6. CASE ThrowAbsent
    <3>1. /\ result.tag = "searching" /\ begin >= end /\ pass = 2
          /\ UNCHANGED <<m1, m2, pass, begin, end>> /\ result' = [tag |-> "threw", val |-> MinT]
      BY <2>6 DEF ThrowAbsent
    <3>2. Probe(m2, m1).tag = "absent" /\ Probe(m1, m2).tag = "absent"
      BY <3>1, Branches DEF X, Y
    <3>. QED
      BY <3>1, <3>2 DEF AgreesWithFindMedian, FindMedian
  <2>7. CASE Spin \/ UNCHANGED searchVars
    BY <2>7 DEF Spin, searchVars, X, Y, AgreesWithFindMedian
  <2>. QED
    BY <2>1, <2>2, <2>3, <2>4, <2>5, <2>6, <2>7 DEF SearchNext
<1>3. StillAnswers => AgreesWithFindMedian
  BY DEF StillAnswers
<1>. QED
  BY <1>1, <1>2, <1>3, SearchTypeOK, PTL DEF SearchSpec
=================================================================================
