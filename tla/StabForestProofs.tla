---------------------------- MODULE StabForestProofs ----------------------------
(*****************************************************************************)
(* Theorems about the stab forest, for all events and any number of them:    *)
(* it is a binary counter of its leaves, no node in a tree is written again, *)
(* a search goes down to the one node that has its value, and the lists of   *)
(* every forest are ordered and hold just the events of their place.  They   *)
(* rest on lemmas about powers of two, cuts and merges of event lists, and   *)
(* the shape of a forest as the loop of maintain_index changes it.           *)
(*****************************************************************************)
EXTENDS StabForest, FiniteSetTheorems, WellFoundedInduction, TLAPS

\* The order of the naturals.
NatLess == OpToRel(<, Nat)

\* A set of naturals has a smallest element.
LEMMA NatMin ==
  ASSUME NEW S \in SUBSET Nat, S # {}
  PROVE  \E n \in S : \A m \in S : n <= m
<1>1. IsWellFoundedOn(NatLess, Nat)
  BY NatLessThanWellFounded DEF NatLess
<1>2. \A x, y \in Nat : x < y => <<x, y>> \in NatLess
  BY DEF OpToRel, NatLess
<1>3. PICK x \in S : \A y \in S : ~(<<y, x>> \in NatLess)
  BY <1>1, WFMin
<1>4. \A y \in S : ~(y < x)
  BY <1>2, <1>3
<1>. QED
  BY <1>4

\* Induction: a set that has zero and with each number the next one is all of Nat.
LEMMA NatAll ==
  ASSUME NEW S \in SUBSET Nat, 0 \in S, \A n \in S : n + 1 \in S
  PROVE  S = Nat
<1>. DEFINE D == Nat \ S
<1>. SUFFICES ASSUME D # {} PROVE FALSE
  OBVIOUS
<1>1. PICK n \in D : \A k \in D : n <= k
  BY NatMin
<1>2. n # 0 /\ n \in Nat
  OBVIOUS
<1>3. n - 1 \in Nat /\ ~(n <= n - 1)
  BY <1>2
<1>4. n - 1 \in S
  BY <1>1, <1>3
<1>5. (n - 1) + 1 \in S
  BY <1>4
<1>. QED
  BY <1>1, <1>2, <1>5

---------------------------------------------------------------------------------
(* Powers of two. *)

\* The equation of Leaves on the heights of D, and up to a height.
IsLeaves(D, g) == g = [h \in D |-> IF h = 0 THEN 1 ELSE 2 * g[h - 1]]

\* It has one solution up to each height, ...
LEMMA LeavesUnique ==
  ASSUME NEW n \in Nat, NEW m \in Nat, NEW f, NEW g, IsLeaves(0..n, f), IsLeaves(0..m, g)
  PROVE  \A h \in Nat : h <= n /\ h <= m => f[h] = g[h]
<1>. DEFINE S == {h \in Nat : h <= n /\ h <= m => f[h] = g[h]}
<1>1. 0 \in S
  BY DEF IsLeaves
<1>2. ASSUME NEW h \in S PROVE h + 1 \in S
  <2>1. ASSUME h + 1 <= n, h + 1 <= m PROVE f[h + 1] = g[h + 1]
    <3>1. h \in Nat /\ f[h] = g[h]
      BY <2>1
    <3>2. f[h + 1] = 2 * f[(h + 1) - 1] /\ g[h + 1] = 2 * g[(h + 1) - 1]
      BY <2>1, <3>1 DEF IsLeaves
    <3>. QED
      BY <3>1, <3>2
  <2>. QED
    BY <2>1
<1>. HIDE DEF S
<1>3. S = Nat
  <2>1. S \in SUBSET Nat
    BY DEF S
  <2>. QED
    BY <1>1, <1>2, <2>1, NatAll
<1>. QED
  BY <1>3 DEF S

\* ... which takes whole numbers above zero, ...
LEMMA LeavesExist ==
  ASSUME NEW n \in Nat
  PROVE  \E g : IsLeaves(0..n, g) /\ \A h \in 0..n : g[h] \in Nat \ {0}
<1>. DEFINE Good(k, g) == IsLeaves(0..k, g) /\ \A h \in 0..k : g[h] \in Nat \ {0}
            S == {k \in Nat : \E g : Good(k, g)}
<1>1. 0 \in S
  <2>. DEFINE g == [h \in 0..0 |-> 1]
  <2>1. Good(0, g)
    BY DEF IsLeaves
  <2>. QED
    BY <2>1
<1>2. ASSUME NEW k \in S PROVE k + 1 \in S
  <2>1. PICK g : Good(k, g)
    OBVIOUS
  <2>2. \A h \in 0..k : g[h] = (IF h = 0 THEN 1 ELSE 2 * g[h - 1]) /\ g[h] \in Nat \ {0}
    BY <2>1 DEF IsLeaves
  <2>. DEFINE f == [h \in 0..(k + 1) |-> IF h <= k THEN g[h] ELSE 2 * g[k]]
  <2>3. \A h \in 0..k : f[h] = g[h]
    OBVIOUS
  <2>4. f[k + 1] = 2 * g[k]
    OBVIOUS
  <2>5. DOMAIN f = 0..(k + 1) /\ f = [h \in 0..(k + 1) |-> f[h]]
    OBVIOUS
  <2>. HIDE DEF f
  <2>6. ASSUME NEW h \in 0..(k + 1)
        PROVE  f[h] = (IF h = 0 THEN 1 ELSE 2 * f[h - 1]) /\ f[h] \in Nat \ {0}
    <3>1. CASE h = k + 1
      <4>1. f[h] = 2 * g[k] /\ h - 1 = k /\ f[k] = g[k] /\ g[k] \in Nat \ {0} /\ h # 0
        BY <2>2, <2>3, <2>4, <3>1
      <4>. QED
        BY <4>1
    <3>2. CASE h # k + 1
      <4>1. h \in 0..k /\ (h # 0 => h - 1 \in 0..k)
        BY <3>2
      <4>. QED
        BY <2>2, <2>3, <4>1
    <3>. QED
      BY <3>1, <3>2
  <2>7. IsLeaves(0..(k + 1), f)
    BY <2>5, <2>6 DEF IsLeaves
  <2>. QED
    BY <2>6, <2>7
<1>. HIDE DEF S
<1>3. S = Nat
  <2>1. S \in SUBSET Nat
    BY DEF S
  <2>. QED
    BY <1>1, <1>2, <2>1, NatAll
<1>. QED
  BY <1>3 DEF S

\* ... so Leaves is what its definition says, and doubles with each level.
LEMMA LeavesDouble ==
  /\ Leaves[0] = 1
  /\ \A h \in Nat : Leaves[h] \in Nat /\ Leaves[h] > 0 /\ Leaves[h + 1] = 2 * Leaves[h]
<1>. DEFINE G(n) == CHOOSE g : IsLeaves(0..n, g) /\ \A h \in 0..n : g[h] \in Nat \ {0}
            W == [n \in Nat |-> G(n)[n]]
<1>1. \A n \in Nat : IsLeaves(0..n, G(n)) /\ \A h \in 0..n : G(n)[h] \in Nat \ {0}
  BY LeavesExist
<1>. HIDE DEF G
<1>2. ASSUME NEW n \in Nat PROVE W[n] = (IF n = 0 THEN 1 ELSE 2 * W[n - 1]) /\ W[n] \in Nat \ {0}
  <2>1. W[n] = G(n)[n] /\ W[n] \in Nat \ {0}
    BY <1>1
  <2>2. CASE n = 0
    BY <1>1, <2>1, <2>2 DEF IsLeaves
  <2>3. CASE n # 0
    <3>1. PICK k \in Nat : k = n - 1
      BY <2>3
    <3>2. G(n)[n] = 2 * G(n)[k]
      <4>1. n \in 0..n /\ n # 0 /\ IsLeaves(0..n, G(n))
        BY <1>1, <2>3
      <4>. QED
        BY <3>1, <4>1 DEF IsLeaves
    <3>3. G(n)[k] = G(k)[k]
      BY <1>1, <3>1, LeavesUnique
    <3>4. W[k] = G(k)[k]
      OBVIOUS
    <3>. QED
      BY <2>1, <2>3, <3>1, <3>2, <3>3, <3>4
  <2>. QED
    BY <2>2, <2>3
<1>3. W = [n \in Nat |-> W[n]]
  OBVIOUS
<1>. HIDE DEF W
<1>4. IsLeaves(Nat, W)
  BY <1>2, <1>3 DEF IsLeaves
<1>5. Leaves = CHOOSE g : IsLeaves(Nat, g)
  BY DEF Leaves, IsLeaves
<1>6. IsLeaves(Nat, Leaves)
  BY <1>4, <1>5
<1>7. \A h \in Nat : Leaves[h] = IF h = 0 THEN 1 ELSE 2 * Leaves[h - 1]
  BY <1>6 DEF IsLeaves
<1>8. \A h \in Nat : Leaves[h + 1] = 2 * Leaves[h]
  <2>1. ASSUME NEW h \in Nat PROVE Leaves[h + 1] = 2 * Leaves[h]
    <3>1. h + 1 \in Nat /\ h + 1 # 0 /\ (h + 1) - 1 = h
      OBVIOUS
    <3>. QED
      BY <1>7, <3>1
  <2>. QED
    BY <2>1
<1>. DEFINE S == {h \in Nat : Leaves[h] \in Nat /\ Leaves[h] > 0}
<1>9. S = Nat
  <2>1. 0 \in S
    BY <1>7
  <2>2. ASSUME NEW h \in S PROVE h + 1 \in S
    <3>1. h \in Nat /\ Leaves[h] \in Nat /\ Leaves[h] > 0
      OBVIOUS
    <3>2. Leaves[h + 1] = 2 * Leaves[h]
      BY <1>8, <3>1
    <3>. QED
      BY <3>1, <3>2
  <2>3. S \in SUBSET Nat
    OBVIOUS
  <2>. HIDE DEF S
  <2>. QED
    BY <2>1, <2>2, <2>3, NatAll
<1>. QED
  BY <1>7, <1>8, <1>9

---------------------------------------------------------------------------------
(* Lists. *)

\* Where a max-list is cut (algorithm.hpp: std::upper_bound with end_compare).
LEMMA CutAt ==
  ASSUME NEW s \in Seq(Event), NEW v \in Int
  PROVE  /\ UpperBoundEnd(s, v) \in 1..(Len(s) + 1)
         /\ \A i \in 1..(UpperBoundEnd(s, v) - 1) : s[i].end >= v
         /\ UpperBoundEnd(s, v) <= Len(s) => ~(s[UpperBoundEnd(s, v)].end >= v)
<1>. DEFINE I == {i \in 1..Len(s) : ~(s[i].end >= v)}
            p == IF I # {} THEN CHOOSE x \in I : \A y \in I : x <= y ELSE 0
<1>1. UpperBoundEnd(s, v) = IF p = 0 THEN Len(s) + 1 ELSE p
  BY DEF UpperBoundEnd, Skip, SelectInSubSeq, Min
<1>2. CASE I = {}
  BY <1>1, <1>2
<1>3. CASE I # {}
  <2>1. I \in SUBSET Nat
    OBVIOUS
  <2>2. \E x \in I : \A y \in I : x <= y
    BY <1>3, <2>1, NatMin
  <2>3. p \in I /\ \A y \in I : p <= y
    BY <1>3, <2>2
  <2>. HIDE DEF p
  <2>4. UpperBoundEnd(s, v) = p /\ p \in 1..Len(s) /\ ~(s[p].end >= v)
    BY <1>1, <2>3
  <2>5. \A i \in 1..(p - 1) : i \in 1..Len(s) /\ ~(p <= i)
    BY <2>4
  <2>6. \A i \in 1..(p - 1) : s[i].end >= v
    BY <2>3, <2>5
  <2>. QED
    BY <2>4, <2>6
<1>. QED
  BY <1>2, <1>3

\* A part of a sequence.
LEMMA PartOf ==
  ASSUME NEW S, NEW s \in Seq(S), NEW m \in 1..(Len(s) + 1), NEW n \in 0..Len(s)
  PROVE  SubSeq(s, m, n) \in Seq(S)
OBVIOUS

\* A sequence backwards.
LEMMA Backwards ==
  ASSUME NEW S, NEW s \in Seq(S)
  PROVE  Reverse(s) \in Seq(S)
<1>1. \A i \in 1..Len(s) : (Len(s) - i) + 1 \in 1..Len(s)
  OBVIOUS
<1>2. Len(s) \in Nat /\ \A i \in 1..Len(s) : s[i] \in S
  OBVIOUS
<1>3. \A i \in 1..Len(s) : s[(Len(s) - i) + 1] \in S
  BY <1>1, <1>2
<1>. QED
  BY <1>2, <1>3 DEF Reverse
\* The positions of kept below i.
Below(kept, i) == {k \in kept : k < i}
Rank(kept, i) == Cardinality(Below(kept, i))

\* Ranks count up by one at each position kept, ...
LEMMA RankSteps ==
  ASSUME NEW n \in Nat, NEW kept \in SUBSET (1..n)
  PROVE  /\ IsFiniteSet(kept) /\ Cardinality(kept) \in Nat
         /\ Rank(kept, 1) = 0 /\ Rank(kept, n + 1) = Cardinality(kept)
         /\ \A i \in Nat : Rank(kept, i) \in Nat
         /\ \A i \in kept : Rank(kept, i + 1) = Rank(kept, i) + 1
         /\ \A i \in Nat \ kept : Rank(kept, i + 1) = Rank(kept, i)
<1>1. IsFiniteSet(kept) /\ Cardinality(kept) \in Nat
  <2>1. IsFiniteSet(1..n)
    BY FS_Interval
  <2>2. IsFiniteSet(kept)
    BY <2>1, FS_Subset
  <2>. QED
    BY <2>2, FS_CardinalityType
<1>2. ASSUME NEW i \in Nat
      PROVE  IsFiniteSet(Below(kept, i)) /\ Rank(kept, i) \in Nat
  <2>1. Below(kept, i) \subseteq kept
    BY DEF Below
  <2>2. IsFiniteSet(Below(kept, i))
    BY <1>1, <2>1, FS_Subset
  <2>. QED
    BY <2>2, FS_CardinalityType DEF Rank
<1>3. Below(kept, 1) = {} /\ Below(kept, n + 1) = kept
  <2>1. \A k \in kept : ~(k < 1) /\ k < n + 1
    OBVIOUS
  <2>. QED
    BY <2>1 DEF Below
<1>4. Rank(kept, 1) = 0 /\ Rank(kept, n + 1) = Cardinality(kept)
  <2>1. Cardinality({}) = 0
    BY FS_EmptySet
  <2>. QED
    BY <1>3, <2>1 DEF Rank
<1>5. ASSUME NEW i \in kept PROVE Rank(kept, i + 1) = Rank(kept, i) + 1
  <2>1. i \in Nat /\ \A k \in kept : k < i + 1 <=> k < i \/ k = i
    OBVIOUS
  <2>2. Below(kept, i + 1) = Below(kept, i) \cup {i} /\ i \notin Below(kept, i)
    <3>1. i \in kept /\ ~(i < i)
      BY <2>1
    <3>2. Below(kept, i) = {k \in kept : k < i} /\ Below(kept, i + 1) = {k \in kept : k < i + 1}
      BY DEF Below
    <3>. QED
      BY <2>1, <3>1, <3>2
  <2>3. IsFiniteSet(Below(kept, i))
    BY <1>2, <2>1
  <2>4. Cardinality(Below(kept, i) \cup {i}) = Cardinality(Below(kept, i)) + 1
    BY <2>2, <2>3, FS_AddElement
  <2>. QED
    BY <2>2, <2>4 DEF Rank
<1>6. ASSUME NEW i \in Nat \ kept PROVE Rank(kept, i + 1) = Rank(kept, i)
  <2>1. \A k \in kept : k < i + 1 <=> k < i
    OBVIOUS
  <2>2. Below(kept, i + 1) = Below(kept, i)
    BY <2>1 DEF Below
  <2>. QED
    BY <2>2 DEF Rank
<1>. QED
  BY <1>1, <1>2, <1>4, <1>5, <1>6

\* ... so that they keep the order of the positions, ...
LEMMA RankUp ==
  ASSUME NEW n \in Nat, NEW kept \in SUBSET (1..n), NEW i \in Nat, NEW j \in Nat, i <= j
  PROVE  Rank(kept, i) <= Rank(kept, j) /\ (i \in kept /\ i < j => Rank(kept, i) < Rank(kept, j))
<1>1. \A k \in Nat : Rank(kept, k) \in Nat /\ IsFiniteSet(Below(kept, k))
  <2>1. \A k \in Nat : Below(kept, k) \subseteq kept
    BY DEF Below
  <2>2. IsFiniteSet(kept) /\ \A k \in Nat : Rank(kept, k) \in Nat
    BY RankSteps
  <2>. QED
    BY <2>1, <2>2, FS_Subset
<1>2. ASSUME NEW a \in Nat, NEW b \in Nat, a <= b PROVE Rank(kept, a) <= Rank(kept, b)
  <2>1. \A k \in kept : k < a => k < b
    BY <1>2
  <2>2. Below(kept, a) \subseteq Below(kept, b)
    BY <2>1 DEF Below
  <2>. QED
    BY <1>1, <2>2, FS_Subset DEF Rank
<1>3. ASSUME i \in kept, i < j PROVE Rank(kept, i) < Rank(kept, j)
  <2>1. Rank(kept, i + 1) = Rank(kept, i) + 1
    BY <1>3, RankSteps
  <2>2. i + 1 \in Nat /\ i + 1 <= j
    BY <1>3
  <2>3. Rank(kept, i + 1) <= Rank(kept, j)
    BY <1>2, <2>2
  <2>. QED
    BY <1>1, <2>1, <2>2, <2>3
<1>. QED
  BY <1>2, <1>3

\* ... and every rank below the number of positions kept is that of one of them.
LEMMA RankTaken ==
  ASSUME NEW n \in Nat, NEW kept \in SUBSET (1..n), NEW r \in Nat, r < Cardinality(kept)
  PROVE  \E i \in kept : Rank(kept, i) = r
<1>. DEFINE S == {t \in Nat : Rank(kept, t + 1) > r}
<1>1. n \in S
  BY RankSteps
<1>2. PICK t \in S : \A k \in S : t <= k
  <2>1. S \in SUBSET Nat /\ S # {}
    BY <1>1
  <2>. HIDE DEF S
  <2>. QED
    BY <2>1, NatMin
<1>3. t # 0
  BY RankSteps
<1>4. PICK k \in Nat : t = k + 1
  <2>1. t \in Nat /\ t - 1 \in Nat /\ t = (t - 1) + 1
    BY <1>3
  <2>. QED
    BY <2>1
<1>5. k \notin S
  BY <1>2, <1>4
<1>6. Rank(kept, t) \in Nat /\ ~(Rank(kept, t) > r) /\ Rank(kept, t + 1) > r /\ Rank(kept, t + 1) \in Nat
  BY <1>4, <1>5, RankSteps
<1>7. t \in kept
  BY <1>6, RankSteps
<1>8. Rank(kept, t + 1) = Rank(kept, t) + 1
  BY <1>7, RankSteps
<1>9. Rank(kept, t) = r
  BY <1>6, <1>8
<1>. QED
  BY <1>7, <1>9

\* The elements at the positions kept are elements of the sequence.
LEMMA Elements ==
  ASSUME NEW S, NEW s \in Seq(S), NEW kept \in SUBSET (1..Len(s))
  PROVE  /\ ElementsAt(s, kept) \in Seq(S) /\ Len(ElementsAt(s, kept)) = Cardinality(kept)
         /\ \A n \in 1..Cardinality(kept) : \E i \in kept :
              Rank(kept, i) = n - 1 /\ ElementsAt(s, kept)[n] = s[i]
<1>1. Cardinality(kept) \in Nat /\ Len(s) \in Nat
  <2>1. Len(s) \in Nat
    OBVIOUS
  <2>. QED
    BY <2>1, RankSteps
<1>. DEFINE at(n) == CHOOSE i \in kept : Cardinality({k \in kept : k < i}) = n - 1
            E == ElementsAt(s, kept)
<1>2. ASSUME NEW n \in 1..Cardinality(kept)
      PROVE  at(n) \in kept /\ Rank(kept, at(n)) = n - 1
  <2>1. n - 1 \in Nat /\ n - 1 < Cardinality(kept)
    BY <1>1
  <2>2. \E i \in kept : Rank(kept, i) = n - 1
    BY <1>1, <2>1, RankTaken
  <2>. QED
    BY <2>2 DEF Rank, Below
<1>3. E = [n \in 1..Cardinality(kept) |-> s[at(n)]]
  BY DEF ElementsAt
<1>. HIDE DEF at, E
<1>4. \A n \in 1..Cardinality(kept) : E[n] = s[at(n)] /\ s[at(n)] \in S
  <2>1. \A i \in kept : s[i] \in S
    OBVIOUS
  <2>2. ASSUME NEW n \in 1..Cardinality(kept) PROVE E[n] = s[at(n)] /\ s[at(n)] \in S
    <3>1. E[n] = s[at(n)]
      BY <1>3
    <3>2. at(n) \in kept
      BY <1>2
    <3>. QED
      BY <2>1, <3>1, <3>2
  <2>. QED
    BY <2>2
<1>5. E \in Seq(S) /\ Len(E) = Cardinality(kept)
  BY <1>1, <1>3, <1>4
<1>6. \A n \in 1..Cardinality(kept) : \E i \in kept : Rank(kept, i) = n - 1 /\ E[n] = s[i]
  BY <1>2, <1>4
<1>. USE DEF E
<1>7. ElementsAt(s, kept) \in Seq(S) /\ Len(ElementsAt(s, kept)) = Cardinality(kept)
  BY <1>5
<1>8. \A n \in 1..Cardinality(kept) : \E i \in kept :
        Rank(kept, i) = n - 1 /\ ElementsAt(s, kept)[n] = s[i]
  BY <1>6
<1>. QED
  BY <1>7, <1>8

---------------------------------------------------------------------------------
(* Merging two max-lists and three.  The equation of each recursion has a   *)
(* solution, found one step of the merge after the other, so that the       *)
(* recursion does what its equation says.                                   *)

\* What a merge does with i of a and j of b next, f telling what comes of the rest.
EndsTurn(a, b, f, i, j) ==
  IF i > Len(a) THEN SubSeq(b, j, Len(b))
  ELSE IF j > Len(b) THEN SubSeq(a, i, Len(a))
  ELSE IF b[j].end > a[i].end THEN <<b[j]>> \o f[<<i, j + 1>>]
  ELSE <<a[i]>> \o f[<<i + 1, j>>]
EndsPlaces(a, b) == (1..(Len(a) + 1)) \X (1..(Len(b) + 1))
IsEnds(a, b, f) == f = [at \in EndsPlaces(a, b) |-> EndsTurn(a, b, f, at[1], at[2])]

\* Two functions tell the same of the last k steps.
EndsAgree(a, b, f, g, k) ==
  \A i \in 1..(Len(a) + 1), j \in 1..(Len(b) + 1) :
    Len(a) + 1 - i + (Len(b) + 1 - j) < k => f[<<i, j>>] = g[<<i, j>>]

\* The recursion of MergesEnds is that equation.
LEMMA EndsChoice ==
  ASSUME NEW a, NEW b
  PROVE  MergesEnds(a, b) = CHOOSE f : IsEnds(a, b, f)
BY DEF MergesEnds, IsEnds, EndsTurn, EndsPlaces

\* Two functions that agree on what is left to merge give one turn.
LEMMA EndsLocal ==
  ASSUME NEW a, NEW b, Len(a) \in Nat, Len(b) \in Nat, NEW f, NEW g, NEW k \in Nat,
         NEW i \in 1..(Len(a) + 1), NEW j \in 1..(Len(b) + 1),
         Len(a) + 1 - i + (Len(b) + 1 - j) < k + 1, EndsAgree(a, b, f, g, k)
  PROVE  EndsTurn(a, b, f, i, j) = EndsTurn(a, b, g, i, j)
<1>1. CASE i <= Len(a) /\ j <= Len(b)
  <2>1. i \in 1..(Len(a) + 1) /\ j + 1 \in 1..(Len(b) + 1)
        /\ Len(a) + 1 - i + (Len(b) + 1 - (j + 1)) < k
    BY <1>1
  <2>2. i + 1 \in 1..(Len(a) + 1) /\ j \in 1..(Len(b) + 1)
        /\ Len(a) + 1 - (i + 1) + (Len(b) + 1 - j) < k
    BY <1>1
  <2>3. f[<<i, j + 1>>] = g[<<i, j + 1>>]
    BY <2>1 DEF EndsAgree
  <2>4. f[<<i + 1, j>>] = g[<<i + 1, j>>]
    BY <2>2 DEF EndsAgree
  <2>. QED
    BY <2>3, <2>4 DEF EndsTurn
<1>2. CASE ~(i <= Len(a) /\ j <= Len(b))
  BY <1>2 DEF EndsTurn
<1>. QED
  BY <1>1, <1>2

\* The equation of MergesEnds has a solution.
LEMMA EndsExist ==
  ASSUME NEW a, NEW b, Len(a) \in Nat, Len(b) \in Nat
  PROVE  \E f : IsEnds(a, b, f)
<1>. DEFINE A == 1..(Len(a) + 1)
            B == 1..(Len(b) + 1)
            Left(i, j) == Len(a) + 1 - i + (Len(b) + 1 - j)
            On(f) == f = [at \in EndsPlaces(a, b) |-> f[at]]
            Up(k, f) == \A i \in A, j \in B : Left(i, j) < k => f[<<i, j>>] = EndsTurn(a, b, f, i, j)
            S == {k \in Nat : \E f : On(f) /\ Up(k, f)}
<1>1. 0 \in S
  <2>. DEFINE f == [at \in EndsPlaces(a, b) |-> 0]
  <2>1. On(f)
    OBVIOUS
  <2>2. Up(0, f)
    OBVIOUS
  <2>. HIDE DEF f, On, Up
  <2>. QED
    BY <2>1, <2>2
<1>2. ASSUME NEW k \in S PROVE k + 1 \in S
  <2>1. k \in Nat
    OBVIOUS
  <2>2. PICK f : On(f) /\ Up(k, f)
    OBVIOUS
  <2>. DEFINE g == [at \in EndsPlaces(a, b) |-> EndsTurn(a, b, f, at[1], at[2])]
  <2>3. On(g)
    OBVIOUS
  <2>4. \A i \in A, j \in B : g[<<i, j>>] = EndsTurn(a, b, f, i, j)
    BY DEF EndsPlaces
  <2>5. EndsAgree(a, b, f, g, k)
    BY <2>2, <2>4 DEF EndsAgree
  <2>. HIDE DEF g
  <2>6. ASSUME NEW i \in A, NEW j \in B, Left(i, j) < k + 1
        PROVE  g[<<i, j>>] = EndsTurn(a, b, g, i, j)
    <3>1. EndsTurn(a, b, f, i, j) = EndsTurn(a, b, g, i, j)
      <4>1. k \in Nat /\ Len(a) + 1 - i + (Len(b) + 1 - j) < k + 1
        BY <2>1, <2>6
      <4>. HIDE DEF S, Up, On
      <4>. QED
        BY <2>5, <4>1, EndsLocal
    <3>. QED
      BY <2>4, <3>1
  <2>7. Up(k + 1, g)
    BY <2>6
  <2>8. k + 1 \in Nat
    BY <2>1
  <2>. HIDE DEF On, Up
  <2>. QED
    BY <2>3, <2>7, <2>8
<1>3. S = Nat
  <2>1. S \in SUBSET Nat
    OBVIOUS
  <2>. HIDE DEF S
  <2>. QED
    BY <1>1, <1>2, <2>1, NatAll
<1>4. Len(a) + Len(b) + 1 \in S
  <2>. HIDE DEF S
  <2>. QED
    BY <1>3
<1>5. PICK f : On(f) /\ Up(Len(a) + Len(b) + 1, f)
  BY <1>4
<1>6. \A i \in A, j \in B : f[<<i, j>>] = EndsTurn(a, b, f, i, j)
  <2>1. \A i \in A, j \in B : Left(i, j) < Len(a) + Len(b) + 1
    OBVIOUS
  <2>. QED
    BY <1>5, <2>1
<1>7. f = [at \in EndsPlaces(a, b) |-> EndsTurn(a, b, f, at[1], at[2])]
  <2>1. \A at \in EndsPlaces(a, b) : at[1] \in A /\ at[2] \in B /\ at = <<at[1], at[2]>>
    BY DEF EndsPlaces
  <2>2. \A at \in EndsPlaces(a, b) : f[at] = EndsTurn(a, b, f, at[1], at[2])
    BY <1>6, <2>1
  <2>3. On(f)
    BY <1>5
  <2>. QED
    BY <2>2, <2>3
<1>. QED
  BY <1>7 DEF IsEnds

\* One turn of std::merge.
LEMMA EndsStep ==
  ASSUME NEW a, NEW b, Len(a) \in Nat, Len(b) \in Nat,
         NEW i \in 1..(Len(a) + 1), NEW j \in 1..(Len(b) + 1)
  PROVE  MergesEnds(a, b)[<<i, j>>] = EndsTurn(a, b, MergesEnds(a, b), i, j)
<1>. DEFINE f == MergesEnds(a, b)
<1>1. f = CHOOSE g : IsEnds(a, b, g)
  BY EndsChoice
<1>2. \E g : IsEnds(a, b, g)
  BY EndsExist
<1>3. IsEnds(a, b, f)
  <2>. HIDE DEF f
  <2>. QED
    BY <1>1, <1>2
<1>. QED
  BY <1>3 DEF IsEnds, EndsPlaces

\* Merging two sequences of elements of S gives one.
LEMMA EndsTyped ==
  ASSUME NEW S, NEW a \in Seq(S), NEW b \in Seq(S)
  PROVE  MergeEnds(a, b) \in Seq(S)
<1>. DEFINE f == MergesEnds(a, b)
            A == 1..(Len(a) + 1)
            B == 1..(Len(b) + 1)
            Left(i, j) == Len(a) + 1 - i + (Len(b) + 1 - j)
            K == {k \in Nat : \A i \in A, j \in B : Left(i, j) < k => f[<<i, j>>] \in Seq(S)}
<1>0. Len(a) \in Nat /\ Len(b) \in Nat
  OBVIOUS
<1>1. \A i \in A, j \in B : f[<<i, j>>] = EndsTurn(a, b, f, i, j)
  BY <1>0, EndsStep
<1>. HIDE DEF f
<1>2. 0 \in K
  BY <1>0
<1>3. ASSUME NEW k \in K PROVE k + 1 \in K
  <2>1. ASSUME NEW i \in A, NEW j \in B, Left(i, j) < k + 1 PROVE f[<<i, j>>] \in Seq(S)
    <3>1. CASE i > Len(a)
      <4>1. EndsTurn(a, b, f, i, j) = SubSeq(b, j, Len(b))
        BY <3>1 DEF EndsTurn
      <4>2. SubSeq(b, j, Len(b)) \in Seq(S)
        BY <1>0, PartOf
      <4>. QED
        BY <1>1, <4>1, <4>2
    <3>2. CASE i <= Len(a) /\ j > Len(b)
      <4>1. EndsTurn(a, b, f, i, j) = SubSeq(a, i, Len(a))
        BY <1>0, <3>2 DEF EndsTurn
      <4>2. SubSeq(a, i, Len(a)) \in Seq(S)
        BY <1>0, PartOf
      <4>. QED
        BY <1>1, <4>1, <4>2
    <3>3. CASE i <= Len(a) /\ j <= Len(b)
      <4>1. i \in A /\ j + 1 \in B /\ Left(i, j + 1) < k
        BY <1>0, <2>1, <3>3
      <4>2. i + 1 \in A /\ j \in B /\ Left(i + 1, j) < k
        BY <1>0, <2>1, <3>3
      <4>3. f[<<i, j + 1>>] \in Seq(S) /\ f[<<i + 1, j>>] \in Seq(S)
        BY <4>1, <4>2
      <4>4. a[i] \in S /\ b[j] \in S
        BY <3>3
      <4>5. EndsTurn(a, b, f, i, j) \in {<<b[j]>> \o f[<<i, j + 1>>], <<a[i]>> \o f[<<i + 1, j>>]}
        BY <1>0, <3>3 DEF EndsTurn
      <4>6. <<b[j]>> \o f[<<i, j + 1>>] \in Seq(S) /\ <<a[i]>> \o f[<<i + 1, j>>] \in Seq(S)
        BY <4>3, <4>4
      <4>. QED
        BY <1>1, <4>5, <4>6
    <3>. QED
      BY <1>0, <3>1, <3>2, <3>3
  <2>2. k + 1 \in Nat
    OBVIOUS
  <2>. QED
    BY <2>1, <2>2
<1>4. K = Nat
  <2>1. K \in SUBSET Nat
    OBVIOUS
  <2>. HIDE DEF K
  <2>. QED
    BY <1>2, <1>3, <2>1, NatAll
<1>5. Len(a) + Len(b) + 1 \in K
  <2>. HIDE DEF K
  <2>. QED
    BY <1>0, <1>4
<1>6. 1 \in A /\ 1 \in B /\ Left(1, 1) < Len(a) + Len(b) + 1
  BY <1>0
<1>. QED
  BY <1>5, <1>6 DEF MergeEnds, f

\* What merge_three_way does with i of a, j of b and k of c next.
ThreeTurn(a, b, c, f, i, j, k) ==
  IF i > Len(a) THEN MergeEnds(SubSeq(b, j, Len(b)), SubSeq(c, k, Len(c)))
  ELSE IF j > Len(b) THEN MergeEnds(SubSeq(a, i, Len(a)), SubSeq(c, k, Len(c)))
  ELSE IF k > Len(c) THEN MergeEnds(SubSeq(a, i, Len(a)), SubSeq(b, j, Len(b)))
  ELSE IF b[j].end > a[i].end
  THEN IF c[k].end > b[j].end
       THEN <<c[k]>> \o f[<<i, j, k + 1>>]
       ELSE <<b[j]>> \o f[<<i, j + 1, k>>]
  ELSE IF c[k].end > a[i].end
       THEN <<c[k]>> \o f[<<i, j, k + 1>>]
       ELSE <<a[i]>> \o f[<<i + 1, j, k>>]
ThreePlaces(a, b, c) == (1..(Len(a) + 1)) \X (1..(Len(b) + 1)) \X (1..(Len(c) + 1))
IsThree(a, b, c, f) ==
  f = [at \in ThreePlaces(a, b, c) |-> ThreeTurn(a, b, c, f, at[1], at[2], at[3])]

\* Two functions tell the same of the last m steps.
ThreeAgree(a, b, c, f, g, m) ==
  \A i \in 1..(Len(a) + 1), j \in 1..(Len(b) + 1), k \in 1..(Len(c) + 1) :
    Len(a) + 1 - i + (Len(b) + 1 - j) + (Len(c) + 1 - k) < m => f[<<i, j, k>>] = g[<<i, j, k>>]

\* The recursion of MergesThreeWay is that equation.
LEMMA ThreeChoice ==
  ASSUME NEW a, NEW b, NEW c
  PROVE  MergesThreeWay(a, b, c) = CHOOSE f : IsThree(a, b, c, f)
BY DEF MergesThreeWay, IsThree, ThreeTurn, ThreePlaces

\* Where a step of the merge of three lists leads.
LEMMA ThreeNext ==
  ASSUME NEW n \in Nat, NEW p \in Nat, NEW q \in Nat, NEW m \in Nat,
         NEW i \in 1..(n + 1), NEW j \in 1..(p + 1), NEW k \in 1..(q + 1),
         n + 1 - i + (p + 1 - j) + (q + 1 - k) < m + 1, i <= n, j <= p, k <= q
  PROVE  /\ i + 1 \in 1..(n + 1) /\ n + 1 - (i + 1) + (p + 1 - j) + (q + 1 - k) < m
         /\ j + 1 \in 1..(p + 1) /\ n + 1 - i + (p + 1 - (j + 1)) + (q + 1 - k) < m
         /\ k + 1 \in 1..(q + 1) /\ n + 1 - i + (p + 1 - j) + (q + 1 - (k + 1)) < m
OBVIOUS

\* Two functions that agree on what is left to merge give one turn.
LEMMA ThreeLocal ==
  ASSUME NEW a, NEW b, NEW c, Len(a) \in Nat, Len(b) \in Nat, Len(c) \in Nat,
         NEW f, NEW g, NEW m \in Nat,
         NEW i \in 1..(Len(a) + 1), NEW j \in 1..(Len(b) + 1), NEW k \in 1..(Len(c) + 1),
         Len(a) + 1 - i + (Len(b) + 1 - j) + (Len(c) + 1 - k) < m + 1,
         ThreeAgree(a, b, c, f, g, m)
  PROVE  ThreeTurn(a, b, c, f, i, j, k) = ThreeTurn(a, b, c, g, i, j, k)
<1>1. CASE i <= Len(a) /\ j <= Len(b) /\ k <= Len(c)
  <2>1. /\ i + 1 \in 1..(Len(a) + 1)
        /\ Len(a) + 1 - (i + 1) + (Len(b) + 1 - j) + (Len(c) + 1 - k) < m
        /\ j + 1 \in 1..(Len(b) + 1)
        /\ Len(a) + 1 - i + (Len(b) + 1 - (j + 1)) + (Len(c) + 1 - k) < m
        /\ k + 1 \in 1..(Len(c) + 1)
        /\ Len(a) + 1 - i + (Len(b) + 1 - j) + (Len(c) + 1 - (k + 1)) < m
    BY <1>1, ThreeNext
  <2>2. f[<<i + 1, j, k>>] = g[<<i + 1, j, k>>]
    BY <2>1 DEF ThreeAgree
  <2>3. f[<<i, j + 1, k>>] = g[<<i, j + 1, k>>]
    BY <2>1 DEF ThreeAgree
  <2>4. f[<<i, j, k + 1>>] = g[<<i, j, k + 1>>]
    BY <2>1 DEF ThreeAgree
  <2>. QED
    BY <2>2, <2>3, <2>4 DEF ThreeTurn
<1>2. CASE ~(i <= Len(a) /\ j <= Len(b) /\ k <= Len(c))
  <2>1. i > Len(a) \/ j > Len(b) \/ k > Len(c)
    BY <1>2
  <2>. QED
    BY <2>1 DEF ThreeTurn
<1>. QED
  BY <1>1, <1>2

\* The equation of MergesThreeWay has a solution.
LEMMA ThreeExist ==
  ASSUME NEW a, NEW b, NEW c, Len(a) \in Nat, Len(b) \in Nat, Len(c) \in Nat
  PROVE  \E f : IsThree(a, b, c, f)
<1>. DEFINE A == 1..(Len(a) + 1)
            B == 1..(Len(b) + 1)
            C == 1..(Len(c) + 1)
            Left(i, j, k) == Len(a) + 1 - i + (Len(b) + 1 - j) + (Len(c) + 1 - k)
            On(f) == f = [at \in ThreePlaces(a, b, c) |-> f[at]]
            Up(m, f) == \A i \in A, j \in B, k \in C :
                          Left(i, j, k) < m => f[<<i, j, k>>] = ThreeTurn(a, b, c, f, i, j, k)
            S == {m \in Nat : \E f : On(f) /\ Up(m, f)}
<1>1. 0 \in S
  <2>. DEFINE f == [at \in ThreePlaces(a, b, c) |-> 0]
  <2>1. On(f)
    OBVIOUS
  <2>2. Up(0, f)
    OBVIOUS
  <2>. HIDE DEF f, On, Up
  <2>. QED
    BY <2>1, <2>2
<1>2. ASSUME NEW m \in S PROVE m + 1 \in S
  <2>1. m \in Nat
    OBVIOUS
  <2>2. PICK f : On(f) /\ Up(m, f)
    OBVIOUS
  <2>. DEFINE g == [at \in ThreePlaces(a, b, c) |-> ThreeTurn(a, b, c, f, at[1], at[2], at[3])]
  <2>3. On(g)
    OBVIOUS
  <2>4. \A i \in A, j \in B, k \in C : g[<<i, j, k>>] = ThreeTurn(a, b, c, f, i, j, k)
    <3>1. \A i \in A, j \in B, k \in C :
            /\ <<i, j, k>> \in ThreePlaces(a, b, c)
            /\ <<i, j, k>>[1] = i /\ <<i, j, k>>[2] = j /\ <<i, j, k>>[3] = k
      BY DEF ThreePlaces
    <3>2. ASSUME NEW i \in A, NEW j \in B, NEW k \in C
          PROVE  g[<<i, j, k>>] = ThreeTurn(a, b, c, f, i, j, k)
      <4>1. PICK at : at = <<i, j, k>>
        OBVIOUS
      <4>2. at \in ThreePlaces(a, b, c) /\ at[1] = i /\ at[2] = j /\ at[3] = k
        BY <3>1, <4>1
      <4>3. g[at] = ThreeTurn(a, b, c, f, at[1], at[2], at[3])
        BY <4>2
      <4>. HIDE DEF g
      <4>. QED
        BY <4>1, <4>2, <4>3
    <3>. QED
      BY <3>2
  <2>. HIDE DEF g
  <2>5. ThreeAgree(a, b, c, f, g, m)
    <3>1. ASSUME NEW i \in A, NEW j \in B, NEW k \in C, Left(i, j, k) < m
          PROVE  f[<<i, j, k>>] = g[<<i, j, k>>]
      BY <2>2, <2>4, <3>1
    <3>. QED
      BY <3>1 DEF ThreeAgree
  <2>6. ASSUME NEW i \in A, NEW j \in B, NEW k \in C, Left(i, j, k) < m + 1
        PROVE  g[<<i, j, k>>] = ThreeTurn(a, b, c, g, i, j, k)
    <3>1. ThreeTurn(a, b, c, f, i, j, k) = ThreeTurn(a, b, c, g, i, j, k)
      <4>1. m \in Nat /\ Len(a) + 1 - i + (Len(b) + 1 - j) + (Len(c) + 1 - k) < m + 1
        BY <2>1, <2>6
      <4>. HIDE DEF S, Up, On
      <4>. QED
        BY <2>5, <4>1, ThreeLocal
    <3>. QED
      BY <2>4, <3>1
  <2>7. Up(m + 1, g)
    BY <2>6
  <2>8. m + 1 \in Nat
    BY <2>1
  <2>. HIDE DEF On, Up
  <2>. QED
    BY <2>3, <2>7, <2>8
<1>3. S = Nat
  <2>1. S \in SUBSET Nat
    OBVIOUS
  <2>. HIDE DEF S
  <2>. QED
    BY <1>1, <1>2, <2>1, NatAll
<1>. DEFINE most == Len(a) + Len(b) + Len(c) + 1
<1>4. most \in S
  <2>. HIDE DEF S
  <2>. QED
    BY <1>3
<1>5. PICK f : On(f) /\ Up(most, f)
  BY <1>4
<1>6. \A i \in A, j \in B, k \in C : f[<<i, j, k>>] = ThreeTurn(a, b, c, f, i, j, k)
  <2>1. \A i \in A, j \in B, k \in C : Left(i, j, k) < most
    OBVIOUS
  <2>. QED
    BY <1>5, <2>1
<1>7. f = [at \in ThreePlaces(a, b, c) |-> ThreeTurn(a, b, c, f, at[1], at[2], at[3])]
  <2>1. \A at \in ThreePlaces(a, b, c) :
          at[1] \in A /\ at[2] \in B /\ at[3] \in C /\ at = <<at[1], at[2], at[3]>>
    BY DEF ThreePlaces
  <2>2. \A at \in ThreePlaces(a, b, c) : f[at] = ThreeTurn(a, b, c, f, at[1], at[2], at[3])
    BY <1>6, <2>1
  <2>3. On(f)
    BY <1>5
  <2>. QED
    BY <2>2, <2>3
<1>. QED
  BY <1>7 DEF IsThree

\* One turn of merge_three_way.
LEMMA ThreeStep ==
  ASSUME NEW a, NEW b, NEW c, Len(a) \in Nat, Len(b) \in Nat, Len(c) \in Nat,
         NEW i \in 1..(Len(a) + 1), NEW j \in 1..(Len(b) + 1), NEW k \in 1..(Len(c) + 1)
  PROVE  MergesThreeWay(a, b, c)[<<i, j, k>>] = ThreeTurn(a, b, c, MergesThreeWay(a, b, c), i, j, k)
<1>. DEFINE f == MergesThreeWay(a, b, c)
<1>1. f = CHOOSE g : IsThree(a, b, c, g)
  BY ThreeChoice
<1>2. \E g : IsThree(a, b, c, g)
  BY ThreeExist
<1>3. IsThree(a, b, c, f)
  <2>. HIDE DEF f
  <2>. QED
    BY <1>1, <1>2
<1>. QED
  BY <1>3 DEF IsThree, ThreePlaces

\* Merging three sequences of elements of S gives one.
LEMMA ThreeTyped ==
  ASSUME NEW S, NEW a \in Seq(S), NEW b \in Seq(S), NEW c \in Seq(S)
  PROVE  MergeThreeWay(a, b, c) \in Seq(S)
<1>. DEFINE f == MergesThreeWay(a, b, c)
            A == 1..(Len(a) + 1)
            B == 1..(Len(b) + 1)
            C == 1..(Len(c) + 1)
            Left(i, j, k) == Len(a) + 1 - i + (Len(b) + 1 - j) + (Len(c) + 1 - k)
            K == {m \in Nat : \A i \in A, j \in B, k \in C :
                    Left(i, j, k) < m => f[<<i, j, k>>] \in Seq(S)}
<1>0. Len(a) \in Nat /\ Len(b) \in Nat /\ Len(c) \in Nat
  OBVIOUS
<1>1. \A i \in A, j \in B, k \in C : f[<<i, j, k>>] = ThreeTurn(a, b, c, f, i, j, k)
  BY <1>0, ThreeStep
<1>. HIDE DEF f
<1>2. 0 \in K
  BY <1>0
<1>3. ASSUME NEW m \in K PROVE m + 1 \in K
  <2>1. ASSUME NEW i \in A, NEW j \in B, NEW k \in C, Left(i, j, k) < m + 1
        PROVE  f[<<i, j, k>>] \in Seq(S)
    <3>0. /\ SubSeq(a, i, Len(a)) \in Seq(S) /\ SubSeq(b, j, Len(b)) \in Seq(S)
          /\ SubSeq(c, k, Len(c)) \in Seq(S)
      BY <1>0, PartOf
    <3>1. CASE i > Len(a)
      <4>1. ThreeTurn(a, b, c, f, i, j, k) = MergeEnds(SubSeq(b, j, Len(b)), SubSeq(c, k, Len(c)))
        BY <3>1 DEF ThreeTurn
      <4>. QED
        BY <1>1, <3>0, <4>1, EndsTyped
    <3>2. CASE i <= Len(a) /\ j > Len(b)
      <4>1. ThreeTurn(a, b, c, f, i, j, k) = MergeEnds(SubSeq(a, i, Len(a)), SubSeq(c, k, Len(c)))
        BY <1>0, <3>2 DEF ThreeTurn
      <4>. QED
        BY <1>1, <3>0, <4>1, EndsTyped
    <3>3. CASE i <= Len(a) /\ j <= Len(b) /\ k > Len(c)
      <4>1. ThreeTurn(a, b, c, f, i, j, k) = MergeEnds(SubSeq(a, i, Len(a)), SubSeq(b, j, Len(b)))
        BY <1>0, <3>3 DEF ThreeTurn
      <4>. QED
        BY <1>1, <3>0, <4>1, EndsTyped
    <3>4. CASE i <= Len(a) /\ j <= Len(b) /\ k <= Len(c)
      <4>1. /\ i + 1 \in A /\ Left(i + 1, j, k) < m
            /\ j + 1 \in B /\ Left(i, j + 1, k) < m
            /\ k + 1 \in C /\ Left(i, j, k + 1) < m
        <5>1. m \in Nat
          OBVIOUS
        <5>. QED
          BY <1>0, <2>1, <3>4, <5>1, ThreeNext
      <4>2. f[<<i + 1, j, k>>] \in Seq(S) /\ f[<<i, j + 1, k>>] \in Seq(S) /\ f[<<i, j, k + 1>>] \in Seq(S)
        BY <4>1
      <4>3. a[i] \in S /\ b[j] \in S /\ c[k] \in S
        BY <3>4
      <4>4. ThreeTurn(a, b, c, f, i, j, k)
              \in {<<a[i]>> \o f[<<i + 1, j, k>>], <<b[j]>> \o f[<<i, j + 1, k>>],
                   <<c[k]>> \o f[<<i, j, k + 1>>]}
        BY <1>0, <3>4 DEF ThreeTurn
      <4>5. /\ <<a[i]>> \o f[<<i + 1, j, k>>] \in Seq(S)
            /\ <<b[j]>> \o f[<<i, j + 1, k>>] \in Seq(S)
            /\ <<c[k]>> \o f[<<i, j, k + 1>>] \in Seq(S)
        BY <4>2, <4>3
      <4>. QED
        BY <1>1, <4>4, <4>5
    <3>. QED
      BY <1>0, <3>1, <3>2, <3>3, <3>4
  <2>2. m + 1 \in Nat
    OBVIOUS
  <2>. QED
    BY <2>1, <2>2
<1>4. K = Nat
  <2>1. K \in SUBSET Nat
    OBVIOUS
  <2>. HIDE DEF K
  <2>. QED
    BY <1>2, <1>3, <2>1, NatAll
<1>5. Len(a) + Len(b) + Len(c) + 1 \in K
  <2>. HIDE DEF K
  <2>. QED
    BY <1>0, <1>4
<1>6. 1 \in A /\ 1 \in B /\ 1 \in C /\ Left(1, 1, 1) < Len(a) + Len(b) + Len(c) + 1
  BY <1>0
<1>. QED
  BY <1>5, <1>6 DEF MergeThreeWay, f

---------------------------------------------------------------------------------
(* How often an event is in a list. *)

\* Sets that a one-to-one function takes to each other have one size.
LEMMA SameSize ==
  ASSUME NEW A, NEW B, IsFiniteSet(A), NEW g \in [A -> B],
         \A b \in B : \E a \in A : g[a] = b, \A x, y \in A : g[x] = g[y] => x = y
  PROVE  IsFiniteSet(B) /\ Cardinality(B) = Cardinality(A)
<1>1. g \in Surjection(A, B)
  BY DEF Surjection
<1>2. g \in Injection(A, B)
  BY DEF Injection, IsInjective
<1>. QED
  BY <1>1, <1>2, FS_Surjection

\* Where a list has an event.
Places(s, e) == {i \in 1..Len(s) : s[i] = e}

\* An event is in a list a number of times, and not at all if that is 0.
LEMMA OccNat ==
  ASSUME NEW s, Len(s) \in Nat, NEW e
  PROVE  /\ IsFiniteSet(Places(s, e)) /\ Occurrences(s, e) = Cardinality(Places(s, e))
         /\ Occurrences(s, e) \in Nat
         /\ Occurrences(s, e) = 0 <=> \A i \in 1..Len(s) : s[i] # e
<1>1. IsFiniteSet(1..Len(s))
  BY FS_Interval
<1>2. Places(s, e) \subseteq 1..Len(s)
  BY DEF Places
<1>3. IsFiniteSet(Places(s, e))
  BY <1>1, <1>2, FS_Subset
<1>4. Occurrences(s, e) = Cardinality(Places(s, e))
  BY DEF Occurrences, Places
<1>5. Cardinality(Places(s, e)) \in Nat
  BY <1>3, FS_CardinalityType
<1>6. Cardinality(Places(s, e)) = 0 <=> Places(s, e) = {}
  BY <1>3, FS_EmptySet
<1>7. Places(s, e) = {} <=> \A i \in 1..Len(s) : s[i] # e
  BY DEF Places
<1>. QED
  BY <1>3, <1>4, <1>5, <1>6, <1>7

\* Two lists one behind the other have an event as often as both together.
LEMMA OccBoth ==
  ASSUME NEW S, NEW s \in Seq(S), NEW t \in Seq(S), NEW e
  PROVE  Occurrences(s \o t, e) = Occurrences(s, e) + Occurrences(t, e)
<1>1. PICK m \in Nat, n \in Nat : m = Len(s) /\ n = Len(t)
  OBVIOUS
<1>2. /\ Len(s \o t) = m + n
      /\ \A i \in 1..m : (s \o t)[i] = s[i]
      /\ \A i \in 1..n : (s \o t)[m + i] = t[i]
  BY <1>1
<1>. DEFINE A == Places(s, e)
            B == Places(t, e)
            C == {m + i : i \in B}
<1>3. IsFiniteSet(A) /\ IsFiniteSet(B)
  BY <1>1, OccNat
<1>4. IsFiniteSet(C) /\ Cardinality(C) = Cardinality(B)
  <2>. DEFINE g == [i \in B |-> m + i]
  <2>1. g \in [B -> C] /\ \A b \in C : \E a \in B : g[a] = b
    OBVIOUS
  <2>2. \A x, y \in B : x \in Nat /\ y \in Nat
    BY <1>1 DEF Places
  <2>3. \A x, y \in B : g[x] = g[y] => x = y
    <3>1. \A x, y \in Nat : m + x = m + y => x = y
      OBVIOUS
    <3>. HIDE DEF B
    <3>. QED
      BY <2>2, <3>1
  <2>. HIDE DEF g, B, C
  <2>. QED
    BY <1>3, <2>1, <2>3, SameSize
<1>5. Places(s \o t, e) = A \cup C
  <2>1. \A i \in Places(s \o t, e) : i \in A \/ i \in C
    <3>1. SUFFICES ASSUME NEW i \in 1..(m + n), (s \o t)[i] = e PROVE i \in A \/ i \in C
      BY <1>2 DEF Places
    <3>2. CASE i <= m
      BY <1>1, <1>2, <3>1, <3>2 DEF Places
    <3>3. CASE i > m
      <4>1. i - m \in 1..n /\ i = m + (i - m)
        BY <3>3
      <4>2. t[i - m] = e
        BY <1>2, <3>1, <4>1
      <4>. QED
        BY <1>1, <4>1, <4>2 DEF Places
    <3>. QED
      BY <3>2, <3>3
  <2>2. A \subseteq Places(s \o t, e)
    <3>1. \A i \in 1..m : i \in 1..(m + n)
      OBVIOUS
    <3>. QED
      BY <1>1, <1>2, <3>1 DEF Places
  <2>3. C \subseteq Places(s \o t, e)
    <3>1. \A i \in 1..n : m + i \in 1..(m + n)
      OBVIOUS
    <3>. QED
      BY <1>1, <1>2, <3>1 DEF Places
  <2>. QED
    BY <2>1, <2>2, <2>3
<1>6. A \cap C = {}
  <2>1. \A i \in 1..m, k \in 1..n : i # m + k
    OBVIOUS
  <2>. QED
    BY <1>1, <2>1 DEF Places
<1>7. Cardinality(A \cup C) = Cardinality(A) + Cardinality(B)
  <2>1. Cardinality(A \cup C) = Cardinality(A) + Cardinality(C) - Cardinality(A \cap C)
    BY <1>3, <1>4, FS_Union
  <2>2. Cardinality(A \cap C) = 0
    BY <1>6, FS_EmptySet
  <2>3. Cardinality(A) \in Nat /\ Cardinality(B) \in Nat
    BY <1>3, FS_CardinalityType
  <2>. QED
    BY <1>4, <2>1, <2>2, <2>3
<1>8. Len(s \o t) \in Nat
  BY <1>2
<1>. QED
  BY <1>1, <1>5, <1>7, <1>8, OccNat

\* A list without elements, and one of one.
LEMMA OccFew ==
  /\ \A e : Occurrences(<<>>, e) = 0
  /\ \A x, e : Occurrences(<<x>>, e) = IF x = e THEN 1 ELSE 0
<1>1. ASSUME NEW e PROVE Occurrences(<<>>, e) = 0
  <2>1. Len(<<>>) \in Nat /\ \A i \in 1..Len(<<>>) : <<>>[i] # e
    OBVIOUS
  <2>. QED
    BY <2>1, OccNat
<1>2. ASSUME NEW x, NEW e PROVE Occurrences(<<x>>, e) = IF x = e THEN 1 ELSE 0
  <2>1. Len(<<x>>) = 1 /\ <<x>>[1] = x /\ 1..1 = {1}
    OBVIOUS
  <2>2. CASE x = e
    <3>1. Places(<<x>>, e) = {1}
      BY <2>1, <2>2 DEF Places
    <3>. QED
      BY <2>1, <2>2, <3>1, OccNat, FS_Singleton
  <2>3. CASE x # e
    BY <2>1, <2>3, OccNat
  <2>. QED
    BY <2>2, <2>3
<1>. QED
  BY <1>1, <1>2

\* A list backwards has the same events.
LEMMA OccBackwards ==
  ASSUME NEW S, NEW s \in Seq(S), NEW e
  PROVE  Occurrences(Reverse(s), e) = Occurrences(s, e)
<1>1. PICK n \in Nat : n = Len(s)
  OBVIOUS
<1>2. Len(Reverse(s)) = n /\ \A i \in 1..n : Reverse(s)[i] = s[(n - i) + 1]
  BY <1>1 DEF Reverse
<1>. DEFINE A == Places(s, e)
            B == Places(Reverse(s), e)
            g == [i \in A |-> (n - i) + 1]
<1>3. \A i \in 1..n : (n - i) + 1 \in 1..n /\ (n - ((n - i) + 1)) + 1 = i
  OBVIOUS
<1>4. A \subseteq 1..n /\ B \subseteq 1..n
  BY <1>1, <1>2 DEF Places
<1>5. \A i \in A : (n - i) + 1 \in B
  BY <1>1, <1>2, <1>3 DEF Places
<1>6. \A i \in B : (n - i) + 1 \in A
  BY <1>1, <1>2, <1>3 DEF Places
<1>7. IsFiniteSet(A)
  BY <1>1, OccNat
<1>. HIDE DEF A, B
<1>8. g \in [A -> B]
  BY <1>5
<1>9. \A b \in B : \E a \in A : g[a] = b
  BY <1>3, <1>4, <1>6
<1>10. \A x, y \in A : g[x] = g[y] => x = y
  <2>1. \A x, y \in 1..n : (n - x) + 1 = (n - y) + 1 => x = y
    OBVIOUS
  <2>. QED
    BY <1>4, <2>1
<1>. HIDE DEF g
<1>11. Cardinality(B) = Cardinality(A)
  BY <1>7, <1>8, <1>9, <1>10, SameSize
<1>. QED
  BY <1>1, <1>2, <1>11, OccNat DEF A, B

\* The elements at the positions kept.
LEMMA OccElements ==
  ASSUME NEW S, NEW s \in Seq(S), NEW kept \in SUBSET (1..Len(s)), NEW e
  PROVE  Occurrences(ElementsAt(s, kept), e) = Cardinality({i \in kept : s[i] = e})
<1>. DEFINE E == ElementsAt(s, kept)
            A == {i \in kept : s[i] = e}
            B == Places(E, e)
            g == [i \in A |-> Rank(kept, i) + 1]
<1>1. PICK n \in Nat : n = Len(s)
  OBVIOUS
<1>2. /\ IsFiniteSet(kept) /\ Cardinality(kept) \in Nat
      /\ \A i \in Nat : Rank(kept, i) \in Nat
      /\ \A i \in kept : Rank(kept, i) + 1 \in 1..Cardinality(kept)
  <2>1. /\ IsFiniteSet(kept) /\ Cardinality(kept) \in Nat
        /\ \A i \in Nat : Rank(kept, i) \in Nat
        /\ Rank(kept, n + 1) = Cardinality(kept)
    BY <1>1, RankSteps
  <2>2. ASSUME NEW i \in kept PROVE Rank(kept, i) + 1 \in 1..Cardinality(kept)
    <3>1. i \in Nat /\ n + 1 \in Nat /\ i <= n + 1 /\ i < n + 1
      BY <1>1
    <3>2. Rank(kept, i) < Rank(kept, n + 1)
      BY <1>1, <3>1, RankUp
    <3>3. Rank(kept, i) \in Nat
      BY <2>1, <3>1
    <3>4. PICK r \in Nat, c \in Nat : r = Rank(kept, i) /\ c = Cardinality(kept)
      BY <2>1, <3>3
    <3>5. r < c
      BY <2>1, <3>2, <3>4
    <3>6. r + 1 \in 1..c
      BY <3>5
    <3>. QED
      BY <3>4, <3>6
  <2>. QED
    BY <2>1, <2>2
<1>3. /\ Len(E) = Cardinality(kept)
      /\ \A k \in 1..Cardinality(kept) : \E i \in kept : Rank(kept, i) = k - 1 /\ E[k] = s[i]
  BY Elements
<1>4. \A i, j \in kept : Rank(kept, i) = Rank(kept, j) => i = j
  <2>1. SUFFICES ASSUME NEW i \in kept, NEW j \in kept, i < j PROVE Rank(kept, i) # Rank(kept, j)
    <3>1. \A i, j \in kept : i < j \/ j < i \/ i = j
      BY <1>1
    <3>. QED
      BY <2>1, <3>1
  <2>2. i \in Nat /\ j \in Nat /\ i <= j
    BY <1>1, <2>1
  <2>3. Rank(kept, i) < Rank(kept, j)
    BY <1>1, <2>1, <2>2, RankUp
  <2>4. Rank(kept, i) \in Nat /\ Rank(kept, j) \in Nat
    BY <1>2, <2>2
  <2>. QED
    BY <2>3, <2>4
<1>5. \A i \in kept : E[Rank(kept, i) + 1] = s[i]
  <2>1. SUFFICES ASSUME NEW i \in kept PROVE E[Rank(kept, i) + 1] = s[i]
    OBVIOUS
  <2>2. PICK k \in Nat : k = Rank(kept, i) /\ k + 1 \in 1..Cardinality(kept)
    <3>1. i \in Nat
      BY <1>1
    <3>. QED
      BY <1>2, <3>1
  <2>3. PICK j \in kept : Rank(kept, j) = (k + 1) - 1 /\ E[k + 1] = s[j]
    BY <1>3, <2>2
  <2>4. Rank(kept, j) = Rank(kept, i)
    BY <2>2, <2>3
  <2>. QED
    BY <1>4, <2>2, <2>3, <2>4
<1>. HIDE DEF E
<1>6. IsFiniteSet(A)
  <2>1. A \subseteq kept
    OBVIOUS
  <2>. QED
    BY <1>2, <2>1, FS_Subset
<1>7. g \in [A -> B]
  BY <1>2, <1>3, <1>5 DEF Places
<1>8. \A x, y \in A : g[x] = g[y] => x = y
  <2>1. \A x \in A : x \in kept /\ x \in Nat
    BY <1>1
  <2>2. ASSUME NEW x \in A, NEW y \in A, g[x] = g[y] PROVE x = y
    <3>1. Rank(kept, x) + 1 = Rank(kept, y) + 1
      BY <2>2
    <3>2. Rank(kept, x) \in Nat /\ Rank(kept, y) \in Nat
      BY <1>2, <2>1
    <3>3. Rank(kept, x) = Rank(kept, y)
      BY <3>1, <3>2
    <3>. QED
      BY <1>4, <2>1, <3>3
  <2>. QED
    BY <2>2
<1>9. \A b \in B : \E a \in A : g[a] = b
  <2>1. SUFFICES ASSUME NEW b \in 1..Cardinality(kept), E[b] = e PROVE \E a \in A : g[a] = b
    BY <1>3 DEF Places
  <2>2. PICK i \in kept : Rank(kept, i) = b - 1 /\ E[b] = s[i]
    BY <1>3
  <2>3. i \in A
    BY <2>1, <2>2
  <2>4. Rank(kept, i) + 1 = b
    BY <1>2, <2>2
  <2>. QED
    BY <2>3, <2>4
<1>. HIDE DEF g, A
<1>10. Cardinality(B) = Cardinality(A)
  <2>. HIDE DEF B
  <2>. QED
    BY <1>6, <1>7, <1>8, <1>9, SameSize
<1>11. Len(E) \in Nat
  BY <1>2, <1>3
<1>12. Occurrences(E, e) = Cardinality(B)
  BY <1>11, OccNat
<1>. QED
  BY <1>10, <1>12 DEF A, E

\* A list of events has the ones in a set as often as another list, and no others.
Holds(s, all, C) ==
  /\ s \in Seq(Event)
  /\ \A e \in Event : Occurrences(s, e) = IF e \in C THEN Occurrences(all, e) ELSE 0

\* What such a list has is in the set, and in the other list.
LEMMA HoldsMember ==
  ASSUME NEW s, NEW all, NEW C, Holds(s, all, C), NEW i \in 1..Len(s)
  PROVE  s[i] \in C /\ s[i] \in Event /\ Occurrences(all, s[i]) # 0
<1>1. s \in Seq(Event) /\ Len(s) \in Nat /\ s[i] \in Event
  BY DEF Holds
<1>2. Occurrences(s, s[i]) # 0
  BY <1>1, OccNat
<1>. QED
  BY <1>1, <1>2 DEF Holds

\* A list in two parts.
LEMMA TwoParts ==
  ASSUME NEW S, NEW s \in Seq(S), NEW k \in 0..Len(s)
  PROVE  /\ SubSeq(s, 1, k) \in Seq(S) /\ SubSeq(s, k + 1, Len(s)) \in Seq(S)
         /\ Len(SubSeq(s, 1, k)) = k /\ Len(SubSeq(s, k + 1, Len(s))) = Len(s) - k
         /\ \A i \in 1..k : SubSeq(s, 1, k)[i] = s[i]
         /\ \A i \in 1..(Len(s) - k) : SubSeq(s, k + 1, Len(s))[i] = s[k + i]
         /\ s = SubSeq(s, 1, k) \o SubSeq(s, k + 1, Len(s))
<1>1. PICK n \in Nat : n = Len(s) /\ k \in 0..n
  OBVIOUS
<1>. DEFINE a == SubSeq(s, 1, k)
            b == SubSeq(s, k + 1, n)
<1>2. a \in Seq(S) /\ Len(a) = k /\ \A i \in 1..k : a[i] = s[i]
  BY <1>1
<1>3. b \in Seq(S) /\ Len(b) = n - k
  BY <1>1
<1>4. \A i \in 1..(n - k) : b[i] = s[k + i]
  BY <1>1
<1>. HIDE DEF a, b
<1>5. s = a \o b
  <2>1. a \o b \in Seq(S) /\ Len(a \o b) = n
    BY <1>1, <1>2, <1>3
  <2>2. ASSUME NEW i \in 1..n PROVE (a \o b)[i] = s[i]
    <3>1. CASE i <= k
      BY <1>1, <1>2, <1>3, <3>1
    <3>2. CASE i > k
      <4>1. (a \o b)[i] = b[i - k]
        BY <1>1, <1>2, <1>3, <3>2
      <4>2. i - k \in 1..(n - k) /\ k + (i - k) = i
        BY <1>1, <3>2
      <4>. QED
        BY <1>4, <4>1, <4>2
    <3>3. i <= k \/ i > k
      <4>1. i \in Int /\ k \in Int
        BY <1>1
      <4>. QED
        BY <4>1
    <3>. QED
      BY <3>1, <3>2, <3>3
  <2>3. /\ s = [i \in 1..n |-> s[i]]
        /\ a \o b = [i \in 1..n |-> (a \o b)[i]]
    <3>1. \A t \in Seq(S) : t = [i \in 1..Len(t) |-> t[i]]
      OBVIOUS
    <3>2. a \o b = [i \in 1..Len(a \o b) |-> (a \o b)[i]]
      BY <2>1, <3>1
    <3>. QED
      BY <1>1, <2>1, <3>1, <3>2
  <2>. QED
    BY <2>2, <2>3
<1>. QED
  BY <1>1, <1>2, <1>3, <1>4, <1>5 DEF a, b

\* A list cut in two where a property of its events ends.
LEMMA HoldsParted ==
  ASSUME NEW s, NEW all, NEW C, Holds(s, all, C), NEW k \in 0..Len(s), NEW D,
         \A i \in 1..Len(s) : s[i] \in D <=> i <= k
  PROVE  Holds(SubSeq(s, 1, k), all, C \cap D) /\ Holds(SubSeq(s, k + 1, Len(s)), all, C \ D)
<1>. DEFINE a == SubSeq(s, 1, k)
            b == SubSeq(s, k + 1, Len(s))
<1>1. s \in Seq(Event) /\ Len(s) \in Nat /\ k \in Nat /\ k <= Len(s)
  BY DEF Holds
<1>2. /\ a \in Seq(Event) /\ b \in Seq(Event) /\ Len(a) = k /\ Len(b) = Len(s) - k
      /\ \A i \in 1..k : a[i] = s[i]
      /\ \A i \in 1..(Len(s) - k) : b[i] = s[k + i]
      /\ s = a \o b
  BY <1>1, TwoParts
<1>. HIDE DEF a, b
<1>3. \A i \in 1..Len(a) : a[i] \in D
  <2>1. \A i \in 1..k : i \in 1..Len(s) /\ i <= k
    BY <1>1
  <2>. QED
    BY <1>2, <2>1
<1>4. \A i \in 1..Len(b) : b[i] \notin D
  <2>1. \A i \in 1..(Len(s) - k) : k + i \in 1..Len(s) /\ ~(k + i <= k)
    BY <1>1
  <2>. QED
    BY <1>2, <2>1
<1>5. Len(a) \in Nat /\ Len(b) \in Nat
  BY <1>2
<1>6. ASSUME NEW e \in Event
      PROVE  /\ Occurrences(a, e) = IF e \in C \cap D THEN Occurrences(all, e) ELSE 0
             /\ Occurrences(b, e) = IF e \in C \ D THEN Occurrences(all, e) ELSE 0
  <2>1. Occurrences(s, e) = Occurrences(a, e) + Occurrences(b, e)
    BY <1>2, OccBoth
  <2>2. Occurrences(a, e) \in Nat /\ Occurrences(b, e) \in Nat
    BY <1>5, OccNat
  <2>3. e \in D => Occurrences(b, e) = 0
    BY <1>4, <1>5, OccNat
  <2>4. e \notin D => Occurrences(a, e) = 0
    BY <1>3, <1>5, OccNat
  <2>5. Occurrences(s, e) = IF e \in C THEN Occurrences(all, e) ELSE 0
    BY DEF Holds
  <2>6. PICK x \in Nat, y \in Nat : x = Occurrences(a, e) /\ y = Occurrences(b, e)
    BY <2>2
  <2>7. Occurrences(s, e) = x + y /\ (e \in D => y = 0) /\ (e \notin D => x = 0)
    BY <2>1, <2>3, <2>4, <2>6
  <2>8. (y = 0 => x + y = x) /\ (x = 0 => x + y = y)
    OBVIOUS
  <2>9. CASE e \in D
    BY <2>5, <2>6, <2>7, <2>8, <2>9
  <2>10. CASE e \notin D
    BY <2>5, <2>6, <2>7, <2>8, <2>10
  <2>. QED
    BY <2>9, <2>10
<1>. QED
  BY <1>2, <1>6 DEF Holds, a, b

\* The events of a list that are in a set.
LEMMA HoldsKept ==
  ASSUME NEW s, NEW all, NEW C, Holds(s, all, C), NEW D,
         NEW kept, kept = {i \in DOMAIN s : s[i] \in D}
  PROVE  Holds(ElementsAt(s, kept), all, C \cap D)
<1>1. s \in Seq(Event) /\ DOMAIN s = 1..Len(s) /\ Len(s) \in Nat
  BY DEF Holds
<1>2. kept \in SUBSET (1..Len(s))
  BY <1>1
<1>3. ElementsAt(s, kept) \in Seq(Event)
  BY <1>1, <1>2, Elements
<1>4. ASSUME NEW e \in Event
      PROVE  Occurrences(ElementsAt(s, kept), e) = IF e \in C \cap D THEN Occurrences(all, e) ELSE 0
  <2>1. Occurrences(ElementsAt(s, kept), e) = Cardinality({i \in kept : s[i] = e})
    BY <1>1, <1>2, OccElements
  <2>2. CASE e \in D
    <3>1. {i \in kept : s[i] = e} = Places(s, e)
      BY <1>1, <2>2 DEF Places
    <3>2. Occurrences(s, e) = Cardinality(Places(s, e))
      BY <1>1, OccNat
    <3>. QED
      BY <2>1, <2>2, <3>1, <3>2 DEF Holds
  <2>3. CASE e \notin D
    <3>1. {i \in kept : s[i] = e} = {}
      BY <2>3
    <3>. QED
      BY <2>1, <2>3, <3>1, FS_EmptySet
  <2>. QED
    BY <2>2, <2>3
<1>. QED
  BY <1>3, <1>4 DEF Holds

\* A list backwards.
LEMMA HoldsBackwards ==
  ASSUME NEW s, NEW all, NEW C, Holds(s, all, C)
  PROVE  Holds(Reverse(s), all, C)
BY Backwards, OccBackwards DEF Holds

\* Two lists of different events.
LEMMA HoldsBoth ==
  ASSUME NEW s, NEW t, NEW all, NEW C, NEW D, Holds(s, all, C), Holds(t, all, D), C \cap D = {},
         Len(all) \in Nat
  PROVE  Holds(s \o t, all, C \cup D)
<1>1. s \in Seq(Event) /\ t \in Seq(Event)
  BY DEF Holds
<1>2. s \o t \in Seq(Event)
  BY <1>1
<1>3. ASSUME NEW e \in Event
      PROVE  Occurrences(s \o t, e) = IF e \in C \cup D THEN Occurrences(all, e) ELSE 0
  <2>1. Occurrences(s \o t, e) = Occurrences(s, e) + Occurrences(t, e)
    BY <1>1, OccBoth
  <2>2. PICK n \in Nat : n = Occurrences(all, e)
    BY OccNat
  <2>3. Occurrences(s, e) = (IF e \in C THEN n ELSE 0) /\ Occurrences(t, e) = (IF e \in D THEN n ELSE 0)
    BY <2>2 DEF Holds
  <2>4. ~(e \in C /\ e \in D)
    OBVIOUS
  <2>. QED
    BY <2>1, <2>2, <2>3, <2>4
<1>. QED
  BY <1>2, <1>3 DEF Holds

\* Only the events of the other list matter.
LEMMA HoldsSame ==
  ASSUME NEW s, NEW all, NEW C, Holds(s, all, C), NEW more, NEW D,
         \A e \in Event : /\ e \in C /\ Occurrences(all, e) # 0 => e \in D
                          /\ e \in D /\ Occurrences(more, e) # 0 => e \in C
                          /\ e \in C => Occurrences(more, e) = Occurrences(all, e)
  PROVE  Holds(s, more, D)
<1>1. ASSUME NEW e \in Event
      PROVE  Occurrences(s, e) = IF e \in D THEN Occurrences(more, e) ELSE 0
  <2>1. Occurrences(s, e) = IF e \in C THEN Occurrences(all, e) ELSE 0
    BY DEF Holds
  <2>2. CASE e \in C
    BY <2>1, <2>2
  <2>3. CASE e \notin C
    BY <2>1, <2>3
  <2>. QED
    BY <2>2, <2>3
<1>. QED
  BY <1>1 DEF Holds

\* No events.
LEMMA HoldsNone ==
  ASSUME NEW all, NEW C, \A e \in Event : e \in C => Occurrences(all, e) = 0
  PROVE  Holds(<<>>, all, C)
<1>1. <<>> \in Seq(Event)
  OBVIOUS
<1>2. \A e \in Event : Occurrences(<<>>, e) = 0
  BY OccFew
<1>. QED
  BY <1>1, <1>2 DEF Holds

---------------------------------------------------------------------------------
(* Orders. *)

\* A part of a list in order is in order, ...
LEMMA OrderedPart ==
  ASSUME NEW s \in Seq(Event), NEW m \in 1..(Len(s) + 1), NEW n \in 0..Len(s)
  PROVE  /\ Ordered(s) => Ordered(SubSeq(s, m, n))
         /\ EndsDescend(s) => EndsDescend(SubSeq(s, m, n))
<1>. DEFINE t == SubSeq(s, m, n)
<1>1. PICK k \in Nat : DOMAIN t = 1..k /\ \A i \in 1..k : t[i] = s[m + i - 1] /\ m + i - 1 \in DOMAIN s
  <2>1. DOMAIN s = 1..Len(s) /\ Len(s) \in Nat
    OBVIOUS
  <2>2. CASE m <= n
    <3>1. Len(t) = n - m + 1 /\ t \in Seq(Event)
      BY <2>1, <2>2
    <3>2. DOMAIN t = 1..(n - m + 1) /\ n - m + 1 \in Nat
      BY <2>1, <2>2, <3>1
    <3>3. \A i \in 1..(n - m + 1) : t[i] = s[m + i - 1] /\ m + i - 1 \in 1..Len(s)
      BY <2>1, <2>2
    <3>. QED
      BY <2>1, <3>2, <3>3
  <2>3. CASE m > n
    <3>1. Len(t) = 0 /\ t \in Seq(Event)
      BY <2>1, <2>3
    <3>2. DOMAIN t = 1..0 /\ 0 \in Nat
      BY <3>1
    <3>. QED
      BY <3>2
  <2>4. m <= n \/ m > n
    <3>1. m \in Int /\ n \in Int
      BY <2>1
    <3>. QED
      BY <3>1
  <2>. QED
    BY <2>2, <2>3, <2>4
<1>. HIDE DEF t
<1>2. \A i, j \in 1..k : i < j => m + i - 1 < m + j - 1
  OBVIOUS
<1>. QED
  BY <1>1, <1>2 DEF Ordered, EndsDescend, t

\* ... and so are those of its elements that are kept.
LEMMA OrderedKept ==
  ASSUME NEW s \in Seq(Event), Ordered(s), NEW kept \in SUBSET (1..Len(s))
  PROVE  Ordered(ElementsAt(s, kept)) /\ (EndsDescend(s) => EndsDescend(ElementsAt(s, kept)))
<1>. DEFINE E == ElementsAt(s, kept)
<1>1. PICK n \in Nat : n = Len(s)
  OBVIOUS
<1>2. /\ E \in Seq(Event) /\ DOMAIN E = 1..Cardinality(kept)
      /\ \A k \in 1..Cardinality(kept) : \E i \in kept : Rank(kept, i) = k - 1 /\ E[k] = s[i]
  BY Elements
<1>. HIDE DEF E
<1>3. Cardinality(kept) \in Nat
  BY <1>1, RankSteps
<1>4. ASSUME NEW k \in DOMAIN E, NEW l \in DOMAIN E, k < l
      PROVE  \E i, j \in DOMAIN s : i < j /\ E[k] = s[i] /\ E[l] = s[j]
  <2>1. k \in 1..Cardinality(kept) /\ l \in 1..Cardinality(kept)
    BY <1>2
  <2>2. PICK i \in kept : Rank(kept, i) = k - 1 /\ E[k] = s[i]
    BY <1>2, <2>1
  <2>3. PICK j \in kept : Rank(kept, j) = l - 1 /\ E[l] = s[j]
    BY <1>2, <2>1
  <2>4. i \in Nat /\ j \in Nat /\ i \in DOMAIN s /\ j \in DOMAIN s
    BY <1>1
  <2>5. k - 1 < l - 1
    BY <1>3, <1>4, <2>1
  <2>6. ~(j <= i)
    <3>1. SUFFICES ASSUME j <= i PROVE FALSE
      OBVIOUS
    <3>2. Rank(kept, j) <= Rank(kept, i)
      BY <1>1, <2>4, <3>1, RankUp
    <3>. QED
      BY <1>3, <2>1, <2>2, <2>3, <2>5, <3>2
  <2>7. i < j
    BY <2>4, <2>6
  <2>. QED
    BY <2>2, <2>3, <2>4, <2>7
<1>. QED
  BY <1>4 DEF Ordered, EndsDescend, E

\* Backwards, a list of one start in order goes by descending ends, and the other way round.
LEMMA OneStartBackwards ==
  ASSUME NEW s \in Seq(Event), \A i, j \in 1..Len(s) : s[i].start = s[j].start
  PROVE  /\ Ordered(s) => EndsDescend(Reverse(s))
         /\ EndsDescend(s) => Ordered(Reverse(s))
<1>1. PICK n \in Nat : n = Len(s) /\ DOMAIN s = 1..n
  OBVIOUS
<1>2. DOMAIN Reverse(s) = 1..n /\ \A i \in 1..n : Reverse(s)[i] = s[(n - i) + 1]
  BY <1>1 DEF Reverse
<1>3. \A i \in 1..n : (n - i) + 1 \in 1..n
  OBVIOUS
<1>4. \A i, j \in 1..n : i < j => (n - j) + 1 < (n - i) + 1
  OBVIOUS
<1>5. \A i \in 1..n : s[i].start \in Int /\ s[i].end \in Int
  <2>1. \A i \in 1..n : s[i] \in Event
    BY <1>1
  <2>2. \A e \in Event : e.start \in Int /\ e.end \in Int
    BY EventAssumption DEF Timestamp
  <2>. QED
    BY <2>1, <2>2
<1>6. ASSUME Ordered(s), NEW i \in 1..n, NEW j \in 1..n, i < j
      PROVE  Reverse(s)[i].end >= Reverse(s)[j].end
  <2>1. PICK x \in 1..n, y \in 1..n : x = (n - j) + 1 /\ y = (n - i) + 1 /\ x < y
    BY <1>3, <1>4, <1>6
  <2>2. AtOrBefore(s[x], s[y])
    BY <1>1, <1>6, <2>1 DEF Ordered
  <2>3. s[x].start = s[y].start
    BY <1>1
  <2>4. s[x].end <= s[y].end
    BY <1>5, <2>2, <2>3 DEF AtOrBefore
  <2>. QED
    BY <1>2, <1>5, <2>1, <2>4
<1>7. ASSUME EndsDescend(s), NEW i \in 1..n, NEW j \in 1..n, i < j
      PROVE  AtOrBefore(Reverse(s)[i], Reverse(s)[j])
  <2>1. PICK x \in 1..n, y \in 1..n : x = (n - j) + 1 /\ y = (n - i) + 1 /\ x < y
    BY <1>3, <1>4, <1>7
  <2>2. s[x].end >= s[y].end
    BY <1>1, <1>7, <2>1 DEF EndsDescend
  <2>3. s[x].start = s[y].start
    BY <1>1
  <2>. QED
    BY <1>2, <1>5, <2>1, <2>2, <2>3 DEF AtOrBefore
<1>. QED
  BY <1>2, <1>6, <1>7 DEF Ordered, EndsDescend

\* A list in order behind one that starts earlier.
LEMMA OrderedBoth ==
  ASSUME NEW s \in Seq(Event), NEW t \in Seq(Event), Ordered(s), Ordered(t),
         \A i \in 1..Len(s), j \in 1..Len(t) : s[i].start < t[j].start
  PROVE  Ordered(s \o t)
<1>1. PICK m \in Nat, n \in Nat : m = Len(s) /\ n = Len(t) /\ DOMAIN s = 1..m /\ DOMAIN t = 1..n
  OBVIOUS
<1>2. /\ DOMAIN (s \o t) = 1..(m + n)
      /\ \A i \in 1..m : (s \o t)[i] = s[i]
      /\ \A i \in 1..n : (s \o t)[m + i] = t[i]
  BY <1>1
<1>3. SUFFICES ASSUME NEW i \in 1..(m + n), NEW j \in 1..(m + n), i < j
               PROVE  AtOrBefore((s \o t)[i], (s \o t)[j])
  BY <1>2 DEF Ordered
<1>4. CASE j <= m
  <2>1. i \in 1..m /\ j \in 1..m
    BY <1>3, <1>4
  <2>. QED
    BY <1>1, <1>2, <1>3, <2>1 DEF Ordered
<1>5. CASE i <= m /\ j > m
  <2>1. i \in 1..m
    BY <1>5
  <2>2. PICK y \in 1..n : j = m + y
    <3>1. j - m \in 1..n /\ j = m + (j - m)
      BY <1>5
    <3>. QED
      BY <3>1
  <2>3. s[i].start < t[y].start
    BY <1>1, <2>1
  <2>. QED
    BY <1>2, <2>1, <2>2, <2>3 DEF AtOrBefore
<1>6. CASE i > m
  <2>1. PICK x \in 1..n : i = m + x
    <3>1. i - m \in 1..n /\ i = m + (i - m)
      BY <1>6
    <3>. QED
      BY <3>1
  <2>2. PICK y \in 1..n : j = m + y
    <3>1. j - m \in 1..n /\ j = m + (j - m)
      BY <1>3, <1>6
    <3>. QED
      BY <3>1
  <2>3. x < y
    BY <1>3, <2>1, <2>2
  <2>. QED
    BY <1>1, <1>2, <2>1, <2>2, <2>3 DEF Ordered
<1>7. j <= m \/ (i <= m /\ j > m) \/ i > m
  <2>1. i \in Int /\ j \in Int /\ m \in Int
    OBVIOUS
  <2>. QED
    BY <2>1
<1>. QED
  BY <1>4, <1>5, <1>6, <1>7

---------------------------------------------------------------------------------
(* What the merges of max-lists keep: the order, and every event. *)

Rest(s, i) == SubSeq(s, i, Len(s))

\* The rest of a max-list: its first event, which ends last, and the rest behind it.
LEMMA RestFacts ==
  ASSUME NEW s \in Seq(Event), EndsDescend(s), NEW i \in 1..(Len(s) + 1)
  PROVE  /\ Rest(s, i) \in Seq(Event) /\ EndsDescend(Rest(s, i))
         /\ \A e \in Event : Occurrences(Rest(s, i), e) \in Nat
         /\ i > Len(s) => \A e \in Event : Occurrences(Rest(s, i), e) = 0
         /\ i <= Len(s) =>
              /\ s[i] \in Event
              /\ \A e \in Event :
                   /\ Occurrences(Rest(s, i), e) = Occurrences(Rest(s, i + 1), e) + IF e = s[i] THEN 1 ELSE 0
                   /\ Occurrences(Rest(s, i), e) # 0 => e.end <= s[i].end
<1>. DEFINE r == Rest(s, i)
<1>1. PICK n \in Nat : n = Len(s) /\ i \in 1..(n + 1) /\ DOMAIN s = 1..n
  OBVIOUS
<1>2. r \in Seq(Event) /\ EndsDescend(r)
  <2>1. n \in 0..n
    BY <1>1
  <2>. QED
    BY <1>1, <2>1, PartOf, OrderedPart DEF Rest
<1>3. PICK k \in Nat : /\ k = n + 1 - i /\ Len(r) = k
                       /\ \A x \in 1..k : r[x] = s[i + x - 1] /\ i + x - 1 \in 1..n
  <2>1. Len(r) = n + 1 - i /\ n + 1 - i \in Nat
    <3>1. CASE i <= n
      BY <1>1, <3>1 DEF Rest
    <3>2. CASE i = n + 1
      BY <1>1, <3>2 DEF Rest
    <3>. QED
      BY <1>1, <3>1, <3>2
  <2>2. \A x \in 1..(n + 1 - i) : r[x] = s[i + x - 1] /\ i + x - 1 \in 1..n
    <3>1. \A x \in 1..(n + 1 - i) : i + x - 1 \in 1..n /\ i <= n
      BY <1>1
    <3>2. CASE i <= n
      <4>1. \A x \in 1..(n + 1 - i) : r[x] = s[i + x - 1]
        BY <1>1, <3>2 DEF Rest
      <4>. QED
        BY <3>1, <4>1
    <3>. QED
      BY <1>1, <3>1, <3>2
  <2>. QED
    BY <2>1, <2>2
<1>4. \A e \in Event : Occurrences(r, e) \in Nat
  BY <1>3, OccNat
<1>5. ASSUME i > n, NEW e \in Event PROVE Occurrences(r, e) = 0
  <2>1. k = 0
    BY <1>1, <1>3, <1>5
  <2>2. \A x \in 1..0 : r[x] # e
    OBVIOUS
  <2>. QED
    BY <1>3, <2>1, <2>2, OccNat
<1>6. ASSUME i <= n
      PROVE  /\ s[i] \in Event
             /\ \A e \in Event :
                  /\ Occurrences(r, e) = Occurrences(Rest(s, i + 1), e) + IF e = s[i] THEN 1 ELSE 0
                  /\ Occurrences(r, e) # 0 => e.end <= s[i].end
  <2>. DEFINE t == Rest(s, i + 1)
  <2>1. i \in 1..n /\ i + 1 \in 1..(n + 1)
    BY <1>1, <1>6
  <2>2. s[i] \in Event
    BY <1>1, <2>1
  <2>3. t \in Seq(Event) /\ Len(t) = k - 1 /\ \A x \in 1..(k - 1) : t[x] = s[i + x]
    <3>1. t \in Seq(Event)
      <4>1. n \in 0..n
        BY <1>1
      <4>. QED
        BY <1>1, <2>1, <4>1, PartOf DEF Rest
    <3>2. CASE i < n
      <4>1. Len(t) = n - i /\ \A x \in 1..(n - i) : t[x] = s[(i + 1) + x - 1]
        BY <1>1, <2>1, <3>2 DEF Rest
      <4>2. n - i = k - 1 /\ \A x \in 1..(n - i) : (i + 1) + x - 1 = i + x
        BY <1>1, <1>3
      <4>. QED
        BY <3>1, <4>1, <4>2
    <3>3. CASE i = n
      <4>1. Len(t) = 0
        BY <1>1, <3>3 DEF Rest
      <4>2. k - 1 = 0 /\ \A x \in 1..0 : FALSE
        BY <1>1, <1>3, <3>3
      <4>. QED
        BY <3>1, <4>1, <4>2
    <3>. QED
      BY <1>1, <1>6, <3>2, <3>3
  <2>. HIDE DEF t, r
  <2>4. r = <<s[i]>> \o t
    <3>. DEFINE u == <<s[i]>> \o t
    <3>1. u \in Seq(Event) /\ Len(u) = 1 + (k - 1)
      BY <2>2, <2>3
    <3>2. \A x \in 1..(1 + (k - 1)) : u[x] = IF x = 1 THEN s[i] ELSE t[x - 1]
      BY <2>2, <2>3
    <3>. HIDE DEF u
    <3>3. 1 + (k - 1) = k
      OBVIOUS
    <3>4. ASSUME NEW x \in 1..k PROVE u[x] = r[x]
      <4>1. CASE x = 1
        <5>1. i + 1 - 1 = i
          BY <2>1
        <5>. QED
          BY <1>3, <3>2, <3>3, <4>1, <5>1
      <4>2. CASE x # 1
        <5>1. x - 1 \in 1..(k - 1) /\ i + (x - 1) = i + x - 1
          BY <2>1, <4>2
        <5>2. t[x - 1] = s[i + (x - 1)]
          BY <2>3, <5>1
        <5>3. u[x] = t[x - 1]
          BY <3>2, <3>3, <4>2
        <5>. QED
          BY <1>3, <5>1, <5>2, <5>3
      <4>. QED
        BY <4>1, <4>2
    <3>5. \A w \in Seq(Event) : w = [x \in 1..Len(w) |-> w[x]]
      OBVIOUS
    <3>6. u = [x \in 1..k |-> u[x]] /\ r = [x \in 1..k |-> r[x]]
      BY <1>2, <1>3, <3>1, <3>3, <3>5
    <3>. QED
      BY <3>4, <3>6 DEF u
  <2>5. ASSUME NEW e \in Event
        PROVE  Occurrences(r, e) = Occurrences(t, e) + IF e = s[i] THEN 1 ELSE 0
    <3>1. <<s[i]>> \in Seq(Event)
      BY <2>2
    <3>2. Occurrences(<<s[i]>> \o t, e) = Occurrences(<<s[i]>>, e) + Occurrences(t, e)
      BY <2>3, <3>1, OccBoth
    <3>3. Occurrences(<<s[i]>>, e) = IF s[i] = e THEN 1 ELSE 0
      BY OccFew
    <3>4. Occurrences(t, e) \in Nat
      BY <2>3, OccNat
    <3>. QED
      BY <2>4, <3>2, <3>3, <3>4
  <2>6. ASSUME NEW e \in Event, Occurrences(r, e) # 0 PROVE e.end <= s[i].end
    <3>1. PICK x \in 1..k : r[x] = e
      BY <1>3, <2>6, OccNat
    <3>2. PICK y \in 1..n : y = i + x - 1 /\ s[y] = e
      BY <1>3, <3>1
    <3>3. y = i \/ i < y
      BY <2>1, <3>1, <3>2
    <3>4. i < y => s[i].end >= s[y].end
      BY <1>1, <2>1 DEF EndsDescend
    <3>5. e.end \in Int /\ s[i].end \in Int
      <4>1. \A d \in Event : d.end \in Int
        BY EventAssumption DEF Timestamp
      <4>. QED
        BY <2>2, <4>1
    <3>. QED
      BY <3>2, <3>3, <3>4, <3>5
  <2>. QED
    BY <2>2, <2>5, <2>6 DEF t
<1>. QED
  BY <1>1, <1>2, <1>4, <1>5, <1>6 DEF r

\* A max-list of a bag of events.
MaxListOf(s, bag) ==
  /\ s \in Seq(Event) /\ EndsDescend(s)
  /\ \A e \in Event : Occurrences(s, e) = bag[e]

\* An event that ends no earlier than the others in front of a max-list.
LEMMA MaxListOn ==
  ASSUME NEW s, NEW bag \in [Event -> Nat], MaxListOf(s, bag), NEW x \in Event,
         \A e \in Event : bag[e] # 0 => e.end <= x.end,
         NEW more, more[x] = bag[x] + 1, \A e \in Event : e # x => more[e] = bag[e],
         NEW t, t = <<x>> \o s
  PROVE  MaxListOf(t, more)
<1>1. s \in Seq(Event) /\ EndsDescend(s) /\ \A e \in Event : Occurrences(s, e) = bag[e]
  BY DEF MaxListOf
<1>2. PICK n \in Nat : n = Len(s) /\ DOMAIN s = 1..n
  BY <1>1
<1>3. t \in Seq(Event) /\ <<x>> \in Seq(Event)
  BY <1>1
<1>4. DOMAIN t = 1..(n + 1) /\ t[1] = x /\ \A i \in 2..(n + 1) : t[i] = s[i - 1] /\ i - 1 \in 1..n
  BY <1>1, <1>2
<1>5. ASSUME NEW i \in 1..n PROVE x.end >= s[i].end
  <2>1. s[i] \in Event /\ Occurrences(s, s[i]) # 0
    BY <1>1, <1>2, OccNat
  <2>2. s[i].end <= x.end
    BY <1>1, <2>1
  <2>3. \A d \in Event : d.end \in Int
    BY EventAssumption DEF Timestamp
  <2>. QED
    BY <2>1, <2>2, <2>3
<1>6. EndsDescend(t)
  <2>1. SUFFICES ASSUME NEW i \in 1..(n + 1), NEW j \in 1..(n + 1), i < j PROVE t[i].end >= t[j].end
    BY <1>4 DEF EndsDescend
  <2>2. j \in 2..(n + 1) /\ (i = 1 \/ i \in 2..(n + 1))
    BY <2>1
  <2>3. PICK y \in 1..n : y = j - 1 /\ t[j] = s[y]
    BY <1>4, <2>2
  <2>4. CASE i = 1
    BY <1>4, <1>5, <2>3, <2>4
  <2>5. CASE i \in 2..(n + 1)
    <3>1. PICK z \in 1..n : z = i - 1 /\ t[i] = s[z]
      BY <1>4, <2>5
    <3>2. z < y
      BY <2>1, <2>3, <3>1
    <3>. QED
      BY <1>1, <1>2, <2>3, <3>1, <3>2 DEF EndsDescend
  <2>. QED
    BY <2>2, <2>4, <2>5
<1>7. ASSUME NEW e \in Event PROVE Occurrences(t, e) = more[e]
  <2>1. Occurrences(t, e) = Occurrences(<<x>>, e) + Occurrences(s, e)
    BY <1>1, <1>3, OccBoth
  <2>2. Occurrences(<<x>>, e) = IF x = e THEN 1 ELSE 0
    BY OccFew
  <2>3. Occurrences(s, e) = bag[e] /\ bag[e] \in Nat
    BY <1>1
  <2>. QED
    BY <2>1, <2>2, <2>3
<1>. QED
  BY <1>3, <1>6, <1>7 DEF MaxListOf

\* The events of the rests of two lists.
RestsOf(a, b, i, j) == [e \in Event |-> Occurrences(Rest(a, i), e) + Occurrences(Rest(b, j), e)]

\* They are the same in either order, ...
LEMMA RestsNat ==
  ASSUME NEW a \in Seq(Event), NEW b \in Seq(Event), EndsDescend(a), EndsDescend(b),
         NEW i \in 1..(Len(a) + 1), NEW j \in 1..(Len(b) + 1)
  PROVE  RestsOf(a, b, i, j) \in [Event -> Nat] /\ RestsOf(a, b, i, j) = RestsOf(b, a, j, i)
<1>1. \A e \in Event : Occurrences(Rest(a, i), e) \in Nat
  BY RestFacts
<1>2. \A e \in Event : Occurrences(Rest(b, j), e) \in Nat
  BY RestFacts
<1>3. ASSUME NEW e \in Event
      PROVE  /\ Occurrences(Rest(a, i), e) + Occurrences(Rest(b, j), e) \in Nat
             /\ Occurrences(Rest(a, i), e) + Occurrences(Rest(b, j), e)
                  = Occurrences(Rest(b, j), e) + Occurrences(Rest(a, i), e)
  <2>1. PICK x \in Nat, y \in Nat : x = Occurrences(Rest(a, i), e) /\ y = Occurrences(Rest(b, j), e)
    BY <1>1, <1>2
  <2>2. x + y \in Nat /\ x + y = y + x
    OBVIOUS
  <2>. QED
    BY <2>1, <2>2
<1>. QED
  BY <1>3 DEF RestsOf

\* ... and the first event of one list leads to the rest behind it.
LEMMA RestsFirst ==
  ASSUME NEW a \in Seq(Event), NEW b \in Seq(Event), EndsDescend(a), EndsDescend(b),
         NEW i \in 1..(Len(a) + 1), NEW j \in 1..(Len(b) + 1), i <= Len(a), j <= Len(b)
  PROVE  /\ a[i] \in Event
         /\ \A e \in Event :
              /\ RestsOf(a, b, i, j)[e] = RestsOf(a, b, i + 1, j)[e] + IF e = a[i] THEN 1 ELSE 0
              /\ RestsOf(a, b, i + 1, j)[e] # 0 => e.end <= a[i].end \/ e.end <= b[j].end
<1>1. /\ a[i] \in Event
      /\ \A e \in Event :
           /\ Occurrences(Rest(a, i), e) = Occurrences(Rest(a, i + 1), e) + IF e = a[i] THEN 1 ELSE 0
           /\ Occurrences(Rest(a, i), e) # 0 => e.end <= a[i].end
  BY RestFacts
<1>2. \A e \in Event : /\ Occurrences(Rest(b, j), e) # 0 => e.end <= b[j].end
                       /\ Occurrences(Rest(b, j), e) \in Nat
  BY RestFacts
<1>3. \A e \in Event : Occurrences(Rest(a, i + 1), e) \in Nat
  <2>1. i + 1 \in 1..(Len(a) + 1)
    OBVIOUS
  <2>. QED
    BY <2>1, RestFacts
<1>4. ASSUME NEW e \in Event
      PROVE  /\ RestsOf(a, b, i, j)[e] = RestsOf(a, b, i + 1, j)[e] + IF e = a[i] THEN 1 ELSE 0
             /\ RestsOf(a, b, i + 1, j)[e] # 0 => e.end <= a[i].end \/ e.end <= b[j].end
  <2>1. PICK x \in Nat, y \in Nat : x = Occurrences(Rest(a, i + 1), e) /\ y = Occurrences(Rest(b, j), e)
    BY <1>2, <1>3
  <2>2. RestsOf(a, b, i + 1, j)[e] = x + y
    BY <2>1 DEF RestsOf
  <2>3. PICK z \in {0, 1} : z = IF e = a[i] THEN 1 ELSE 0
    OBVIOUS
  <2>4. Occurrences(Rest(a, i), e) = x + z
    BY <1>1, <2>1, <2>3
  <2>5. RestsOf(a, b, i, j)[e] = (x + z) + y
    BY <2>1, <2>4 DEF RestsOf
  <2>6. (x + z) + y = (x + y) + z
    BY <2>1, <2>3
  <2>7. x + y # 0 => x + z # 0 \/ y # 0
    BY <2>1, <2>3
  <2>. QED
    BY <1>1, <1>2, <2>1, <2>2, <2>3, <2>4, <2>5, <2>6, <2>7
<1>. QED
  BY <1>1, <1>4

\* One turn of a merge: the event that ends last goes in front.
LEMMA MergeTurn ==
  ASSUME NEW a \in Seq(Event), NEW b \in Seq(Event), EndsDescend(a), EndsDescend(b),
         NEW i \in 1..(Len(a) + 1), NEW j \in 1..(Len(b) + 1), i <= Len(a), j <= Len(b),
         b[j].end <= a[i].end, NEW s, MaxListOf(s, RestsOf(a, b, i + 1, j))
  PROVE  MaxListOf(<<a[i]>> \o s, RestsOf(a, b, i, j))
<1>1. /\ a[i] \in Event
      /\ \A e \in Event :
           /\ RestsOf(a, b, i, j)[e] = RestsOf(a, b, i + 1, j)[e] + IF e = a[i] THEN 1 ELSE 0
           /\ RestsOf(a, b, i + 1, j)[e] # 0 => e.end <= a[i].end \/ e.end <= b[j].end
  BY RestsFirst
<1>2. i + 1 \in 1..(Len(a) + 1)
  OBVIOUS
<1>3. RestsOf(a, b, i + 1, j) \in [Event -> Nat]
  BY <1>2, RestsNat
<1>4. \A d \in Event : d.end \in Int
  BY EventAssumption DEF Timestamp
<1>5. b[j] \in Event
  OBVIOUS
<1>6. ASSUME NEW e \in Event, RestsOf(a, b, i + 1, j)[e] # 0 PROVE e.end <= a[i].end
  <2>1. e.end <= a[i].end \/ e.end <= b[j].end
    BY <1>1, <1>6
  <2>. QED
    BY <1>1, <1>4, <1>5, <2>1
<1>. DEFINE bag == RestsOf(a, b, i + 1, j)
            more == RestsOf(a, b, i, j)
<1>7. MaxListOf(s, bag) /\ bag \in [Event -> Nat]
  BY <1>3
<1>8. \A e \in Event : bag[e] # 0 => e.end <= a[i].end
  BY <1>6
<1>9. \A e \in Event : more[e] = bag[e] + IF e = a[i] THEN 1 ELSE 0
  BY <1>1
<1>10. PICK x \in Event : x = a[i]
  BY <1>1
<1>. HIDE DEF bag, more
<1>11. MaxListOf(<<x>> \o s, more)
  <2>1. \A e \in Event : bag[e] # 0 => e.end <= x.end
    BY <1>8, <1>10
  <2>2. \A e \in Event : e # x => more[e] = bag[e]
    BY <1>7, <1>9, <1>10
  <2>3. more[x] = bag[x] + 1
    BY <1>7, <1>9, <1>10
  <2>. QED
    <3>1. PICK t : t = <<x>> \o s
      OBVIOUS
    <3>. QED
      BY <1>7, <2>1, <2>2, <2>3, <3>1, MaxListOn
<1>. QED
  BY <1>10, <1>11 DEF more

\* std::merge makes one max-list of two.
LEMMA EndsMerged ==
  ASSUME NEW a \in Seq(Event), NEW b \in Seq(Event), EndsDescend(a), EndsDescend(b)
  PROVE  MaxListOf(MergeEnds(a, b), RestsOf(a, b, 1, 1))
<1>. DEFINE f == MergesEnds(a, b)
            A == 1..(Len(a) + 1)
            B == 1..(Len(b) + 1)
            Left(i, j) == Len(a) + 1 - i + (Len(b) + 1 - j)
            K == {k \in Nat : \A i \in A, j \in B :
                    Left(i, j) < k => MaxListOf(f[<<i, j>>], RestsOf(a, b, i, j))}
<1>0. Len(a) \in Nat /\ Len(b) \in Nat
  OBVIOUS
<1>1. \A i \in A, j \in B : f[<<i, j>>] = EndsTurn(a, b, f, i, j)
  BY <1>0, EndsStep
<1>. HIDE DEF f
<1>2. 0 \in K
  BY <1>0
<1>3. ASSUME NEW k \in K PROVE k + 1 \in K
  <2>1. ASSUME NEW i \in A, NEW j \in B, Left(i, j) < k + 1
        PROVE  MaxListOf(f[<<i, j>>], RestsOf(a, b, i, j))
    <3>0. /\ \A e \in Event : Occurrences(Rest(a, i), e) \in Nat /\ Occurrences(Rest(b, j), e) \in Nat
          /\ Rest(a, i) \in Seq(Event) /\ EndsDescend(Rest(a, i))
          /\ Rest(b, j) \in Seq(Event) /\ EndsDescend(Rest(b, j))
      BY RestFacts
    <3>1. CASE i > Len(a)
      <4>1. EndsTurn(a, b, f, i, j) = Rest(b, j)
        BY <3>1 DEF EndsTurn, Rest
      <4>2. \A e \in Event : Occurrences(Rest(a, i), e) = 0
        BY <3>1, RestFacts
      <4>3. \A e \in Event : Occurrences(Rest(b, j), e) = RestsOf(a, b, i, j)[e]
        BY <3>0, <4>2 DEF RestsOf
      <4>. QED
        BY <1>1, <3>0, <4>1, <4>3 DEF MaxListOf
    <3>2. CASE i <= Len(a) /\ j > Len(b)
      <4>1. EndsTurn(a, b, f, i, j) = Rest(a, i)
        BY <1>0, <3>2 DEF EndsTurn, Rest
      <4>2. \A e \in Event : Occurrences(Rest(b, j), e) = 0
        BY <3>2, RestFacts
      <4>3. \A e \in Event : Occurrences(Rest(a, i), e) = RestsOf(a, b, i, j)[e]
        BY <3>0, <4>2 DEF RestsOf
      <4>. QED
        BY <1>1, <3>0, <4>1, <4>3 DEF MaxListOf
    <3>3. CASE i <= Len(a) /\ j <= Len(b)
      <4>1. i \in A /\ j + 1 \in B /\ Left(i, j + 1) < k
        BY <1>0, <2>1, <3>3
      <4>2. i + 1 \in A /\ j \in B /\ Left(i + 1, j) < k
        BY <1>0, <2>1, <3>3
      <4>3. /\ MaxListOf(f[<<i, j + 1>>], RestsOf(a, b, i, j + 1))
            /\ MaxListOf(f[<<i + 1, j>>], RestsOf(a, b, i + 1, j))
        BY <4>1, <4>2
      <4>4. a[i].end \in Int /\ b[j].end \in Int
        <5>1. a[i] \in Event /\ b[j] \in Event
          BY <3>3
        <5>. QED
          BY <5>1, EventAssumption DEF Timestamp
      <4>5. ~(i > Len(a)) /\ ~(j > Len(b)) /\ f[<<i, j>>] = EndsTurn(a, b, f, i, j)
        BY <1>0, <1>1, <3>3
      <4>6. CASE b[j].end > a[i].end
        <5>1. f[<<i, j>>] = <<b[j]>> \o f[<<i, j + 1>>]
          BY <4>5, <4>6 DEF EndsTurn
        <5>2. MaxListOf(f[<<i, j + 1>>], RestsOf(b, a, j + 1, i))
          BY <4>1, <4>3, RestsNat
        <5>3. a[i].end <= b[j].end
          BY <4>4, <4>6
        <5>4. MaxListOf(<<b[j]>> \o f[<<i, j + 1>>], RestsOf(b, a, j, i))
          BY <3>3, <5>2, <5>3, MergeTurn
        <5>. QED
          BY <5>1, <5>4, RestsNat
      <4>7. CASE ~(b[j].end > a[i].end)
        <5>1. f[<<i, j>>] = <<a[i]>> \o f[<<i + 1, j>>]
          BY <4>5, <4>7 DEF EndsTurn
        <5>2. b[j].end <= a[i].end
          BY <4>4, <4>7
        <5>3. MaxListOf(<<a[i]>> \o f[<<i + 1, j>>], RestsOf(a, b, i, j))
          BY <3>3, <4>3, <5>2, MergeTurn
        <5>. QED
          BY <5>1, <5>3
      <4>. QED
        BY <4>6, <4>7
    <3>. QED
      BY <1>0, <3>1, <3>2, <3>3
  <2>2. k + 1 \in Nat
    OBVIOUS
  <2>. QED
    BY <2>1, <2>2
<1>4. K = Nat
  <2>1. K \in SUBSET Nat
    OBVIOUS
  <2>. HIDE DEF K
  <2>. QED
    BY <1>2, <1>3, <2>1, NatAll
<1>5. Len(a) + Len(b) + 1 \in K
  <2>. HIDE DEF K
  <2>. QED
    BY <1>0, <1>4
<1>6. 1 \in A /\ 1 \in B /\ Left(1, 1) < Len(a) + Len(b) + 1
  BY <1>0
<1>. QED
  BY <1>5, <1>6 DEF MergeEnds, f

\* The same of three lists.
ThreeOf(a, b, c, i, j, k) ==
  [e \in Event |-> Occurrences(Rest(a, i), e) + Occurrences(Rest(b, j), e) + Occurrences(Rest(c, k), e)]

\* It is the same in every order, ...
LEMMA ThreeNat ==
  ASSUME NEW a \in Seq(Event), NEW b \in Seq(Event), NEW c \in Seq(Event),
         EndsDescend(a), EndsDescend(b), EndsDescend(c),
         NEW i \in 1..(Len(a) + 1), NEW j \in 1..(Len(b) + 1), NEW k \in 1..(Len(c) + 1)
  PROVE  /\ ThreeOf(a, b, c, i, j, k) \in [Event -> Nat]
         /\ ThreeOf(b, a, c, j, i, k) = ThreeOf(a, b, c, i, j, k)
         /\ ThreeOf(c, a, b, k, i, j) = ThreeOf(a, b, c, i, j, k)
<1>1. \A e \in Event : Occurrences(Rest(a, i), e) \in Nat
  BY RestFacts
<1>2. \A e \in Event : Occurrences(Rest(b, j), e) \in Nat
  BY RestFacts
<1>3. \A e \in Event : Occurrences(Rest(c, k), e) \in Nat
  BY RestFacts
<1>4. ASSUME NEW e \in Event
      PROVE  /\ ThreeOf(a, b, c, i, j, k)[e] \in Nat
             /\ ThreeOf(b, a, c, j, i, k)[e] = ThreeOf(a, b, c, i, j, k)[e]
             /\ ThreeOf(c, a, b, k, i, j)[e] = ThreeOf(a, b, c, i, j, k)[e]
  <2>1. PICK x \in Nat, y \in Nat, z \in Nat :
          /\ x = Occurrences(Rest(a, i), e) /\ y = Occurrences(Rest(b, j), e)
          /\ z = Occurrences(Rest(c, k), e)
    BY <1>1, <1>2, <1>3
  <2>2. ThreeOf(a, b, c, i, j, k)[e] = x + y + z
    BY <2>1 DEF ThreeOf
  <2>3. ThreeOf(b, a, c, j, i, k)[e] = y + x + z
    BY <2>1 DEF ThreeOf
  <2>4. ThreeOf(c, a, b, k, i, j)[e] = z + x + y
    BY <2>1 DEF ThreeOf
  <2>. QED
    BY <2>2, <2>3, <2>4
<1>5. ThreeOf(a, b, c, i, j, k) = [e \in Event |-> ThreeOf(a, b, c, i, j, k)[e]]
  BY DEF ThreeOf
<1>6. ThreeOf(b, a, c, j, i, k) = [e \in Event |-> ThreeOf(b, a, c, j, i, k)[e]]
  BY DEF ThreeOf
<1>7. ThreeOf(c, a, b, k, i, j) = [e \in Event |-> ThreeOf(c, a, b, k, i, j)[e]]
  BY DEF ThreeOf
<1>. QED
  BY <1>4, <1>5, <1>6, <1>7

\* (the last list first)
LEMMA ThreeTurned ==
  ASSUME NEW a \in Seq(Event), NEW b \in Seq(Event), NEW c \in Seq(Event),
         EndsDescend(a), EndsDescend(b), EndsDescend(c),
         NEW i \in 1..(Len(a) + 1), NEW j \in 1..(Len(b) + 1), NEW k \in 1..(Len(c) + 1)
  PROVE  ThreeOf(c, a, b, k, i, j) = ThreeOf(a, b, c, i, j, k)
BY ThreeNat

\* ... and the event that ends last goes in front.
LEMMA ThreeTurnOn ==
  ASSUME NEW a \in Seq(Event), NEW b \in Seq(Event), NEW c \in Seq(Event),
         EndsDescend(a), EndsDescend(b), EndsDescend(c),
         NEW i \in 1..(Len(a) + 1), NEW j \in 1..(Len(b) + 1), NEW k \in 1..(Len(c) + 1),
         i <= Len(a), j <= Len(b), k <= Len(c),
         b[j].end <= a[i].end, c[k].end <= a[i].end,
         NEW s, MaxListOf(s, ThreeOf(a, b, c, i + 1, j, k)),
         NEW t, t = <<a[i]>> \o s
  PROVE  MaxListOf(t, ThreeOf(a, b, c, i, j, k))
<1>. DEFINE bag == ThreeOf(a, b, c, i + 1, j, k)
            more == ThreeOf(a, b, c, i, j, k)
<1>1. PICK x \in Event : x = a[i]
  OBVIOUS
<1>2. \A e \in Event :
        /\ Occurrences(Rest(a, i), e) = Occurrences(Rest(a, i + 1), e) + IF e = x THEN 1 ELSE 0
        /\ Occurrences(Rest(a, i), e) # 0 => e.end <= x.end
  BY <1>1, RestFacts
<1>3. \A e \in Event : /\ Occurrences(Rest(b, j), e) # 0 => e.end <= b[j].end
                       /\ Occurrences(Rest(b, j), e) \in Nat
  BY RestFacts
<1>4. \A e \in Event : /\ Occurrences(Rest(c, k), e) # 0 => e.end <= c[k].end
                       /\ Occurrences(Rest(c, k), e) \in Nat
  BY RestFacts
<1>5. i + 1 \in 1..(Len(a) + 1)
  OBVIOUS
<1>6. \A e \in Event : Occurrences(Rest(a, i + 1), e) \in Nat
  BY <1>5, RestFacts
<1>7. bag \in [Event -> Nat]
  BY <1>5, ThreeNat
<1>8. \A e \in Event : e.end \in Int
  BY EventAssumption DEF Timestamp
<1>9. b[j] \in Event /\ c[k] \in Event
  OBVIOUS
<1>10. ASSUME NEW e \in Event
       PROVE  /\ e # x => more[e] = bag[e]
              /\ e = x => more[e] = bag[e] + 1
              /\ bag[e] # 0 => e.end <= x.end
  <2>1. PICK p \in Nat, q \in Nat, r \in Nat :
          /\ p = Occurrences(Rest(a, i + 1), e) /\ q = Occurrences(Rest(b, j), e)
          /\ r = Occurrences(Rest(c, k), e)
    BY <1>3, <1>4, <1>6
  <2>2. bag[e] = p + q + r
    BY <2>1 DEF ThreeOf
  <2>3. PICK d \in {0, 1} : d = IF e = x THEN 1 ELSE 0
    OBVIOUS
  <2>4. Occurrences(Rest(a, i), e) = p + d
    BY <1>2, <2>1, <2>3
  <2>5. more[e] = (p + d) + q + r
    BY <2>1, <2>4 DEF ThreeOf
  <2>. HIDE DEF bag, more
  <2>6. e # x => more[e] = bag[e]
    BY <2>2, <2>3, <2>5
  <2>7. e = x => more[e] = bag[e] + 1
    BY <2>2, <2>3, <2>5
  <2>8. ASSUME bag[e] # 0 PROVE e.end <= x.end
    <3>1. p + d # 0 \/ q # 0 \/ r # 0
      BY <2>2, <2>3, <2>8
    <3>2. e.end <= x.end \/ e.end <= b[j].end \/ e.end <= c[k].end
      BY <1>2, <1>3, <1>4, <2>1, <2>4, <3>1
    <3>3. b[j].end <= x.end /\ c[k].end <= x.end
      BY <1>1
    <3>4. PICK ee \in Int, xx \in Int, bb \in Int, cc \in Int :
            ee = e.end /\ xx = x.end /\ bb = b[j].end /\ cc = c[k].end
      BY <1>8, <1>9
    <3>. QED
      BY <3>2, <3>3, <3>4
  <2>. QED
    BY <2>6, <2>7, <2>8
<1>. HIDE DEF bag, more
<1>11. MaxListOf(s, bag)
  BY DEF bag
<1>12. t = <<x>> \o s
  BY <1>1
<1>13. MaxListOf(t, more)
  BY <1>7, <1>10, <1>11, <1>12, MaxListOn
<1>. QED
  BY <1>13 DEF more

\* All of a list is the rest from its first event on.
LEMMA RestAll ==
  ASSUME NEW s \in Seq(Event)
  PROVE  Rest(s, 1) = s
BY DEF Rest

\* What is left when one of three lists is at its end.
LEMMA ThreeLast ==
  ASSUME NEW a \in Seq(Event), NEW b \in Seq(Event), NEW c \in Seq(Event),
         EndsDescend(a), EndsDescend(b), EndsDescend(c),
         NEW i \in 1..(Len(a) + 1), NEW j \in 1..(Len(b) + 1), NEW k \in 1..(Len(c) + 1),
         i > Len(a)
  PROVE  MaxListOf(MergeEnds(Rest(b, j), Rest(c, k)), ThreeOf(a, b, c, i, j, k))
<1>. DEFINE p == Rest(b, j)
            q == Rest(c, k)
<1>1. /\ p \in Seq(Event) /\ EndsDescend(p)
      /\ \A e \in Event : Occurrences(p, e) \in Nat
  BY RestFacts
<1>2. /\ q \in Seq(Event) /\ EndsDescend(q)
      /\ \A e \in Event : Occurrences(q, e) \in Nat
  BY RestFacts
<1>3. \A e \in Event : Occurrences(Rest(a, i), e) = 0
  BY RestFacts
<1>. HIDE DEF p, q
<1>4. MaxListOf(MergeEnds(p, q), RestsOf(p, q, 1, 1))
  BY <1>1, <1>2, EndsMerged
<1>5. ASSUME NEW e \in Event PROVE RestsOf(p, q, 1, 1)[e] = ThreeOf(a, b, c, i, j, k)[e]
  <2>1. PICK x \in Nat, y \in Nat : x = Occurrences(p, e) /\ y = Occurrences(q, e)
    BY <1>1, <1>2
  <2>2. RestsOf(p, q, 1, 1)[e] = x + y
    BY <1>1, <1>2, <2>1, RestAll DEF RestsOf
  <2>3. ThreeOf(a, b, c, i, j, k)[e] = 0 + x + y
    BY <1>3, <2>1 DEF ThreeOf, p, q
  <2>. QED
    BY <2>2, <2>3
<1>. QED
  BY <1>4, <1>5 DEF MaxListOf, p, q

\* The three comparisons find one that ends last.
LEMMA OneLast ==
  ASSUME NEW x \in Int, NEW y \in Int, NEW z \in Int
  PROVE  \/ y <= x /\ z <= x
         \/ x <= y /\ z <= y /\ y > x
         \/ x <= z /\ y <= z /\ ((z > y /\ y > x) \/ (z > x /\ ~(y > x)))
OBVIOUS

\* merge_three_way makes one max-list of three.
LEMMA ThreeMerged ==
  ASSUME NEW a \in Seq(Event), NEW b \in Seq(Event), NEW c \in Seq(Event),
         EndsDescend(a), EndsDescend(b), EndsDescend(c)
  PROVE  MaxListOf(MergeThreeWay(a, b, c), ThreeOf(a, b, c, 1, 1, 1))
<1>. DEFINE f == MergesThreeWay(a, b, c)
            A == 1..(Len(a) + 1)
            B == 1..(Len(b) + 1)
            C == 1..(Len(c) + 1)
            Left(i, j, k) == Len(a) + 1 - i + (Len(b) + 1 - j) + (Len(c) + 1 - k)
            Good(i, j, k) == MaxListOf(f[<<i, j, k>>], ThreeOf(a, b, c, i, j, k))
            K == {m \in Nat : \A i \in A, j \in B, k \in C : Left(i, j, k) < m => Good(i, j, k)}
<1>0. Len(a) \in Nat /\ Len(b) \in Nat /\ Len(c) \in Nat
  OBVIOUS
<1>1. \A i \in A, j \in B, k \in C : f[<<i, j, k>>] = ThreeTurn(a, b, c, f, i, j, k)
  BY <1>0, ThreeStep
<1>. HIDE DEF f
<1>2. 0 \in K
  BY <1>0
<1>3. ASSUME NEW m \in K PROVE m + 1 \in K
  <2>1. ASSUME NEW i \in A, NEW j \in B, NEW k \in C, Left(i, j, k) < m + 1 PROVE Good(i, j, k)
    <3>0. f[<<i, j, k>>] = ThreeTurn(a, b, c, f, i, j, k)
      BY <1>1
    <3>1. CASE i > Len(a)
      <4>1. f[<<i, j, k>>] = MergeEnds(Rest(b, j), Rest(c, k))
        BY <3>0, <3>1 DEF ThreeTurn, Rest
      <4>2. MaxListOf(MergeEnds(Rest(b, j), Rest(c, k)), ThreeOf(a, b, c, i, j, k))
        BY <3>1, ThreeLast
      <4>. QED
        BY <4>1, <4>2
    <3>2. CASE i <= Len(a) /\ j > Len(b)
      <4>0. ~(i > Len(a))
        BY <1>0, <3>2
      <4>1. f[<<i, j, k>>] = MergeEnds(Rest(a, i), Rest(c, k))
        BY <3>0, <3>2, <4>0 DEF ThreeTurn, Rest
      <4>2. MaxListOf(MergeEnds(Rest(a, i), Rest(c, k)), ThreeOf(b, a, c, j, i, k))
        BY <3>2, ThreeLast
      <4>. QED
        BY <4>1, <4>2, ThreeNat
    <3>3. CASE i <= Len(a) /\ j <= Len(b) /\ k > Len(c)
      <4>0. ~(i > Len(a)) /\ ~(j > Len(b))
        BY <1>0, <3>3
      <4>1. f[<<i, j, k>>] = MergeEnds(Rest(a, i), Rest(b, j))
        BY <3>0, <3>3, <4>0 DEF ThreeTurn, Rest
      <4>2. MaxListOf(MergeEnds(Rest(a, i), Rest(b, j)), ThreeOf(c, a, b, k, i, j))
        BY <3>3, ThreeLast
      <4>. QED
        BY <4>1, <4>2, ThreeNat
    <3>4. CASE i <= Len(a) /\ j <= Len(b) /\ k <= Len(c)
      <4>0. ~(i > Len(a)) /\ ~(j > Len(b)) /\ ~(k > Len(c))
        BY <1>0, <3>4
      <4>1. /\ i + 1 \in A /\ Left(i + 1, j, k) < m
            /\ j + 1 \in B /\ Left(i, j + 1, k) < m
            /\ k + 1 \in C /\ Left(i, j, k + 1) < m
        <5>1. m \in Nat
          OBVIOUS
        <5>. QED
          BY <1>0, <2>1, <3>4, <5>1, ThreeNext
      <4>2. Good(i + 1, j, k) /\ Good(i, j + 1, k) /\ Good(i, j, k + 1)
        BY <4>1
      <4>3. a[i].end \in Int /\ b[j].end \in Int /\ c[k].end \in Int
        <5>1. a[i] \in Event /\ b[j] \in Event /\ c[k] \in Event
          BY <3>4
        <5>2. \A e \in Event : e.end \in Int
          BY EventAssumption DEF Timestamp
        <5>. QED
          BY <5>1, <5>2
      <4>4. CASE b[j].end <= a[i].end /\ c[k].end <= a[i].end
        <5>1. f[<<i, j, k>>] = <<a[i]>> \o f[<<i + 1, j, k>>]
          <6>1. ~(b[j].end > a[i].end) /\ ~(c[k].end > a[i].end)
            BY <4>3, <4>4
          <6>. QED
            BY <3>0, <4>0, <6>1 DEF ThreeTurn
        <5>. QED
          BY <3>4, <4>2, <4>4, <5>1, ThreeTurnOn
      <4>5. CASE a[i].end <= b[j].end /\ c[k].end <= b[j].end /\ b[j].end > a[i].end
        <5>1. f[<<i, j, k>>] = <<b[j]>> \o f[<<i, j + 1, k>>]
          <6>1. b[j].end > a[i].end /\ ~(c[k].end > b[j].end)
            BY <4>3, <4>5
          <6>. QED
            BY <3>0, <4>0, <6>1 DEF ThreeTurn
        <5>2. MaxListOf(f[<<i, j + 1, k>>], ThreeOf(b, a, c, j + 1, i, k))
          <6>1. PICK jj \in B : jj = j + 1
            BY <4>1
          <6>2. ThreeOf(b, a, c, jj, i, k) = ThreeOf(a, b, c, i, jj, k)
            BY ThreeNat
          <6>. QED
            BY <4>2, <6>1, <6>2
        <5>3. MaxListOf(f[<<i, j, k>>], ThreeOf(b, a, c, j, i, k))
          <6>1. PICK s, t : s = f[<<i, j + 1, k>>] /\ t = f[<<i, j, k>>]
            OBVIOUS
          <6>2. t = <<b[j]>> \o s /\ MaxListOf(s, ThreeOf(b, a, c, j + 1, i, k))
            BY <5>1, <5>2, <6>1
          <6>3. MaxListOf(t, ThreeOf(b, a, c, j, i, k))
            BY <3>4, <4>5, <6>2, ThreeTurnOn
          <6>. QED
            BY <6>1, <6>3
        <5>. QED
          BY <5>3, ThreeNat
      <4>6. CASE /\ a[i].end <= c[k].end /\ b[j].end <= c[k].end
                 /\ \/ c[k].end > b[j].end /\ b[j].end > a[i].end
                    \/ c[k].end > a[i].end /\ ~(b[j].end > a[i].end)
        <5>1. f[<<i, j, k>>] = <<c[k]>> \o f[<<i, j, k + 1>>]
          BY <3>0, <4>0, <4>6 DEF ThreeTurn
        <5>2. MaxListOf(f[<<i, j, k + 1>>], ThreeOf(c, a, b, k + 1, i, j))
          <6>1. PICK kk \in C : kk = k + 1
            BY <4>1
          <6>2. ThreeOf(c, a, b, kk, i, j) = ThreeOf(a, b, c, i, j, kk)
            BY ThreeTurned
          <6>. QED
            BY <4>2, <6>1, <6>2
        <5>3. MaxListOf(f[<<i, j, k>>], ThreeOf(c, a, b, k, i, j))
          <6>1. PICK s, t : s = f[<<i, j, k + 1>>] /\ t = f[<<i, j, k>>]
            OBVIOUS
          <6>2. t = <<c[k]>> \o s /\ MaxListOf(s, ThreeOf(c, a, b, k + 1, i, j))
            BY <5>1, <5>2, <6>1
          <6>3. MaxListOf(t, ThreeOf(c, a, b, k, i, j))
            BY <3>4, <4>6, <6>2, ThreeTurnOn
          <6>. QED
            BY <6>1, <6>3
        <5>. QED
          BY <5>3, ThreeNat
      <4>7. PICK x \in Int, y \in Int, z \in Int : x = a[i].end /\ y = b[j].end /\ z = c[k].end
        BY <4>3
      <4>8. \/ y <= x /\ z <= x
            \/ x <= y /\ z <= y /\ y > x
            \/ x <= z /\ y <= z /\ ((z > y /\ y > x) \/ (z > x /\ ~(y > x)))
        BY OneLast
      <4>. QED
        BY <4>4, <4>5, <4>6, <4>7, <4>8
    <3>. QED
      BY <1>0, <3>1, <3>2, <3>3, <3>4
  <2>2. m + 1 \in Nat
    OBVIOUS
  <2>. QED
    BY <2>1, <2>2
<1>4. K = Nat
  <2>1. K \in SUBSET Nat
    OBVIOUS
  <2>. HIDE DEF K
  <2>. QED
    BY <1>2, <1>3, <2>1, NatAll
<1>5. Len(a) + Len(b) + Len(c) + 1 \in K
  <2>. HIDE DEF K
  <2>. QED
    BY <1>0, <1>4
<1>6. 1 \in A /\ 1 \in B /\ 1 \in C /\ Left(1, 1, 1) < Len(a) + Len(b) + Len(c) + 1
  BY <1>0
<1>. QED
  BY <1>5, <1>6 DEF MergeThreeWay, f

---------------------------------------------------------------------------------
(* Records. *)

Pointer == [list : {"none", "nodes", "index"}, at : Nat]
NodeRecord ==
  [nkey : Int, dkey : Int, left : Pointer, right : Pointer, height : Nat,
   dataBegin : Nat, dataEnd : Nat, nsa : Seq(Event), ded : Seq(Event), ned : Seq(Event)]
PointRecord ==
  [nkey : Int, dkey : Int, left : Pointer, right : Pointer, height : Nat,
   dataBegin : Nat, dataEnd : Nat, nsa : Seq(Event), ded : Seq(Event), ned : Seq(Event),
   replacement : Nat]
Typed(f) ==
  f \in [events : Seq(Event), nodes : Seq(NodeRecord), index : Seq(PointRecord),
         tail : Nat, minKey : Int]

\* Writing one element of a sequence.
LEMMA WriteOne ==
  ASSUME NEW S, NEW s \in Seq(S), NEW k \in 1..Len(s), NEW x \in S
  PROVE  /\ [s EXCEPT ![k] = x] \in Seq(S) /\ Len([s EXCEPT ![k] = x]) = Len(s)
         /\ [s EXCEPT ![k] = x][k] = x
         /\ \A j \in 1..Len(s) : j # k => [s EXCEPT ![k] = x][j] = s[j]
OBVIOUS

\* Adding an element to a sequence.
LEMMA AddOne ==
  ASSUME NEW S, NEW s \in Seq(S), NEW x \in S
  PROVE  /\ Append(s, x) \in Seq(S) /\ Len(Append(s, x)) = Len(s) + 1
         /\ Append(s, x)[Len(s) + 1] = x
         /\ \A j \in 1..Len(s) : Append(s, x)[j] = s[j]
OBVIOUS

\* Leaving the last two elements of a sequence.
LEMMA WithoutLastTwo ==
  ASSUME NEW S, NEW s \in Seq(S), Len(s) >= 2
  PROVE  /\ SubSeq(s, 1, Len(s) - 2) \in Seq(S) /\ Len(SubSeq(s, 1, Len(s) - 2)) = Len(s) - 2
         /\ \A j \in 1..(Len(s) - 2) : SubSeq(s, 1, Len(s) - 2)[j] = s[j]
<1>1. Len(s) - 2 \in Nat /\ Len(s) - 2 <= Len(s) /\ Len(s) \in Nat
  OBVIOUS
<1>. DEFINE n == Len(s) - 2
<1>2. \A j \in 1..n : s[j] \in S
  OBVIOUS
<1>3. SubSeq(s, 1, n) \in Seq(S) /\ Len(SubSeq(s, 1, n)) = n
      /\ \A j \in 1..n : SubSeq(s, 1, n)[j] = s[j]
  <2>1. n \in Nat /\ n <= Len(s)
    BY <1>1
  <2>. HIDE DEF n
  <2>. QED
    BY <2>1, <1>2
<1>. QED
  BY <1>1, <1>3

\* Pointers are pointers, and tell what they point to.
LEMMA PointerFacts ==
  /\ Null \in Pointer /\ \A i \in Nat : Tree(i) \in Pointer /\ Point(i) \in Pointer
  /\ \A i : Tree(i) # Null /\ Point(i) # Null
  /\ \A i, j : (Tree(i) = Tree(j) <=> i = j) /\ (Point(i) = Point(j) <=> i = j)
  /\ \A i, j : Tree(i) # Point(j)
BY DEF Null, Tree, Point, Pointer

\* The lists of both are lists of events.
LEMMA ListsTyped ==
  ASSUME NEW left \in PointRecord, NEW right \in PointRecord, NEW node \in NodeRecord, NEW key \in Int
  PROVE  /\ MergedRoot(node, left, right, key).nsa \in Seq(Event)
         /\ MergedRoot(node, left, right, key).ded \in Seq(Event)
         /\ MergedRoot(node, left, right, key).ned \in Seq(Event)
         /\ MergedMaxList(node, left, right, key).nsa \in Seq(Event)
         /\ MergedMaxList(node, left, right, key).ded \in Seq(Event)
         /\ MergedMaxList(node, left, right, key).ned \in Seq(Event)
<1>1. /\ left.nsa \in Seq(Event) /\ left.ded \in Seq(Event) /\ left.ned \in Seq(Event)
      /\ right.nsa \in Seq(Event) /\ right.ded \in Seq(Event) /\ right.ned \in Seq(Event)
  BY DEF PointRecord
<1>. DEFINE before == Selected(left.nsa, LAMBDA e : EndsBefore(key, e))
            after == Selected(left.nsa, LAMBDA e : ~EndsBefore(key, e))
            d == UpperBoundEnd(left.ded, key)
            n == UpperBoundEnd(left.ned, key)
<1>2. before \in Seq(Event) /\ after \in Seq(Event)
  <2>. DEFINE K == {i \in DOMAIN left.nsa : EndsBefore(key, left.nsa[i])}
              R == {i \in DOMAIN left.nsa : ~EndsBefore(key, left.nsa[i])}
  <2>1. K \in SUBSET (1..Len(left.nsa)) /\ R \in SUBSET (1..Len(left.nsa))
    BY <1>1
  <2>2. before = ElementsAt(left.nsa, K) /\ after = ElementsAt(left.nsa, R)
    BY DEF Selected
  <2>. HIDE DEF K, R
  <2>. QED
    BY <1>1, <2>1, <2>2, Elements
<1>3. d \in 1..(Len(left.ded) + 1) /\ n \in 1..(Len(left.ned) + 1)
  BY <1>1, CutAt
<1>. DEFINE lastD == SubSeq(left.ded, d, Len(left.ded))
            lastN == SubSeq(left.ned, n, Len(left.ned))
            firstD == SubSeq(left.ded, 1, d - 1)
            firstN == SubSeq(left.ned, 1, n - 1)
<1>. HIDE DEF d, n
<1>4. lastD \in Seq(Event) /\ lastN \in Seq(Event) /\ firstD \in Seq(Event) /\ firstN \in Seq(Event)
  <2>1. /\ Len(left.ded) \in 0..Len(left.ded) /\ Len(left.ned) \in 0..Len(left.ned)
        /\ d - 1 \in 0..Len(left.ded) /\ n - 1 \in 0..Len(left.ned)
        /\ 1 \in 1..(Len(left.ded) + 1) /\ 1 \in 1..(Len(left.ned) + 1)
    BY <1>1, <1>3
  <2>. QED
    BY <1>1, <1>3, <2>1, PartOf
<1>. DEFINE all == (after \o Reverse(firstD)) \o right.nsa
            most == MergeThreeWay(firstN, firstD, right.ned)
<1>. HIDE DEF before, after, lastD, lastN, firstD, firstN
<1>5. all \in Seq(Event) /\ most \in Seq(Event)
  <2>1. Reverse(firstD) \in Seq(Event)
    BY <1>4, Backwards
  <2>2. after \o Reverse(firstD) \in Seq(Event)
    BY <1>2, <2>1
  <2>3. all \in Seq(Event)
    <3>1. ASSUME NEW x \in Seq(Event), NEW y \in Seq(Event) PROVE x \o y \in Seq(Event)
      OBVIOUS
    <3>. QED
      BY <1>1, <2>2, <3>1
  <2>. QED
    BY <1>1, <1>4, <2>3, ThreeTyped
<1>. DEFINE Root(x, y, z) == [node EXCEPT !.left = left.left, !.right = right.left,
                                          !.height = left.height, !.nsa = x, !.ded = y, !.ned = z]
            Max3(x, y, z) == [node EXCEPT !.nsa = x, !.ded = y, !.ned = z]
<1>6. /\ MergedRoot(node, left, right, key) = Root(before, lastD, lastN)
      /\ MergedMaxList(node, left, right, key) = Max3(all, right.ded, most)
  BY DEF MergedRoot, MergedMaxList, before, after, lastD, lastN, firstD, firstN, d, n
<1>7. ASSUME NEW x, NEW y, NEW z
      PROVE  /\ Root(x, y, z).nsa = x /\ Root(x, y, z).ded = y /\ Root(x, y, z).ned = z
             /\ Max3(x, y, z).nsa = x /\ Max3(x, y, z).ded = y /\ Max3(x, y, z).ned = z
  BY DEF NodeRecord
<1>. HIDE DEF Root, Max3, all, most
<1>. QED
  BY <1>1, <1>2, <1>4, <1>5, <1>6, <1>7

\* The node that a merge writes (stab_forest.hpp:614-660).
LEMMA MergedRootFields ==
  ASSUME NEW left \in PointRecord, NEW right \in PointRecord, NEW node \in NodeRecord, NEW key \in Int
  PROVE  LET root == MergedRoot(node, left, right, key) IN
         /\ root \in NodeRecord
         /\ root.left = left.left /\ root.right = right.left /\ root.height = left.height
         /\ root.nkey = node.nkey /\ root.dkey = node.dkey
         /\ root.dataBegin = node.dataBegin /\ root.dataEnd = node.dataEnd
<1>. DEFINE a == Selected(left.nsa, LAMBDA e : EndsBefore(key, e))
            b == SubSeq(left.ded, UpperBoundEnd(left.ded, key), Len(left.ded))
            c == SubSeq(left.ned, UpperBoundEnd(left.ned, key), Len(left.ned))
            R(x, y, z) == [node EXCEPT !.left = left.left, !.right = right.left, !.height = left.height,
                                       !.nsa = x, !.ded = y, !.ned = z]
<1>1. MergedRoot(node, left, right, key) = R(a, b, c)
  BY DEF MergedRoot
<1>2. ASSUME NEW x, NEW y, NEW z
      PROVE  /\ R(x, y, z).nsa = x /\ R(x, y, z).ded = y /\ R(x, y, z).ned = z
             /\ R(x, y, z).left = left.left /\ R(x, y, z).right = right.left
             /\ R(x, y, z).height = left.height
             /\ R(x, y, z).nkey = node.nkey /\ R(x, y, z).dkey = node.dkey
             /\ R(x, y, z).dataBegin = node.dataBegin /\ R(x, y, z).dataEnd = node.dataEnd
             /\ x \in Seq(Event) /\ y \in Seq(Event) /\ z \in Seq(Event) => R(x, y, z) \in NodeRecord
  BY DEF NodeRecord, PointRecord
<1>. HIDE DEF a, b, c, R
<1>. QED
  BY <1>1, <1>2, ListsTyped

\* A forest-point has the fields of its node (stab_forest.hpp:373-407).
LEMMA AsPointFields ==
  ASSUME NEW p, NEW r \in Nat,
         p.nkey \in Int, p.dkey \in Int, p.left \in Pointer, p.right \in Pointer,
         p.height \in Nat, p.dataBegin \in Nat, p.dataEnd \in Nat,
         p.nsa \in Seq(Event), p.ded \in Seq(Event), p.ned \in Seq(Event)
  PROVE  /\ AsPoint(p, r) \in PointRecord
         /\ AsPoint(p, r).nkey = p.nkey /\ AsPoint(p, r).dkey = p.dkey
         /\ AsPoint(p, r).left = p.left /\ AsPoint(p, r).right = p.right
         /\ AsPoint(p, r).height = p.height /\ AsPoint(p, r).dataBegin = p.dataBegin
         /\ AsPoint(p, r).dataEnd = p.dataEnd /\ AsPoint(p, r).nsa = p.nsa
         /\ AsPoint(p, r).ded = p.ded /\ AsPoint(p, r).ned = p.ned
         /\ AsPoint(p, r).replacement = r
BY DEF AsPoint, PointRecord

\* The forest-point that a merge makes (stab_forest.hpp:643-684).
LEMMA MergedPointFields ==
  ASSUME NEW left \in PointRecord, NEW right \in PointRecord, NEW node \in NodeRecord, NEW key \in Int
  PROVE  LET point == MergedPoint(node, left, right, key) IN
         /\ point \in PointRecord
         /\ point.left = Tree(left.replacement) /\ point.right = Null
         /\ point.height = left.height + 1 /\ point.replacement = right.replacement
         /\ point.nkey = node.nkey /\ point.dkey = node.dkey
         /\ point.dataBegin = node.dataBegin /\ point.dataEnd = node.dataEnd
<1>. DEFINE M == MergedMaxList(node, left, right, key)
            P == [M EXCEPT !.left = Tree(left.replacement), !.right = Null, !.height = left.height + 1]
<1>1. /\ M.nkey = node.nkey /\ M.dkey = node.dkey /\ DOMAIN M = DOMAIN node
      /\ M.dataBegin = node.dataBegin /\ M.dataEnd = node.dataEnd
  BY DEF MergedMaxList, NodeRecord
<1>2. M.nsa \in Seq(Event) /\ M.ded \in Seq(Event) /\ M.ned \in Seq(Event)
  BY ListsTyped
<1>3. {"nkey", "dkey", "left", "right", "height", "dataBegin", "dataEnd", "nsa", "ded", "ned"} = DOMAIN M
  BY <1>1 DEF NodeRecord
<1>4. MergedPoint(node, left, right, key) = AsPoint(P, right.replacement)
  BY DEF MergedPoint
<1>. HIDE DEF M
<1>5. /\ P.nkey = node.nkey /\ P.dkey = node.dkey
      /\ P.dataBegin = node.dataBegin /\ P.dataEnd = node.dataEnd
      /\ P.left = Tree(left.replacement) /\ P.right = Null /\ P.height = left.height + 1
      /\ P.nsa = M.nsa /\ P.ded = M.ded /\ P.ned = M.ned
  BY <1>1, <1>3
<1>. HIDE DEF P
<1>6. left.replacement \in Nat /\ right.replacement \in Nat /\ left.height \in Nat
      /\ node.nkey \in Int /\ node.dkey \in Int /\ node.dataBegin \in Nat /\ node.dataEnd \in Nat
  BY DEF PointRecord, NodeRecord
<1>7. Tree(left.replacement) \in Pointer /\ Null \in Pointer
  BY <1>6, PointerFacts
<1>8. P.height \in Nat
  BY <1>5, <1>6
<1>9. /\ P.nkey \in Int /\ P.dkey \in Int /\ P.left \in Pointer /\ P.right \in Pointer
      /\ P.dataBegin \in Nat /\ P.dataEnd \in Nat
      /\ P.nsa \in Seq(Event) /\ P.ded \in Seq(Event) /\ P.ned \in Seq(Event)
  BY <1>2, <1>5, <1>6, <1>7
<1>. DEFINE Q == AsPoint(P, right.replacement)
<1>10. /\ Q \in PointRecord /\ Q.nkey = P.nkey /\ Q.dkey = P.dkey
       /\ Q.left = P.left /\ Q.right = P.right /\ Q.height = P.height
       /\ Q.dataBegin = P.dataBegin /\ Q.dataEnd = P.dataEnd /\ Q.replacement = right.replacement
  BY <1>6, <1>8, <1>9, AsPointFields
<1>. HIDE DEF Q
<1>11. MergedPoint(node, left, right, key) = Q
  BY <1>4 DEF Q
<1>. QED
  BY <1>5, <1>10, <1>11

---------------------------------------------------------------------------------
(* The shape of the forest. *)

\* Where the subtrees of the root of a tree with its root at j hang: half as far off on
\* each level.
LeftOf(j, h) == IF h = 0 THEN Null ELSE Tree(j - Leaves[h - 1])
RightOf(j, h) == IF h = 0 THEN Null ELSE Tree(j + Leaves[h - 1])

\* How many nodes the first forest-points stand over.
Under(f, i) == IF i = 0 THEN 0 ELSE f.index[i].replacement

\* Forest-points follow each other in the nodes, ...
Counted(f) ==
  /\ \A i \in 1..Len(f.index) : Under(f, i) = Under(f, i - 1) + Leaves[f.index[i].height]
  /\ \A i, k \in 1..Len(f.index) : i < k => f.index[i].replacement < f.index[k].replacement
  /\ Under(f, Len(f.index)) = Len(f.nodes)

\* ... each is the copy of a node that nothing hangs from yet, with a tree to its left, ...
PointOK(f, i) ==
  LET point == f.index[i]
      t == point.replacement
  IN /\ t \in 1..Len(f.nodes)
     /\ point.nkey = f.nodes[t].nkey /\ point.dkey = f.nodes[t].dkey
     /\ point.dataBegin = f.nodes[t].dataBegin /\ point.dataEnd = f.nodes[t].dataEnd
     /\ f.nodes[t].height = 0 /\ f.nodes[t].left = Null /\ f.nodes[t].right = Null
     /\ point.left = LeftOf(t, point.height)
     /\ point.height > 0 => f.nodes[t - Leaves[point.height - 1]].height = point.height - 1

\* ... and the nodes of that tree lie between it and the one before it, their subtrees to
\* both sides of each.
TreeNodeOK(nodes, lo, j, hi, top) ==
  LET h == nodes[j].height
  IN /\ h < top /\ lo <= j - Leaves[h] /\ j + Leaves[h] <= hi
     /\ nodes[j].left = LeftOf(j, h) /\ nodes[j].right = RightOf(j, h)
     /\ h > 0 => /\ nodes[j - Leaves[h - 1]].height = h - 1
                 /\ nodes[j + Leaves[h - 1]].height = h - 1
TreesOK(f) ==
  \A i \in 1..Len(f.index) : \A j \in Nat :
    Under(f, i - 1) < j /\ j < Under(f, i) =>
      TreeNodeOK(f.nodes, Under(f, i - 1), j, Under(f, i), f.index[i].height)

\* The intervals of the nodes follow each other.
KeysOK(f) ==
  /\ \A j \in 1..Len(f.nodes) :
       LET n == f.nodes[j]
       IN /\ n.nkey \in Timestamp /\ n.dkey \in Timestamp /\ n.nkey <= n.dkey
          /\ 1 <= n.dataBegin /\ n.dataBegin < n.dataEnd /\ n.dataEnd <= f.tail
  /\ \A j \in 1..(Len(f.nodes) - 1) : f.nodes[j + 1].nkey = f.nodes[j].dkey + 1
  /\ Len(f.nodes) > 0 => f.nodes[1].nkey = f.minKey

\* Only the last two forest-points may have one height, and need not be linked.
Descending(f) ==
  /\ \A i \in 1..(Len(f.index) - 2) :
       f.index[i].height > f.index[i + 1].height /\ f.index[i].right = Point(i + 1)
  /\ Len(f.index) > 1 => f.index[Len(f.index) - 1].height >= f.index[Len(f.index)].height
  /\ Len(f.index) > 0 => f.index[Len(f.index)].right = Null

Shape(f) ==
  /\ Typed(f) /\ Counted(f) /\ TreesOK(f) /\ KeysOK(f) /\ Descending(f)
  /\ \A i \in 1..Len(f.index) : PointOK(f, i)

\* The nodes that no forest-point stands for.
Settled(f) == {j \in 1..Len(f.nodes) : \A i \in 1..Len(f.index) : f.index[i].replacement # j}

\* Nothing settled is written, or unsettled.
Keeps(f, g) ==
  /\ Len(f.nodes) <= Len(g.nodes)
  /\ \A j \in Settled(f) : g.nodes[j] = f.nodes[j] /\ j \in Settled(g)

---------------------------------------------------------------------------------
(* Merging. *)

\* What a merge makes of the forest (stab_forest.hpp:611-688).
LEMMA MergeParts ==
  ASSUME NEW f, Typed(f), LastTwoLevel(f),
         \A i \in 1..Len(f.index) : f.index[i].replacement \in 1..Len(f.nodes)
  PROVE  LET m == Len(f.index)
             left == f.index[m - 1]
             right == f.index[m]
             c == left.replacement
             b == right.replacement
             g == MergeForestPoints(f)
         IN /\ Typed(g)
            /\ g.events = f.events /\ g.tail = f.tail /\ g.minKey = f.minKey
            /\ Len(g.index) = m - 1 /\ Len(g.nodes) = Len(f.nodes)
            /\ \A i \in 1..(m - 2) : g.index[i] = f.index[i]
            /\ \A j \in 1..Len(f.nodes) : j # c => g.nodes[j] = f.nodes[j]
            /\ g.nodes[c] = MergedRoot(f.nodes[c], left, right, f.nodes[b].nkey)
            /\ g.index[m - 1] = MergedPoint(f.nodes[b], left, right, f.nodes[b].nkey)
<1>. DEFINE m == Len(f.index)
            left == f.index[m - 1]
            right == f.index[m]
            c == left.replacement
            b == right.replacement
            key == f.nodes[b].nkey
            g == MergeForestPoints(f)
            N == [f.nodes EXCEPT ![c] = MergedRoot(f.nodes[c], left, right, key)]
            P == MergedPoint(f.nodes[b], left, right, key)
            I == Append(SubSeq(f.index, 1, m - 2), P)
<1>1. /\ f.events \in Seq(Event) /\ f.nodes \in Seq(NodeRecord) /\ f.index \in Seq(PointRecord)
      /\ f.tail \in Nat /\ f.minKey \in Int
      /\ DOMAIN f = {"events", "nodes", "index", "tail", "minKey"}
  BY DEF Typed
<1>2. m \in Nat /\ m >= 2 /\ m - 1 \in 1..m /\ m \in 1..m
  BY <1>1 DEF LastTwoLevel
<1>3. left \in PointRecord /\ right \in PointRecord /\ c \in 1..Len(f.nodes) /\ b \in 1..Len(f.nodes)
  BY <1>1, <1>2
<1>4. f.nodes[c] \in NodeRecord /\ f.nodes[b] \in NodeRecord /\ key \in Int
  <2>. HIDE DEF c, b
  <2>1. f.nodes[c] \in NodeRecord /\ f.nodes[b] \in NodeRecord
    BY <1>1, <1>3
  <2>. QED
    BY <2>1 DEF NodeRecord
<1>5. MergedRoot(f.nodes[c], left, right, key) \in NodeRecord /\ P \in PointRecord
  BY <1>3, <1>4, MergedRootFields, MergedPointFields
<1>6. g = [f EXCEPT !.nodes = N, !.index = I]
  BY DEF MergeForestPoints
<1>7. /\ N \in Seq(NodeRecord) /\ Len(N) = Len(f.nodes)
      /\ \A j \in 1..Len(f.nodes) : j # c => N[j] = f.nodes[j]
      /\ N[c] = MergedRoot(f.nodes[c], left, right, key)
  BY <1>1, <1>3, <1>5, WriteOne
<1>8. /\ SubSeq(f.index, 1, m - 2) \in Seq(PointRecord) /\ Len(SubSeq(f.index, 1, m - 2)) = m - 2
      /\ \A i \in 1..(m - 2) : SubSeq(f.index, 1, m - 2)[i] = f.index[i]
  <2>1. f.index \in Seq(PointRecord) /\ Len(f.index) >= 2
    BY <1>1, <1>2
  <2>. QED
    BY <2>1, WithoutLastTwo
<1>9. /\ I \in Seq(PointRecord) /\ Len(I) = m - 1 /\ I[m - 1] = P
      /\ \A i \in 1..(m - 2) : I[i] = f.index[i]
  <2>. DEFINE s == SubSeq(f.index, 1, m - 2)
  <2>1. s \in Seq(PointRecord) /\ Len(s) = m - 2 /\ \A i \in 1..(m - 2) : s[i] = f.index[i]
    BY <1>8
  <2>2. Len(s) + 1 = m - 1
    BY <1>2, <2>1
  <2>. HIDE DEF s, P
  <2>3. /\ Append(s, P) \in Seq(PointRecord) /\ Len(Append(s, P)) = Len(s) + 1
        /\ Append(s, P)[Len(s) + 1] = P /\ \A i \in 1..Len(s) : Append(s, P)[i] = s[i]
    BY <1>5, <2>1, AddOne
  <2>4. Append(s, P) = I
    BY DEF s
  <2>. HIDE DEF I
  <2>. QED
    BY <2>1, <2>2, <2>3, <2>4
<1>. HIDE DEF N, I
<1>10. g.events = f.events /\ g.tail = f.tail /\ g.minKey = f.minKey /\ g.nodes = N /\ g.index = I
       /\ Typed(g)
  BY <1>1, <1>6, <1>7, <1>9 DEF Typed
<1>. HIDE DEF g, P
<1>11. g.index[m - 1] = P /\ g.nodes[c] = MergedRoot(f.nodes[c], left, right, key)
  BY <1>7, <1>9, <1>10
<1>12. Len(g.index) = m - 1 /\ Len(g.nodes) = Len(f.nodes)
  BY <1>7, <1>9, <1>10
<1>13. /\ \A i \in 1..(m - 2) : g.index[i] = f.index[i]
       /\ \A j \in 1..Len(f.nodes) : j # c => g.nodes[j] = f.nodes[j]
  BY <1>7, <1>9, <1>10
<1>. QED
  BY <1>10, <1>11, <1>12, <1>13 DEF g, P

\* A merge of the last two forest-points keeps the shape and writes nothing settled.
LEMMA MergeShape ==
  ASSUME NEW f, Shape(f), LastTwoLevel(f)
  PROVE  /\ Shape(MergeForestPoints(f)) /\ Keeps(f, MergeForestPoints(f))
         /\ Len(MergeForestPoints(f).index) = Len(f.index) - 1
<1>. DEFINE g == MergeForestPoints(f)
<1>1. /\ f.events \in Seq(Event) /\ f.nodes \in Seq(NodeRecord) /\ f.index \in Seq(PointRecord)
      /\ f.tail \in Nat /\ f.minKey \in Int
  BY DEF Shape, Typed
<1>0. PICK m \in Nat, n \in Nat : m = Len(f.index) /\ n = Len(f.nodes)
  <2>1. Len(f.index) \in Nat /\ Len(f.nodes) \in Nat
    BY <1>1
  <2>. QED
    BY <2>1
<1>a. PICK left, right : left = f.index[m - 1] /\ right = f.index[m]
  OBVIOUS
<1>2. /\ m >= 2 /\ m - 1 \in 1..m /\ m \in 1..m /\ m # 0 /\ m - 1 # 0
      /\ (m - 1) - 1 = m - 2
      /\ left.height = right.height
  <2>1. m >= 2 /\ left.height = right.height
    BY <1>0, <1>a DEF LastTwoLevel
  <2>2. ASSUME NEW k \in Nat, k >= 2
        PROVE  k - 1 \in 1..k /\ k \in 1..k /\ k # 0 /\ k - 1 # 0 /\ (k - 1) - 1 = k - 2
    BY <2>2
  <2>. QED
    BY <2>1, <2>2
<1>3. left \in PointRecord /\ right \in PointRecord
  BY <1>0, <1>a, <1>1, <1>2
<1>4. PICK H \in Nat, c \in Nat, b \in Nat :
        H = left.height /\ c = left.replacement /\ b = right.replacement
  BY <1>3 DEF PointRecord
<1>5. PICK a \in Nat : a = Under(f, m - 2)
  <2>1. CASE m = 2
    BY <2>1 DEF Under
  <2>2. CASE m # 2
    <3>1. m - 2 \in 1..m /\ m - 2 # 0
      <4>1. ASSUME NEW k \in Nat, k >= 2, k # 2 PROVE k - 2 \in 1..k /\ k - 2 # 0
        BY <4>1
      <4>. QED
        BY <1>2, <2>2, <4>1
    <3>2. f.index[m - 2] \in PointRecord
      BY <1>0, <1>a, <1>1, <3>1
    <3>3. Under(f, m - 2) = f.index[m - 2].replacement
      BY <3>1 DEF Under
    <3>. QED
      BY <3>2, <3>3 DEF PointRecord
  <2>. QED
    BY <2>1, <2>2
<1>7. PICK L \in Nat : L = Leaves[H] /\ L > 0 /\ Leaves[H + 1] = 2 * L
  <2>1. Leaves[H] \in Nat /\ Leaves[H] > 0 /\ Leaves[H + 1] = 2 * Leaves[H]
    BY LeavesDouble
  <2>. QED
    BY <2>1
\* where the two trees lie
<1>8. L > 0 /\ c = a + L /\ b = c + L /\ b = n
  <2>1. Counted(f)
    BY DEF Shape
  <2>2. Under(f, m - 1) = Under(f, (m - 1) - 1) + Leaves[left.height]
    BY <1>0, <1>a, <1>2, <2>1 DEF Counted
  <2>3. Under(f, m) = Under(f, m - 1) + Leaves[right.height] /\ Under(f, m) = n
    BY <1>0, <1>a, <1>2, <2>1 DEF Counted
  <2>4. Under(f, m - 1) = c /\ Under(f, m) = b
    BY <1>2, <1>4, <1>a DEF Under
  <2>5. (m - 1) - 1 = m - 2 /\ L > 0
    BY <1>2, <1>7
  <2>. QED
    BY <1>2, <1>4, <1>5, <1>7, <2>2, <2>3, <2>4, <2>5
<1>9. c \in 1..n /\ b \in 1..n /\ b # c
  BY <1>8
<1>10. \A i \in 1..m : f.index[i].replacement \in 1..n
  BY <1>0, <1>a DEF Shape, PointOK
<1>11. /\ Typed(g)
       /\ g.events = f.events /\ g.tail = f.tail /\ g.minKey = f.minKey
       /\ Len(g.index) = m - 1 /\ Len(g.nodes) = n
       /\ \A i \in 1..(m - 2) : g.index[i] = f.index[i]
       /\ \A j \in 1..n : j # c => g.nodes[j] = f.nodes[j]
       /\ g.nodes[c] = MergedRoot(f.nodes[c], left, right, f.nodes[b].nkey)
       /\ g.index[m - 1] = MergedPoint(f.nodes[b], left, right, f.nodes[b].nkey)
  BY <1>0, <1>a, <1>4, <1>10, MergeParts DEF Shape
<1>. HIDE DEF g
<1>b. \A j \in 1..n : j # c => g.nodes[j] = f.nodes[j]
  BY <1>11
<1>12. f.nodes[c] \in NodeRecord /\ f.nodes[b] \in NodeRecord /\ f.nodes[b].nkey \in Int
  <2>1. f.nodes[c] \in NodeRecord /\ f.nodes[b] \in NodeRecord
    BY <1>0, <1>a, <1>1, <1>9
  <2>. QED
    BY <2>1 DEF NodeRecord
<1>13. /\ g.nodes[c].left = left.left /\ g.nodes[c].right = right.left /\ g.nodes[c].height = H
       /\ g.nodes[c].nkey = f.nodes[c].nkey /\ g.nodes[c].dkey = f.nodes[c].dkey
       /\ g.nodes[c].dataBegin = f.nodes[c].dataBegin /\ g.nodes[c].dataEnd = f.nodes[c].dataEnd
  <2>1. PICK x \in NodeRecord, key \in Int : x = f.nodes[c] /\ key = f.nodes[b].nkey
    BY <1>12
  <2>. DEFINE root == MergedRoot(x, left, right, key)
  <2>2. /\ root.left = left.left /\ root.right = right.left /\ root.height = left.height
        /\ root.nkey = x.nkey /\ root.dkey = x.dkey
        /\ root.dataBegin = x.dataBegin /\ root.dataEnd = x.dataEnd
    BY <1>3, MergedRootFields
  <2>3. g.nodes[c] = root
    BY <1>11, <2>1
  <2>. HIDE DEF root
  <2>. QED
    BY <1>4, <2>1, <2>2, <2>3
<1>14. /\ g.index[m - 1].left = Tree(c) /\ g.index[m - 1].right = Null
       /\ g.index[m - 1].height = H + 1 /\ g.index[m - 1].replacement = b
       /\ g.index[m - 1].nkey = f.nodes[b].nkey /\ g.index[m - 1].dkey = f.nodes[b].dkey
       /\ g.index[m - 1].dataBegin = f.nodes[b].dataBegin
       /\ g.index[m - 1].dataEnd = f.nodes[b].dataEnd
  <2>1. PICK y \in NodeRecord, key \in Int : y = f.nodes[b] /\ key = y.nkey
    BY <1>12
  <2>. DEFINE point == MergedPoint(y, left, right, key)
  <2>2. /\ point.left = Tree(left.replacement) /\ point.right = Null
        /\ point.height = left.height + 1 /\ point.replacement = right.replacement
        /\ point.nkey = y.nkey /\ point.dkey = y.dkey
        /\ point.dataBegin = y.dataBegin /\ point.dataEnd = y.dataEnd
    BY <1>3, MergedPointFields
  <2>3. g.index[m - 1] = point
    BY <1>11, <2>1
  <2>. HIDE DEF point
  <2>. QED
    BY <1>4, <2>1, <2>2, <2>3
\* the trees before keep their places
<1>15. \A i \in 0..(m - 2) : Under(g, i) = Under(f, i)
  BY <1>11 DEF Under
<1>16. Under(g, m - 1) = b /\ Under(g, m - 2) = a
  BY <1>2, <1>5, <1>14, <1>15 DEF Under
<1>17. \A i \in 1..(m - 2) : f.index[i].replacement <= a /\ f.index[i].replacement \in Nat
  <2>1. ASSUME NEW i \in 1..(m - 2)
        PROVE  f.index[i].replacement <= a /\ f.index[i].replacement \in Nat
    <3>1. m - 2 # 0 /\ m - 2 \in 1..m /\ i \in 1..m /\ (i = m - 2 \/ i < m - 2)
      BY <1>2
    <3>2. a = f.index[m - 2].replacement
      BY <1>5, <3>1 DEF Under
    <3>3. f.index[i].replacement \in Nat
      BY <1>2, <1>10, <3>1
    <3>4. i < m - 2 => f.index[i].replacement < f.index[m - 2].replacement
      BY <1>0, <1>a, <3>1 DEF Shape, Counted
    <3>. QED
      BY <3>1, <3>2, <3>3, <3>4
  <2>. QED
    BY <2>1
<1>18. Counted(g)
  <2>1. ASSUME NEW i \in 1..Len(g.index)
        PROVE  Under(g, i) = Under(g, i - 1) + Leaves[g.index[i].height]
    <3>1. CASE i = m - 1
      <4>1. i - 1 = m - 2 /\ b = a + Leaves[H + 1]
        <5>1. b = a + 2 * L
          BY <1>8
        <5>. QED
          BY <1>2, <1>7, <3>1, <5>1
      <4>. QED
        BY <1>14, <1>16, <3>1, <4>1
    <3>2. CASE i # m - 1
      <4>1. i \in 1..(m - 2) /\ i \in 0..(m - 2) /\ i - 1 \in 0..(m - 2) /\ i \in 1..m
        BY <1>2, <1>11, <3>2
      <4>2. Under(f, i) = Under(f, i - 1) + Leaves[f.index[i].height]
        BY <1>0, <1>a, <4>1 DEF Shape, Counted
      <4>. QED
        BY <1>11, <1>15, <4>1, <4>2
    <3>. QED
      BY <3>1, <3>2
  <2>2. ASSUME NEW i \in 1..Len(g.index), NEW k \in 1..Len(g.index), i < k
        PROVE  g.index[i].replacement < g.index[k].replacement
    <3>1. i \in 1..(m - 2) /\ i \in 1..m
      BY <1>2, <1>11, <2>2
    <3>2. CASE k = m - 1
      <4>1. a < b
        BY <1>8
      <4>2. g.index[i].replacement <= a /\ g.index[i].replacement \in Nat
        BY <1>11, <1>17, <3>1
      <4>. QED
        BY <1>14, <3>2, <4>1, <4>2
    <3>3. CASE k # m - 1
      <4>1. k \in 1..(m - 2) /\ k \in 1..m
        BY <1>2, <1>11, <3>3
      <4>2. f.index[i].replacement < f.index[k].replacement
        BY <1>0, <1>a, <2>2, <3>1, <4>1 DEF Shape, Counted
      <4>. QED
        BY <1>11, <3>1, <4>1, <4>2
    <3>. QED
      BY <3>2, <3>3
  <2>3. Under(g, Len(g.index)) = Len(g.nodes)
    BY <1>8, <1>11, <1>16
  <2>. QED
    BY <2>1, <2>2, <2>3 DEF Counted
<1>. DEFINE d == Leaves[H - 1]
<1>19. H > 0 => d \in Nat /\ d > 0 /\ L = 2 * d /\ H - 1 \in Nat
  <2>1. ASSUME H > 0 PROVE d \in Nat /\ d > 0 /\ L = 2 * d /\ H - 1 \in Nat
    <3>1. H - 1 \in Nat /\ (H - 1) + 1 = H
      BY <2>1
    <3>2. Leaves[H - 1] \in Nat /\ Leaves[H - 1] > 0 /\ Leaves[(H - 1) + 1] = 2 * Leaves[H - 1]
      BY <3>1, LeavesDouble
    <3>. QED
      BY <1>7, <3>1, <3>2
  <2>. QED
    BY <2>1
<1>. HIDE DEF d
<1>20. PointOK(f, m - 1) /\ PointOK(f, m)
  BY <1>0, <1>a, <1>2 DEF Shape
<1>21. /\ left.left = LeftOf(c, H) /\ right.left = LeftOf(b, H)
       /\ H > 0 => f.nodes[c - d].height = H - 1 /\ f.nodes[b - d].height = H - 1
       /\ f.nodes[b].height = 0 /\ f.nodes[b].left = Null /\ f.nodes[b].right = Null
  BY <1>0, <1>a, <1>2, <1>4, <1>20 DEF PointOK, d
\* the new root
<1>22. TreeNodeOK(g.nodes, a, c, b, H + 1)
  <2>1. H < H + 1 /\ a <= c - L /\ c + L <= b
    BY <1>8
  <2>2. g.nodes[c].left = LeftOf(c, H)
    BY <1>13, <1>21
  <2>3. LeftOf(b, H) = RightOf(c, H)
    <3>1. CASE H = 0
      BY <3>1 DEF LeftOf, RightOf
    <3>2. CASE H > 0
      <4>1. b - d = c + d
        BY <1>8, <1>19, <3>2
      <4>. QED
        BY <3>2, <4>1 DEF LeftOf, RightOf, d
    <3>. QED
      BY <3>1, <3>2
  <2>4. ASSUME H > 0
        PROVE  g.nodes[c - d].height = H - 1 /\ g.nodes[c + d].height = H - 1
    <3>1. c - d \in 1..n /\ c + d \in 1..n /\ c - d # c /\ c + d # c
          /\ b - d = c + d
      BY <1>8, <1>19, <2>4
    <3>. QED
      BY <1>11, <1>21, <2>4, <3>1
  <2>. QED
    BY <1>7, <1>13, <1>21, <2>1, <2>2, <2>3, <2>4 DEF TreeNodeOK, d
\* the other nodes
<1>23. ASSUME NEW lo \in Nat, NEW j \in Nat, NEW hi \in Nat, NEW top \in Nat,
              TreeNodeOK(f.nodes, lo, j, hi, top), lo < j, j < hi, hi <= c \/ c <= lo, hi <= b
       PROVE  TreeNodeOK(g.nodes, lo, j, hi, top)
  <2>1. j \in 1..n /\ j # c
    BY <1>2, <1>8, <1>23
  <2>2. f.nodes[j] \in NodeRecord
    BY <1>0, <1>a, <1>1, <2>1
  <2>3. PICK h \in Nat : h = f.nodes[j].height
    BY <2>2 DEF NodeRecord
  <2>4. PICK k \in Nat : k = Leaves[h] /\ k > 0
    BY LeavesDouble
  <2>5. lo <= j - k /\ j + k <= hi
    BY <1>23, <2>3, <2>4 DEF TreeNodeOK
  <2>6. g.nodes[j] = f.nodes[j]
    BY <1>11, <2>1
  <2>7. ASSUME h > 0
        PROVE  /\ g.nodes[j - Leaves[h - 1]] = f.nodes[j - Leaves[h - 1]]
               /\ g.nodes[j + Leaves[h - 1]] = f.nodes[j + Leaves[h - 1]]
    <3>1. PICK q \in Nat : q = Leaves[h - 1] /\ q > 0 /\ k = 2 * q
      <4>1. h - 1 \in Nat /\ (h - 1) + 1 = h
        BY <2>7
      <4>2. Leaves[h - 1] \in Nat /\ Leaves[h - 1] > 0 /\ Leaves[(h - 1) + 1] = 2 * Leaves[h - 1]
        BY <4>1, LeavesDouble
      <4>. QED
        BY <2>4, <4>1, <4>2
    <3>2. j - q \in 1..n /\ j + q \in 1..n /\ j - q # c /\ j + q # c
      BY <1>2, <1>8, <1>23, <2>5, <3>1
    <3>. QED
      BY <1>11, <3>1, <3>2
  <2>. QED
    BY <1>23, <2>3, <2>6, <2>7 DEF TreeNodeOK
<1>24. TreesOK(g)
  <2>. SUFFICES ASSUME NEW i \in 1..Len(g.index), NEW j \in Nat,
                       Under(g, i - 1) < j, j < Under(g, i)
                PROVE  TreeNodeOK(g.nodes, Under(g, i - 1), j, Under(g, i), g.index[i].height)
    BY DEF TreesOK
  <2>1. CASE i = m - 1
    <3>1. i - 1 = m - 2 /\ a < j /\ j < b
      BY <1>2, <1>16, <2>1
    <3>2. CASE j = c
      BY <1>14, <1>16, <1>22, <2>1, <3>1, <3>2
    <3>3. CASE j < c
      <4>1. Under(f, (m - 1) - 1) = a /\ Under(f, m - 1) = c
        <5>1. (m - 1) - 1 = m - 2
          BY <1>2
        <5>. QED
          BY <1>0, <1>a, <1>2, <1>4, <1>5, <5>1 DEF Under
      <4>2. TreeNodeOK(f.nodes, a, j, c, H)
        BY <1>0, <1>a, <1>2, <1>4, <3>1, <3>3, <4>1 DEF Shape, TreesOK
      <4>3. TreeNodeOK(g.nodes, a, j, c, H)
        <5>1. c <= b
          BY <1>8
        <5>. QED
          BY <1>23, <3>1, <3>3, <4>2, <5>1
      <4>4. TreeNodeOK(g.nodes, a, j, b, H + 1)
        <5>1. j \in 1..n /\ g.nodes[j] = f.nodes[j]
          <6>1. j \in 1..n /\ j # c
            BY <1>8, <3>1, <3>3
          <6>. QED
            BY <1>b, <6>1
        <5>2. f.nodes[j] \in NodeRecord
          BY <1>0, <1>a, <1>1, <5>1
        <5>3. PICK h \in Nat : h = g.nodes[j].height
          BY <5>1, <5>2 DEF NodeRecord
        <5>4. PICK k \in Nat : k = Leaves[h]
          BY LeavesDouble
        <5>5. h < H + 1 /\ j + k <= b
          <6>1. h < H /\ j + k <= c
            BY <4>3, <5>3, <5>4 DEF TreeNodeOK
          <6>. QED
            BY <1>8, <6>1
        <5>. QED
          BY <4>3, <5>3, <5>4, <5>5 DEF TreeNodeOK
      <4>. QED
        BY <1>14, <1>16, <2>1, <3>1, <4>4
    <3>4. CASE c < j
      <4>1. Under(f, m - 1) = c /\ Under(f, m) = b
        BY <1>0, <1>a, <1>2, <1>4 DEF Under
      <4>2. TreeNodeOK(f.nodes, c, j, b, H)
        BY <1>0, <1>a, <1>2, <1>4, <3>1, <3>4, <4>1 DEF Shape, TreesOK
      <4>3. TreeNodeOK(g.nodes, c, j, b, H)
        BY <1>23, <3>1, <3>4, <4>2
      <4>4. TreeNodeOK(g.nodes, a, j, b, H + 1)
        <5>1. j \in 1..n /\ g.nodes[j] = f.nodes[j]
          <6>1. j \in 1..n /\ j # c
            BY <1>8, <3>1, <3>4
          <6>. QED
            BY <1>b, <6>1
        <5>2. f.nodes[j] \in NodeRecord
          BY <1>0, <1>a, <1>1, <5>1
        <5>3. PICK h \in Nat : h = g.nodes[j].height
          BY <5>1, <5>2 DEF NodeRecord
        <5>4. PICK k \in Nat : k = Leaves[h]
          BY LeavesDouble
        <5>5. h < H + 1 /\ a <= j - k
          <6>1. h < H /\ c <= j - k
            BY <4>3, <5>3, <5>4 DEF TreeNodeOK
          <6>. QED
            BY <1>8, <6>1
        <5>. QED
          BY <4>3, <5>3, <5>4, <5>5 DEF TreeNodeOK
      <4>. QED
        BY <1>14, <1>16, <2>1, <3>1, <4>4
    <3>. QED
      BY <3>2, <3>3, <3>4
  <2>2. CASE i # m - 1
    <3>1. i \in 1..(m - 2) /\ i \in 0..(m - 2) /\ i - 1 \in 0..(m - 2) /\ i \in 1..m
      BY <1>2, <1>11, <2>2
    <3>2. Under(g, i - 1) = Under(f, i - 1) /\ Under(g, i) = Under(f, i) /\ g.index[i] = f.index[i]
      BY <1>11, <1>15, <3>1
    <3>3. TreeNodeOK(f.nodes, Under(f, i - 1), j, Under(f, i), f.index[i].height)
      BY <1>0, <1>a, <3>1, <3>2 DEF Shape, TreesOK
    <3>4. Under(f, i) = f.index[i].replacement /\ Under(f, i) <= a /\ Under(f, i) \in Nat
      BY <1>17, <3>1 DEF Under
    <3>5. Under(f, i - 1) \in Nat
      <4>1. CASE i = 1
        BY <4>1 DEF Under
      <4>2. CASE i # 1
        <5>1. i - 1 \in 1..(m - 2) /\ i - 1 # 0
          BY <3>1, <4>2
        <5>. QED
          BY <1>17, <5>1 DEF Under
      <4>. QED
        BY <4>1, <4>2
    <3>6. f.index[i].height \in Nat
      <4>1. f.index[i] \in PointRecord
        BY <1>0, <1>a, <1>1, <3>1
      <4>. QED
        BY <4>1 DEF PointRecord
    <3>7. Under(f, i) <= c /\ Under(f, i) <= b
      BY <1>8, <3>4
    <3>8. Under(f, i - 1) < j /\ j < Under(f, i)
      BY <3>2
    <3>. QED
      BY <1>23, <3>2, <3>3, <3>4, <3>5, <3>6, <3>7, <3>8
  <2>. QED
    BY <2>1, <2>2
<1>25. ASSUME NEW i \in 1..Len(g.index) PROVE PointOK(g, i)
  <2>1. CASE i = m - 1
    <3>1. g.nodes[b] = f.nodes[b] /\ b \in 1..Len(g.nodes)
      BY <1>9, <1>11
    <3>2. LeftOf(b, H + 1) = Tree(c)
      <4>1. b - L = c /\ H + 1 # 0 /\ (H + 1) - 1 = H
        BY <1>8
      <4>. QED
        BY <1>7, <4>1 DEF LeftOf
    <3>3. g.nodes[b - Leaves[(H + 1) - 1]].height = (H + 1) - 1
      <4>1. (H + 1) - 1 = H /\ b - L = c
        BY <1>8
      <4>. QED
        BY <1>7, <1>13, <4>1
    <3>. QED
      BY <1>14, <1>21, <2>1, <3>1, <3>2, <3>3 DEF PointOK
  <2>2. CASE i # m - 1
    <3>1. i \in 1..(m - 2) /\ i \in 1..m
      BY <1>2, <1>11, <2>2
    <3>2. g.index[i] = f.index[i] /\ PointOK(f, i)
      BY <1>0, <1>a, <1>11, <3>1 DEF Shape
    <3>3. PICK t \in Nat : t = f.index[i].replacement /\ t <= a /\ t \in 1..n
      BY <1>0, <1>a, <1>17, <3>1, <3>2 DEF PointOK
    <3>4. g.nodes[t] = f.nodes[t]
      <4>1. t \in 1..n /\ t # c
        BY <1>8, <3>3
      <4>. QED
        BY <1>b, <4>1
    <3>5. PICK h \in Nat : h = f.index[i].height
      <4>1. f.index[i] \in PointRecord
        BY <1>0, <1>a, <1>1, <3>1
      <4>. QED
        BY <4>1 DEF PointRecord
    <3>6. ASSUME h > 0 PROVE g.nodes[t - Leaves[h - 1]] = f.nodes[t - Leaves[h - 1]]
      <4>1. PICK q \in Nat, k \in Nat : q = Leaves[h - 1] /\ q > 0 /\ k = Leaves[h] /\ k = 2 * q
        <5>1. h - 1 \in Nat /\ (h - 1) + 1 = h
          BY <3>6
        <5>2. Leaves[h - 1] \in Nat /\ Leaves[h - 1] > 0 /\ Leaves[(h - 1) + 1] = 2 * Leaves[h - 1]
          BY <5>1, LeavesDouble
        <5>. QED
          BY <5>1, <5>2
      <4>2. k <= t
        <5>1. Under(f, i) = t
          BY <3>1, <3>3 DEF Under
        <5>2. Under(f, i) = Under(f, i - 1) + k
          BY <1>0, <1>a, <3>1, <3>5, <4>1 DEF Shape, Counted
        <5>3. Under(f, i - 1) \in Nat
          <6>1. CASE i = 1
            BY <6>1 DEF Under
          <6>2. CASE i # 1
            <7>1. i - 1 \in 1..(m - 2) /\ i - 1 # 0
              BY <3>1, <6>2
            <7>. QED
              BY <1>17, <7>1 DEF Under
          <6>. QED
            BY <6>1, <6>2
        <5>. QED
          BY <5>1, <5>2, <5>3
      <4>3. t - q \in 1..n /\ t - q # c
        <5>1. q > 0 /\ k = 2 * q /\ k <= t /\ t <= a /\ t \in 1..n
          BY <3>3, <1>0, <4>1, <4>2
        <5>. QED
          BY <1>8, <5>1
      <4>. QED
        BY <1>11, <4>1, <4>3
    <3>. QED
      BY <1>11, <3>2, <3>3, <3>4, <3>5, <3>6 DEF PointOK
  <2>. QED
    BY <2>1, <2>2
<1>26. KeysOK(g)
  <2>1. \A j \in 1..n :
          /\ g.nodes[j].nkey = f.nodes[j].nkey /\ g.nodes[j].dkey = f.nodes[j].dkey
          /\ g.nodes[j].dataBegin = f.nodes[j].dataBegin /\ g.nodes[j].dataEnd = f.nodes[j].dataEnd
    BY <1>11, <1>13
  <2>2. \A j \in 1..(n - 1) : j \in 1..n /\ j + 1 \in 1..n
    BY <1>2
  <2>3. n > 0 => 1 \in 1..n
    BY <1>2
  <2>. QED
    BY <1>0, <1>a, <1>11, <2>1, <2>2, <2>3 DEF Shape, KeysOK
<1>27. Descending(g)
  <2>0. \A i \in 1..m : f.index[i].height \in Nat
    <3>1. \A i \in 1..m : f.index[i] \in PointRecord
      BY <1>0, <1>a, <1>1
    <3>. QED
      BY <3>1 DEF PointRecord
  <2>1. ASSUME NEW i \in 1..(Len(g.index) - 2)
        PROVE  g.index[i].height > g.index[i + 1].height /\ g.index[i].right = Point(i + 1)
    <3>1. i \in 1..(m - 2) /\ i + 1 \in 1..(m - 2)
      BY <1>2, <1>11
    <3>. QED
      BY <1>0, <1>a, <1>11, <3>1 DEF Shape, Descending
  <2>2. ASSUME Len(g.index) > 1
        PROVE  g.index[Len(g.index) - 1].height >= g.index[Len(g.index)].height
    <3>1. m - 2 \in 1..(m - 2) /\ (m - 1) - 1 = m - 2 /\ (m - 2) + 1 = m - 1 /\ m - 2 \in 1..m
      BY <1>2, <1>11, <2>2
    <3>2. f.index[m - 2].height > f.index[(m - 2) + 1].height
      BY <1>0, <1>a, <3>1 DEF Shape, Descending
    <3>3. g.index[m - 2].height > H
      BY <1>0, <1>a, <1>4, <1>11, <3>1, <3>2
    <3>4. g.index[m - 2].height >= H + 1
      <4>1. PICK x \in Nat : x = g.index[m - 2].height
        BY <1>11, <2>0, <3>1
      <4>2. x >= H + 1
        BY <3>3, <4>1
      <4>. QED
        BY <4>1, <4>2
    <3>. QED
      BY <1>11, <1>14, <3>1, <3>4
  <2>. QED
    BY <1>11, <1>14, <2>1, <2>2 DEF Descending
<1>28. Keeps(f, g)
  <2>1. ASSUME NEW j \in Settled(f) PROVE g.nodes[j] = f.nodes[j] /\ j \in Settled(g)
    <3>1. j \in 1..n /\ \A i \in 1..m : f.index[i].replacement # j
      BY <1>0, <1>a DEF Settled
    <3>2. j # c /\ j # b
      BY <1>0, <1>a, <1>2, <1>4, <3>1
    <3>3. ASSUME NEW i \in 1..Len(g.index) PROVE g.index[i].replacement # j
      <4>1. (i \in 1..(m - 2) /\ i \in 1..m) \/ i = m - 1
        BY <1>2, <1>11
      <4>. QED
        BY <1>11, <1>14, <3>1, <3>2, <4>1
    <3>. QED
      BY <1>11, <3>1, <3>2, <3>3 DEF Settled
  <2>. QED
    BY <1>0, <1>a, <1>2, <1>11, <2>1 DEF Keeps
<1>29. Shape(g)
  BY <1>11, <1>18, <1>24, <1>25, <1>26, <1>27 DEF Shape
<1>. QED
  BY <1>0, <1>a, <1>11, <1>28, <1>29 DEF g

---------------------------------------------------------------------------------
(* The loop of maintain_index. *)

\* The equation of the loop.
IsMerges(f, n, w) == w = [k \in 0..n |-> IF k = 0 THEN f ELSE MergeLastTwo(w[k - 1])]
\* What the loop does is a solution of it, if there is one, ...
LEMMA MergesChoice ==
  ASSUME NEW f
  PROVE  Merges(f) = CHOOSE w : IsMerges(f, Len(f.index), w)
BY DEF Merges, IsMerges

\* ... there is one, ...
LEMMA MergesExist ==
  ASSUME NEW f, NEW n \in Nat
  PROVE  \E w : IsMerges(f, n, w)
<1>. DEFINE Step(w, k) == IF k = 0 THEN f ELSE MergeLastTwo(w[k - 1])
            On(w) == w = [k \in 0..n |-> w[k]]
            Up(m, w) == \A k \in 0..n : k < m => w[k] = Step(w, k)
            S == {m \in Nat : \E w : On(w) /\ Up(m, w)}
<1>1. 0 \in S
  <2>. DEFINE w == [k \in 0..n |-> f]
  <2>1. On(w) /\ Up(0, w)
    OBVIOUS
  <2>. HIDE DEF w, On, Up
  <2>. QED
    BY <2>1
<1>2. ASSUME NEW m \in S PROVE m + 1 \in S
  <2>1. m \in Nat
    OBVIOUS
  <2>2. PICK w : On(w) /\ Up(m, w)
    OBVIOUS
  <2>. DEFINE v == [k \in 0..n |-> Step(w, k)]
  <2>3. On(v) /\ \A k \in 0..n : v[k] = Step(w, k)
    OBVIOUS
  <2>. HIDE DEF v
  <2>4. ASSUME NEW k \in 0..n, k < m + 1 PROVE v[k] = Step(v, k)
    <3>1. CASE k = 0
      BY <2>3, <3>1
    <3>2. CASE k # 0
      <4>1. k - 1 \in 0..n /\ k - 1 < m
        BY <2>1, <2>4, <3>2
      <4>2. w[k - 1] = v[k - 1]
        BY <2>2, <2>3, <4>1
      <4>. QED
        BY <2>3, <3>2, <4>2
    <3>. QED
      BY <3>1, <3>2
  <2>5. Up(m + 1, v) /\ m + 1 \in Nat
    BY <2>1, <2>4
  <2>. HIDE DEF On, Up
  <2>. QED
    BY <2>3, <2>5
<1>3. S = Nat
  <2>1. S \in SUBSET Nat
    OBVIOUS
  <2>. HIDE DEF S
  <2>. QED
    BY <1>1, <1>2, <2>1, NatAll
<1>4. n + 1 \in S
  <2>. HIDE DEF S
  <2>. QED
    BY <1>3
<1>5. PICK w : On(w) /\ Up(n + 1, w)
  BY <1>4
<1>6. \A k \in 0..n : w[k] = Step(w, k)
  <2>1. \A k \in 0..n : k < n + 1
    OBVIOUS
  <2>. QED
    BY <1>5, <2>1
<1>. QED
  BY <1>5, <1>6 DEF IsMerges

\* ... so that the loop goes from step to step.
LEMMA MergesSteps ==
  ASSUME NEW f, Len(f.index) \in Nat
  PROVE  /\ Merges(f)[0] = f
         /\ \A k \in Nat : k < Len(f.index) => Merges(f)[k + 1] = MergeLastTwo(Merges(f)[k])
<1>. DEFINE n == Len(f.index)
            w == Merges(f)
<1>1. w = CHOOSE v : IsMerges(f, n, v)
  BY MergesChoice
<1>2. \E v : IsMerges(f, n, v)
  BY MergesExist
<1>3. IsMerges(f, n, w)
  <2>. HIDE DEF w
  <2>. QED
    BY <1>1, <1>2
<1>. HIDE DEF w
<1>4. w[0] = f
  BY <1>3 DEF IsMerges
<1>5. ASSUME NEW k \in Nat, k < n PROVE w[k + 1] = MergeLastTwo(w[k])
  <2>1. k + 1 \in 0..n /\ k + 1 # 0 /\ (k + 1) - 1 = k
    BY <1>5
  <2>. QED
    BY <1>3, <2>1 DEF IsMerges
<1>. QED
  BY <1>4, <1>5 DEF w

\* What is settled stays so.
LEMMA KeepsOn ==
  ASSUME NEW f, NEW g, NEW h, Keeps(f, g), Keeps(g, h),
         Len(f.nodes) \in Nat, Len(g.nodes) \in Nat, Len(h.nodes) \in Nat
  PROVE  Keeps(f, h)
BY DEF Keeps

\* Two forests with the same events, cut into nodes in the same way.
SameData(f, g) ==
  /\ g.events = f.events /\ g.tail = f.tail /\ g.minKey = f.minKey
  /\ Len(g.nodes) = Len(f.nodes)
  /\ \A j \in 1..Len(f.nodes) :
       /\ g.nodes[j].nkey = f.nodes[j].nkey /\ g.nodes[j].dkey = f.nodes[j].dkey
       /\ g.nodes[j].dataBegin = f.nodes[j].dataBegin /\ g.nodes[j].dataEnd = f.nodes[j].dataEnd

\* Merging leaves the events and their intervals alone.
LEMMA MergeData ==
  ASSUME NEW f, Shape(f), LastTwoLevel(f)
  PROVE  SameData(f, MergeForestPoints(f))
<1>1. Typed(f) /\ \A i \in 1..Len(f.index) : f.index[i].replacement \in 1..Len(f.nodes)
  BY DEF Shape, PointOK
<1>. DEFINE g == MergeForestPoints(f)
<1>2. PICK m \in Nat : m = Len(f.index) /\ m >= 2 /\ m - 1 \in 1..m /\ m \in 1..m
  <2>1. Len(f.index) \in Nat /\ Len(f.index) >= 2
    BY <1>1 DEF Typed, LastTwoLevel
  <2>. QED
    BY <2>1
<1>3. PICK left, right : left = f.index[m - 1] /\ right = f.index[m]
  OBVIOUS
<1>4. left \in PointRecord /\ right \in PointRecord /\ left.replacement \in 1..Len(f.nodes)
      /\ right.replacement \in 1..Len(f.nodes)
  <2>1. f.index \in Seq(PointRecord)
    BY <1>1 DEF Typed
  <2>2. left \in PointRecord /\ right \in PointRecord
    BY <1>2, <1>3, <2>1
  <2>. QED
    BY <1>1, <1>2, <1>3, <2>2
<1>5. PICK x \in NodeRecord, y \in NodeRecord :
        x = f.nodes[left.replacement] /\ y = f.nodes[right.replacement]
  <2>1. f.nodes[left.replacement] \in NodeRecord /\ f.nodes[right.replacement] \in NodeRecord
    BY <1>1, <1>4 DEF Typed
  <2>. QED
    BY <2>1
<1>. DEFINE root == MergedRoot(x, left, right, y.nkey)
<1>6. /\ g.events = f.events /\ g.tail = f.tail /\ g.minKey = f.minKey
      /\ Len(g.nodes) = Len(f.nodes)
      /\ \A j \in 1..Len(f.nodes) : j # left.replacement => g.nodes[j] = f.nodes[j]
      /\ g.nodes[left.replacement] = root
  BY <1>1, <1>2, <1>3, <1>5, MergeParts
<1>7. /\ root.nkey = x.nkey /\ root.dkey = x.dkey
      /\ root.dataBegin = x.dataBegin /\ root.dataEnd = x.dataEnd
  <2>1. y.nkey \in Int
    BY DEF NodeRecord
  <2>. QED
    BY <1>4, <2>1, MergedRootFields
<1>. HIDE DEF root, g
<1>. QED
  BY <1>5, <1>6, <1>7 DEF SameData, g

\* What the loop leaves: a forest of the same shape, the last two of one height no more.
LEMMA MergesShape ==
  ASSUME NEW f, Shape(f)
  PROVE  LET g == Merges(f)[Len(f.index)]
         IN /\ Shape(g) /\ Keeps(f, g) /\ ~LastTwoLevel(g)
            /\ SameData(f, g)
            /\ (Len(f.index) > 0 => Len(g.index) > 0)
<1>0. PICK n \in Nat : n = Len(f.index)
  <2>1. Len(f.index) \in Nat
    BY DEF Shape, Typed
  <2>. QED
    BY <2>1
<1>. DEFINE w == Merges(f)
            Good(g, k) == /\ Shape(g) /\ Keeps(f, g)
                          /\ SameData(f, g)
                          /\ (n > 0 => Len(g.index) > 0)
                          /\ Len(g.index) \in Nat
                          /\ Len(g.index) <= n - k \/ ~LastTwoLevel(g)
            S == {k \in Nat : k <= n => Good(w[k], k)}
<1>1. w[0] = f /\ \A k \in Nat : k < n => w[k + 1] = MergeLastTwo(w[k])
  BY <1>0, MergesSteps
<1>. HIDE DEF w
<1>2. 0 \in S
  <2>1. Keeps(f, f)
    <3>1. Len(f.nodes) \in Nat
      BY DEF Shape, Typed
    <3>. QED
      BY <3>1 DEF Keeps
  <2>2. Len(f.index) <= n - 0 /\ SameData(f, f)
    BY <1>0 DEF SameData
  <2>3. Good(f, 0)
    BY <1>0, <2>1, <2>2
  <2>. HIDE DEF Good
  <2>. QED
    BY <1>1, <2>3
<1>3. ASSUME NEW k \in S PROVE k + 1 \in S
  <2>0. k \in Nat /\ (k <= n => Good(w[k], k))
    OBVIOUS
  <2>1. ASSUME k + 1 <= n PROVE Good(w[k + 1], k + 1)
    <3>1. Good(w[k], k) /\ w[k + 1] = MergeLastTwo(w[k])
      <4>1. k <= n /\ k < n
        BY <2>0, <2>1
      <4>. HIDE DEF Good
      <4>. QED
        BY <1>1, <2>0, <4>1
    <3>. DEFINE g == w[k]
                h == MergeForestPoints(g)
    <3>2. CASE LastTwoLevel(g)
      <4>1. w[k + 1] = h
        BY <3>1, <3>2 DEF MergeLastTwo
      <4>2. Shape(h) /\ Keeps(g, h) /\ Len(h.index) = Len(g.index) - 1
        BY <3>1, <3>2, MergeShape
      <4>3. SameData(f, h)
        <5>1. SameData(g, h)
          BY <3>1, <3>2, MergeData
        <5>. QED
          BY <3>1, <5>1 DEF SameData
      <4>4. Keeps(f, h)
        <5>1. Len(f.nodes) \in Nat /\ Len(g.nodes) \in Nat /\ Len(h.nodes) \in Nat
          BY <3>1, <4>2 DEF Shape, Typed
        <5>. QED
          BY <3>1, <4>2, <5>1, KeepsOn
      <4>5. Len(g.index) \in Nat /\ Len(g.index) >= 2 /\ Len(g.index) <= n - k
        BY <3>1, <3>2 DEF LastTwoLevel
      <4>6. Len(h.index) \in Nat /\ Len(h.index) > 0 /\ Len(h.index) <= n - (k + 1)
        <5>1. ASSUME NEW l \in Nat, l >= 2, l <= n - k
              PROVE  l - 1 \in Nat /\ l - 1 > 0 /\ l - 1 <= n - (k + 1)
          BY <2>0, <5>1
        <5>. QED
          BY <4>2, <4>5, <5>1
      <4>. HIDE DEF h, g
      <4>7. Good(h, k + 1)
        BY <4>2, <4>3, <4>4, <4>6
      <4>. HIDE DEF Good
      <4>. QED
        BY <4>1, <4>7
    <3>3. CASE ~LastTwoLevel(g)
      <4>1. w[k + 1] = g
        BY <3>1, <3>3 DEF MergeLastTwo
      <4>. QED
        BY <3>1, <3>3, <4>1
    <3>. QED
      BY <3>2, <3>3
  <2>. HIDE DEF Good
  <2>. QED
    BY <2>0, <2>1
<1>4. S = Nat
  <2>1. S \in SUBSET Nat
    OBVIOUS
  <2>. HIDE DEF S
  <2>. QED
    BY <1>2, <1>3, <2>1, NatAll
<1>5. Good(w[n], n)
  <2>1. n \in S
    <3>. HIDE DEF S
    <3>. QED
      BY <1>4
  <2>. QED
    BY <2>1
<1>6. ~LastTwoLevel(w[n])
  BY <1>5 DEF LastTwoLevel
<1>. QED
  BY <1>0, <1>5, <1>6 DEF w

---------------------------------------------------------------------------------
(* What a forest is. *)

\* No two forest-points have one height, and each is linked to the next.
Linked(f) ==
  \A i \in 1..(Len(f.index) - 1) :
    f.index[i].height > f.index[i + 1].height /\ f.index[i].right = Point(i + 1)

\* What the events are: in order, those of the tail with one start, after all that the
\* nodes have.
EventsOK(f) ==
  /\ Ordered(f.events) /\ f.tail \in 1..(Len(f.events) + 1)
  /\ Len(f.events) > 0 => f.tail <= Len(f.events) /\ f.minKey = f.events[1].start
  /\ \A i \in 1..Len(f.events) : f.tail <= i => f.events[i].start = f.events[f.tail].start
  /\ Len(f.nodes) = 0 => f.tail = 1
  /\ Len(f.nodes) > 0 => /\ Len(f.events) > 0
                         /\ f.nodes[Len(f.nodes)].dkey < f.events[f.tail].start

ForestInv(f) == Shape(f) /\ Linked(f) /\ EventsOK(f)

\* The fields of an event.
LEMMA EventFields ==
  /\ MaxTime \in Nat
  /\ \A e \in Event : e.start \in Timestamp /\ e.end \in Timestamp /\ e.start <= e.end
BY EventAssumption

\* Forest-points stand over no more nodes than there are.
LEMMA UnderNat ==
  ASSUME NEW f, Shape(f)
  PROVE  /\ Len(f.nodes) \in Nat /\ Len(f.index) \in Nat
         /\ \A i \in 0..Len(f.index) : Under(f, i) \in 0..Len(f.nodes)
         /\ \A i \in 1..Len(f.index) : Under(f, i) = f.index[i].replacement /\ i - 1 \in 0..Len(f.index)
         /\ \A i \in 1..Len(f.index) : f.index[i] \in PointRecord /\ f.index[i].height \in Nat
         /\ (Len(f.index) = 0 <=> Len(f.nodes) = 0)
<1>1. Len(f.nodes) \in Nat /\ Len(f.index) \in Nat /\ f.index \in Seq(PointRecord)
  BY DEF Shape, Typed
<1>2. \A i \in 1..Len(f.index) : f.index[i].replacement \in 1..Len(f.nodes)
  BY DEF Shape, PointOK
<1>3. \A i \in 1..Len(f.index) : Under(f, i) = f.index[i].replacement /\ i - 1 \in 0..Len(f.index)
  BY <1>1 DEF Under
<1>4. \A i \in 0..Len(f.index) : Under(f, i) \in 0..Len(f.nodes)
  BY <1>1, <1>2 DEF Under
<1>5. \A i \in 1..Len(f.index) : f.index[i] \in PointRecord
  BY <1>1
<1>6. \A i \in 1..Len(f.index) : f.index[i].height \in Nat
  BY <1>5 DEF PointRecord
<1>7. Under(f, Len(f.index)) = Len(f.nodes)
  BY DEF Shape, Counted
<1>8. Len(f.index) = 0 => Len(f.nodes) = 0
  BY <1>7 DEF Under
<1>9. Len(f.nodes) = 0 => Len(f.index) = 0
  <2>1. ASSUME Len(f.index) # 0 PROVE Len(f.nodes) # 0
    <3>1. Len(f.index) \in 1..Len(f.index)
      BY <1>1, <2>1
    <3>. QED
      BY <1>1, <1>2, <3>1
  <2>. QED
    BY <2>1
<1>. QED
  BY <1>1, <1>3, <1>4, <1>5, <1>6, <1>8, <1>9

\* A node of a tree depends on the nodes of its tree only.
LEMMA TreeNodeKept ==
  ASSUME NEW nodes, NEW more, NEW lo \in Nat, NEW j \in Nat, NEW hi \in Nat, NEW top \in Nat,
         TreeNodeOK(nodes, lo, j, hi, top), nodes[j].height \in Nat, lo < j, j < hi,
         \A x \in Nat : lo < x /\ x < hi => more[x] = nodes[x]
  PROVE  TreeNodeOK(more, lo, j, hi, top)
<1>1. PICK h \in Nat : h = nodes[j].height /\ more[j] = nodes[j]
  OBVIOUS
<1>2. PICK k \in Nat : k = Leaves[h] /\ k > 0
  <2>1. Leaves[h] \in Nat /\ Leaves[h] > 0
    BY LeavesDouble
  <2>. QED
    BY <2>1
<1>3. lo <= j - k /\ j + k <= hi
  BY <1>1, <1>2 DEF TreeNodeOK
<1>4. ASSUME h > 0
      PROVE  /\ more[j - Leaves[h - 1]] = nodes[j - Leaves[h - 1]]
             /\ more[j + Leaves[h - 1]] = nodes[j + Leaves[h - 1]]
  <2>1. PICK q \in Nat : q = Leaves[h - 1] /\ q > 0 /\ k = 2 * q
    <3>1. h - 1 \in Nat /\ (h - 1) + 1 = h
      BY <1>4
    <3>2. Leaves[h - 1] \in Nat /\ Leaves[h - 1] > 0 /\ Leaves[(h - 1) + 1] = 2 * Leaves[h - 1]
      BY <3>1, LeavesDouble
    <3>. QED
      BY <1>2, <3>1, <3>2
  <2>2. j - q \in Nat /\ lo < j - q /\ j - q < hi /\ j + q \in Nat /\ lo < j + q /\ j + q < hi
    BY <1>3, <2>1
  <2>. QED
    BY <2>1, <2>2
<1>. QED
  BY <1>1, <1>4 DEF TreeNodeOK

\* A forest-point's tree is as large as its height says, so its left child is a node.
LEMMA PointChild ==
  ASSUME NEW f, Shape(f), NEW i \in 1..Len(f.index), f.index[i].height > 0
  PROVE  LET t == f.index[i].replacement
             q == Leaves[f.index[i].height - 1]
         IN /\ t \in 1..Len(f.nodes) /\ q \in Nat /\ q > 0
            /\ t - q \in 1..Len(f.nodes) /\ Under(f, i - 1) < t - q /\ t - q < t
<1>1. PICK h \in Nat : h = f.index[i].height
  BY UnderNat
<1>2. PICK q \in Nat, k \in Nat : q = Leaves[h - 1] /\ q > 0 /\ k = Leaves[h] /\ k = 2 * q
  <2>1. h - 1 \in Nat /\ (h - 1) + 1 = h
    BY <1>1
  <2>2. Leaves[h - 1] \in Nat /\ Leaves[h - 1] > 0 /\ Leaves[(h - 1) + 1] = 2 * Leaves[h - 1]
    BY <2>1, LeavesDouble
  <2>. QED
    BY <2>1, <2>2
<1>3. PICK t \in Nat, u \in Nat, n \in Nat :
        t = f.index[i].replacement /\ u = Under(f, i - 1) /\ n = Len(f.nodes) /\ t <= n
  <2>1. Under(f, i) \in 0..Len(f.nodes) /\ Under(f, i) = f.index[i].replacement
        /\ i - 1 \in 0..Len(f.index) /\ Len(f.nodes) \in Nat
    BY UnderNat
  <2>2. Under(f, i - 1) \in 0..Len(f.nodes)
    BY <2>1, UnderNat
  <2>. QED
    BY <2>1, <2>2
<1>4. t = u + k
  <2>1. Under(f, i) = Under(f, i - 1) + Leaves[f.index[i].height]
    BY DEF Shape, Counted
  <2>2. Under(f, i) = f.index[i].replacement
    BY UnderNat
  <2>. QED
    BY <1>1, <1>2, <1>3, <2>1, <2>2
<1>5. t - q \in 1..n /\ u < t - q /\ t - q < t /\ t \in 1..n
  <2>1. k = 2 * q /\ q > 0
    BY <1>2
  <2>2. t <= n
    BY <1>3
  <2>. QED
    BY <1>4, <2>1, <2>2
<1>6. Leaves[f.index[i].height - 1] = q
  <2>1. Leaves[h - 1] = q
    BY <1>2
  <2>. QED
    BY <1>1, <2>1
<1>7. f.index[i].replacement = t /\ Under(f, i - 1) = u /\ Len(f.nodes) = n
  BY <1>3
<1>. QED
  BY <1>2, <1>5, <1>6, <1>7

\* Linking the last two forest-points, of two heights, leaves all of them linked
\* (stab_forest.hpp:604-607).
LEMMA RelinkShape ==
  ASSUME NEW f, Shape(f), ~LastTwoLevel(f)
  PROVE  LET g == Relink(f)
         IN /\ Shape(g) /\ Linked(g) /\ Keeps(f, g) /\ SameData(f, g) /\ Len(g.index) = Len(f.index)
<1>0. PICK n \in Nat : n = Len(f.index)
  <2>1. Len(f.index) \in Nat
    BY UnderNat
  <2>. QED
    BY <2>1
<1>1. CASE n < 2
  <2>1. Relink(f) = f
    BY <1>0, <1>1 DEF Relink
  <2>2. Linked(f)
    <3>1. \A i \in 1..(n - 1) : FALSE
      BY <1>1
    <3>. QED
      BY <1>0, <3>1 DEF Linked
  <2>3. Keeps(f, f) /\ SameData(f, f)
    <3>1. Len(f.nodes) \in Nat
      BY UnderNat
    <3>. QED
      BY <3>1 DEF Keeps, SameData
  <2>. QED
    BY <2>1, <2>2, <2>3
<1>2. CASE n >= 2
  <2>. DEFINE P == [f.index[n - 1] EXCEPT !.right = Point(n)]
              I == [f.index EXCEPT ![n - 1] = P]
              g == Relink(f)
  <2>1. n - 1 \in 1..n /\ n \in 1..n /\ n - 1 # n /\ (n - 1) + 1 = n
    BY <1>2
  <2>2. g = [f EXCEPT !.index = I]
    BY <1>0, <1>2 DEF Relink
  <2>3. f.index \in Seq(PointRecord) /\ f.index[n - 1] \in PointRecord
    BY <1>0, <2>1 DEF Shape, Typed
  <2>4. Point(n) \in Pointer
    BY PointerFacts
  <2>5. /\ P \in PointRecord /\ P.right = Point(n)
        /\ P.nkey = f.index[n - 1].nkey /\ P.dkey = f.index[n - 1].dkey
        /\ P.left = f.index[n - 1].left /\ P.height = f.index[n - 1].height
        /\ P.dataBegin = f.index[n - 1].dataBegin /\ P.dataEnd = f.index[n - 1].dataEnd
        /\ P.replacement = f.index[n - 1].replacement
    <3>1. PICK p \in PointRecord, x \in Pointer : p = f.index[n - 1] /\ x = Point(n)
      BY <2>3, <2>4
    <3>2. /\ [p EXCEPT !.right = x] \in PointRecord /\ [p EXCEPT !.right = x].right = x
          /\ [p EXCEPT !.right = x].nkey = p.nkey /\ [p EXCEPT !.right = x].dkey = p.dkey
          /\ [p EXCEPT !.right = x].left = p.left /\ [p EXCEPT !.right = x].height = p.height
          /\ [p EXCEPT !.right = x].dataBegin = p.dataBegin
          /\ [p EXCEPT !.right = x].dataEnd = p.dataEnd
          /\ [p EXCEPT !.right = x].replacement = p.replacement
      BY DEF PointRecord
    <3>. QED
      BY <3>1, <3>2
  <2>. HIDE DEF P
  <2>6. /\ I \in Seq(PointRecord) /\ Len(I) = n /\ I[n - 1] = P
        /\ \A i \in 1..n : i # n - 1 => I[i] = f.index[i]
    BY <1>0, <2>1, <2>3, <2>5, WriteOne
  <2>. HIDE DEF I
  <2>7. /\ g.index = I /\ g.nodes = f.nodes /\ g.events = f.events /\ g.tail = f.tail
        /\ g.minKey = f.minKey /\ Typed(g)
    BY <2>2, <2>6 DEF Shape, Typed
  <2>. HIDE DEF g
  <2>8. \A i \in 1..n :
          /\ g.index[i].nkey = f.index[i].nkey /\ g.index[i].dkey = f.index[i].dkey
          /\ g.index[i].left = f.index[i].left /\ g.index[i].height = f.index[i].height
          /\ g.index[i].dataBegin = f.index[i].dataBegin /\ g.index[i].dataEnd = f.index[i].dataEnd
          /\ g.index[i].replacement = f.index[i].replacement
    BY <2>5, <2>6, <2>7
  <2>9. Len(g.index) = n /\ \A i \in 1..n : i # n - 1 => g.index[i].right = f.index[i].right
    BY <2>6, <2>7
  <2>10. g.index[n - 1].right = Point(n)
    BY <2>5, <2>6, <2>7
  <2>11. \A i \in 0..n : Under(g, i) = Under(f, i)
    <3>1. \A i \in 0..n : i # 0 => i \in 1..n
      OBVIOUS
    <3>. QED
      BY <2>8, <3>1 DEF Under
  <2>12. \A i \in 1..n : i - 1 \in 0..n /\ i \in 0..n
    OBVIOUS
  <2>13. Counted(g)
    <3>1. Counted(f)
      BY DEF Shape
    <3>2. n \in 0..n
      OBVIOUS
    <3>3. \A i \in 1..n : Under(g, i) = Under(g, i - 1) + Leaves[g.index[i].height]
      BY <1>0, <2>8, <2>11, <2>12, <3>1 DEF Counted
    <3>4. \A i, k \in 1..n : i < k => g.index[i].replacement < g.index[k].replacement
      BY <1>0, <2>8, <3>1 DEF Counted
    <3>5. Under(g, n) = Len(g.nodes)
      BY <1>0, <2>7, <2>11, <3>1, <3>2 DEF Counted
    <3>. QED
      BY <2>9, <3>3, <3>4, <3>5 DEF Counted
  <2>14. TreesOK(g)
    <3>1. ASSUME NEW i \in 1..n, NEW j \in Nat, Under(g, i - 1) < j, j < Under(g, i)
          PROVE  TreeNodeOK(g.nodes, Under(g, i - 1), j, Under(g, i), g.index[i].height)
      <4>1. Under(g, i - 1) = Under(f, i - 1) /\ Under(g, i) = Under(f, i)
        BY <2>11, <2>12
      <4>2. TreeNodeOK(f.nodes, Under(f, i - 1), j, Under(f, i), f.index[i].height)
        BY <1>0, <3>1, <4>1 DEF Shape, TreesOK
      <4>. QED
        BY <2>7, <2>8, <4>1, <4>2
    <3>. QED
      BY <2>9, <3>1 DEF TreesOK
  <2>15. KeysOK(g)
    BY <2>7 DEF Shape, KeysOK
  <2>16. \A i \in 1..n : PointOK(g, i)
    <3>1. \A i \in 1..n : PointOK(f, i)
      BY <1>0 DEF Shape
    <3>. QED
      BY <2>7, <2>8, <3>1 DEF PointOK
  <2>17. /\ \A i \in 1..(n - 2) : f.index[i].height > f.index[i + 1].height /\ f.index[i].right = Point(i + 1)
         /\ f.index[n - 1].height >= f.index[n].height /\ f.index[n].right = Null
    BY <1>0, <1>2 DEF Shape, Descending
  <2>18. f.index[n - 1].height > f.index[n].height
    <3>1. f.index[n - 1].height # f.index[n].height
      BY <1>0, <1>2 DEF LastTwoLevel
    <3>2. f.index[n - 1].height \in Nat /\ f.index[n].height \in Nat
      BY <1>0, <2>1, UnderNat
    <3>. QED
      BY <2>17, <3>1, <3>2
  <2>19. \A i \in 1..(n - 2) : i \in 1..n /\ i + 1 \in 1..n /\ i # n - 1
    OBVIOUS
  <2>20. \A i \in 1..(n - 2) : g.index[i].height > g.index[i + 1].height /\ g.index[i].right = Point(i + 1)
    BY <2>8, <2>9, <2>17, <2>19
  <2>21. g.index[n - 1].height > g.index[n].height /\ g.index[n].right = Null
    BY <2>1, <2>8, <2>9, <2>17, <2>18
  <2>22. Descending(g)
    <3>1. g.index[n - 1].height >= g.index[n].height
      <4>1. g.index[n - 1].height \in Nat /\ g.index[n].height \in Nat
        BY <1>0, <2>1, <2>8, UnderNat
      <4>. QED
        BY <2>21, <4>1
    <3>. QED
      BY <2>9, <2>20, <2>21, <3>1 DEF Descending
  <2>23. Linked(g)
    <3>1. ASSUME NEW i \in 1..(n - 1)
          PROVE  g.index[i].height > g.index[i + 1].height /\ g.index[i].right = Point(i + 1)
      <4>1. CASE i = n - 1
        BY <2>1, <2>10, <2>21, <4>1
      <4>2. CASE i # n - 1
        <5>1. i \in 1..(n - 2)
          BY <4>2
        <5>. QED
          BY <2>20, <5>1
      <4>. QED
        BY <4>1, <4>2
    <3>. QED
      BY <2>9, <3>1 DEF Linked
  <2>24. Shape(g)
    BY <2>7, <2>9, <2>13, <2>14, <2>15, <2>16, <2>22 DEF Shape
  <2>25. Keeps(f, g)
    <3>1. Len(f.nodes) \in Nat
      BY UnderNat
    <3>. QED
      BY <1>0, <2>7, <2>8, <2>9, <3>1 DEF Keeps, Settled
  <2>26. SameData(f, g)
    BY <2>7 DEF SameData
  <2>. QED
    BY <1>0, <2>9, <2>23, <2>24, <2>25, <2>26 DEF g
<1>. QED
  BY <1>1, <1>2

\* maintain_index (stab_forest.hpp:588-609).
LEMMA MaintainShape ==
  ASSUME NEW f, Shape(f)
  PROVE  LET g == MaintainIndex(f)
         IN Shape(g) /\ Linked(g) /\ Keeps(f, g) /\ SameData(f, g)
<1>. DEFINE w == Merges(f)[Len(f.index)]
            g == MaintainIndex(f)
<1>1. Shape(w) /\ Keeps(f, w) /\ ~LastTwoLevel(w) /\ SameData(f, w)
  BY MergesShape
<1>2. g = Relink(w)
  BY DEF MaintainIndex
<1>. HIDE DEF w
<1>3. Shape(g) /\ Linked(g) /\ Keeps(w, g) /\ SameData(w, g)
  BY <1>1, <1>2, RelinkShape
<1>. HIDE DEF g
<1>4. Keeps(f, g)
  <2>1. Len(f.nodes) \in Nat /\ Len(w.nodes) \in Nat /\ Len(g.nodes) \in Nat
    BY <1>1, <1>3, UnderNat
  <2>. QED
    BY <1>1, <1>3, <2>1, KeepsOn
<1>5. SameData(f, g)
  BY <1>1, <1>3 DEF SameData
<1>. QED
  BY <1>3, <1>4, <1>5 DEF g

\* What build_leaf adds (stab_forest.hpp:556-586): a node, and a forest-point for it.
LEMMA LeafParts ==
  ASSUME NEW f, Shape(f), EventsOK(f), Len(f.events) > 0
  PROVE  LET g == BuildLeaf(f)
             n == Len(f.nodes)
             m == Len(f.index)
             key == f.events[f.tail].start
         IN /\ Typed(g)
            /\ g.events = f.events /\ g.minKey = f.minKey /\ g.tail = Len(f.events) + 1
            /\ Len(g.nodes) = n + 1 /\ \A j \in 1..n : g.nodes[j] = f.nodes[j]
            /\ Len(g.index) = m + 1 /\ \A i \in 1..m : g.index[i] = f.index[i]
            /\ g.nodes[n + 1].nkey = (IF n = 0 THEN key ELSE f.nodes[n].dkey + 1)
            /\ g.nodes[n + 1].dkey = key
            /\ g.nodes[n + 1].left = Null /\ g.nodes[n + 1].right = Null
            /\ g.nodes[n + 1].height = 0
            /\ g.nodes[n + 1].dataBegin = f.tail /\ g.nodes[n + 1].dataEnd = Len(f.events) + 1
            /\ g.index[m + 1].nkey = g.nodes[n + 1].nkey /\ g.index[m + 1].dkey = key
            /\ g.index[m + 1].left = Null /\ g.index[m + 1].right = Null
            /\ g.index[m + 1].height = 0 /\ g.index[m + 1].replacement = n + 1
            /\ g.index[m + 1].dataBegin = f.tail /\ g.index[m + 1].dataEnd = Len(f.events) + 1
<1>1. /\ f.events \in Seq(Event) /\ f.nodes \in Seq(NodeRecord) /\ f.index \in Seq(PointRecord)
      /\ f.tail \in Nat /\ f.minKey \in Int
      /\ DOMAIN f = {"events", "nodes", "index", "tail", "minKey"}
  BY DEF Shape, Typed
<1>2. PICK n \in Nat, m \in Nat, l \in Nat :
        n = Len(f.nodes) /\ m = Len(f.index) /\ l = Len(f.events)
  <2>1. Len(f.nodes) \in Nat /\ Len(f.index) \in Nat /\ Len(f.events) \in Nat
    BY <1>1
  <2>. QED
    BY <2>1
<1>3. f.tail \in 1..l /\ l > 0
  BY <1>2 DEF EventsOK
<1>4. PICK key \in Int : key = f.events[f.tail].start
  <2>1. f.events[f.tail] \in Event
    BY <1>1, <1>2, <1>3
  <2>2. f.events[f.tail].start \in Timestamp
    BY <2>1, EventFields
  <2>. QED
    BY <2>2, EventFields DEF Timestamp
<1>. DEFINE first == IF f.index = <<>> THEN key ELSE Last(f.index).dkey + 1
            leaf == [nkey |-> first,
                     dkey |-> key, left |-> Null, right |-> Null, height |-> 0,
                     dataBegin |-> f.tail, dataEnd |-> l + 1,
                     nsa |-> <<>>, ded |-> <<>>, ned |-> <<>>]
            last == Reverse(EventTail(f))
            full == [leaf EXCEPT !.ded = last]
            point == AsPoint(full, n + 1)
            N == Append(f.nodes, leaf)
            I == Append(f.index, point)
            g == BuildLeaf(f)
<1>5. g = [f EXCEPT !.nodes = N, !.index = I, !.tail = l + 1]
  BY <1>2, <1>4 DEF BuildLeaf
\* the first key
<1>6. first = (IF n = 0 THEN key ELSE f.nodes[n].dkey + 1) /\ first \in Int
  <2>1. n = 0 <=> m = 0
    BY <1>2, UnderNat
  <2>2. CASE m = 0
    <3>1. f.index = <<>>
      <4>1. f.index \in Seq(PointRecord) /\ Len(f.index) = 0
        BY <1>1, <1>2, <2>2
      <4>. QED
        BY <4>1
    <3>. QED
      BY <2>1, <2>2, <3>1
  <2>3. CASE m # 0
    <3>1. f.index # <<>> /\ m \in 1..m
      BY <1>1, <1>2, <2>3
    <3>2. f.index[m].replacement = n
      BY <1>2, <3>1, UnderNat DEF Shape, Counted
    <3>3. PointOK(f, m)
      BY <1>2, <3>1 DEF Shape
    <3>4. f.index[m].dkey = f.nodes[n].dkey
      BY <3>2, <3>3 DEF PointOK
    <3>5. f.nodes[n].dkey \in Int
      <4>1. n \in 1..n
        BY <1>2, <2>1, <2>3
      <4>2. f.nodes[n] \in NodeRecord
        BY <1>1, <1>2, <4>1
      <4>. QED
        BY <4>2 DEF NodeRecord
    <3>6. Last(f.index).dkey = f.nodes[n].dkey
      BY <1>2, <3>4 DEF Last
    <3>7. n # 0
      BY <2>1, <2>3
    <3>. QED
      BY <3>1, <3>5, <3>6, <3>7
  <2>. QED
    BY <2>2, <2>3
<1>. HIDE DEF first
\* the node and the forest-point
<1>7. last \in Seq(Event)
  <2>1. f.tail \in 1..(Len(f.events) + 1) /\ Len(f.events) \in 0..Len(f.events)
    BY <1>2, <1>3
  <2>2. EventTail(f) \in Seq(Event)
    BY <1>1, <2>1, PartOf DEF EventTail
  <2>. QED
    BY <2>2, Backwards
<1>. HIDE DEF last
<1>8. Null \in Pointer /\ <<>> \in Seq(Event)
  BY PointerFacts
<1>9. leaf \in NodeRecord
  BY <1>1, <1>2, <1>6, <1>8 DEF NodeRecord
<1>10. /\ full.nkey = first /\ full.dkey = key /\ full.left = Null /\ full.right = Null
       /\ full.height = 0 /\ full.dataBegin = f.tail /\ full.dataEnd = l + 1
       /\ full.nsa = <<>> /\ full.ded = last /\ full.ned = <<>>
  OBVIOUS
<1>11. /\ leaf.nkey = first /\ leaf.dkey = key /\ leaf.left = Null /\ leaf.right = Null
       /\ leaf.height = 0 /\ leaf.dataBegin = f.tail /\ leaf.dataEnd = l + 1
  OBVIOUS
<1>. HIDE DEF full, leaf
<1>12. /\ point \in PointRecord /\ point.nkey = first /\ point.dkey = key
       /\ point.left = Null /\ point.right = Null /\ point.height = 0
       /\ point.dataBegin = f.tail /\ point.dataEnd = l + 1 /\ point.replacement = n + 1
  <2>1. n + 1 \in Nat /\ l + 1 \in Nat /\ 0 \in Nat
    BY <1>2
  <2>. QED
    BY <1>1, <1>4, <1>6, <1>7, <1>8, <1>10, <2>1, AsPointFields
<1>. HIDE DEF point
<1>13. /\ N \in Seq(NodeRecord) /\ Len(N) = n + 1 /\ N[n + 1] = leaf
       /\ \A j \in 1..n : N[j] = f.nodes[j]
  BY <1>1, <1>2, <1>9, AddOne
<1>14. /\ I \in Seq(PointRecord) /\ Len(I) = m + 1 /\ I[m + 1] = point
       /\ \A i \in 1..m : I[i] = f.index[i]
  BY <1>1, <1>2, <1>12, AddOne
<1>. HIDE DEF N, I
<1>15. /\ g.events = f.events /\ g.minKey = f.minKey /\ g.tail = l + 1
       /\ g.nodes = N /\ g.index = I /\ Typed(g)
  <2>1. l + 1 \in Nat
    BY <1>2
  <2>. QED
    BY <1>1, <1>5, <1>13, <1>14, <2>1 DEF Typed
<1>. HIDE DEF g
<1>16. /\ Len(g.nodes) = n + 1 /\ Len(g.index) = m + 1
       /\ \A j \in 1..n : g.nodes[j] = f.nodes[j]
       /\ \A i \in 1..m : g.index[i] = f.index[i]
       /\ g.nodes[n + 1] = leaf /\ g.index[m + 1] = point
  BY <1>13, <1>14, <1>15
<1>. QED
  BY <1>2, <1>4, <1>6, <1>11, <1>12, <1>15, <1>16 DEF g

\* A leaf fits the shape.
LEMMA LeafShape ==
  ASSUME NEW f, Shape(f), Linked(f), EventsOK(f), Len(f.events) > 0
  PROVE  LET g == BuildLeaf(f)
         IN /\ Shape(g) /\ Keeps(f, g)
            /\ g.events = f.events /\ g.minKey = f.minKey /\ g.tail = Len(f.events) + 1
            /\ Len(g.nodes) = Len(f.nodes) + 1
            /\ g.nodes[Len(g.nodes)].dkey = f.events[f.tail].start
<1>1. PICK n \in Nat, m \in Nat, l \in Nat :
        n = Len(f.nodes) /\ m = Len(f.index) /\ l = Len(f.events)
  <2>1. Len(f.nodes) \in Nat /\ Len(f.index) \in Nat /\ Len(f.events) \in Nat
    BY DEF Shape, Typed
  <2>. QED
    BY <2>1
<1>2. PICK key : key = f.events[f.tail].start
  OBVIOUS
<1>. DEFINE g == BuildLeaf(f)
<1>3. /\ Typed(g)
      /\ g.events = f.events /\ g.minKey = f.minKey /\ g.tail = l + 1
      /\ Len(g.nodes) = n + 1 /\ \A j \in 1..n : g.nodes[j] = f.nodes[j]
      /\ Len(g.index) = m + 1 /\ \A i \in 1..m : g.index[i] = f.index[i]
      /\ g.nodes[n + 1].nkey = (IF n = 0 THEN key ELSE f.nodes[n].dkey + 1)
      /\ g.nodes[n + 1].dkey = key
      /\ g.nodes[n + 1].left = Null /\ g.nodes[n + 1].right = Null
      /\ g.nodes[n + 1].height = 0
      /\ g.nodes[n + 1].dataBegin = f.tail /\ g.nodes[n + 1].dataEnd = l + 1
      /\ g.index[m + 1].nkey = g.nodes[n + 1].nkey /\ g.index[m + 1].dkey = key
      /\ g.index[m + 1].left = Null /\ g.index[m + 1].right = Null
      /\ g.index[m + 1].height = 0 /\ g.index[m + 1].replacement = n + 1
      /\ g.index[m + 1].dataBegin = f.tail /\ g.index[m + 1].dataEnd = l + 1
  BY <1>1, <1>2, LeafParts
<1>. HIDE DEF g
<1>4. \A i \in 0..m : Under(g, i) = Under(f, i) /\ Under(f, i) \in 0..n
  <2>1. \A i \in 0..m : i # 0 => i \in 1..m
    OBVIOUS
  <2>2. \A i \in 0..m : Under(f, i) \in 0..n
    BY <1>1, UnderNat
  <2>. QED
    BY <1>3, <2>1, <2>2 DEF Under
<1>5. Under(f, m) = n /\ m \in 0..m
  BY <1>1 DEF Shape, Counted
<1>6. Under(g, m + 1) = n + 1
  <2>1. m + 1 # 0
    OBVIOUS
  <2>. QED
    BY <1>3, <2>1 DEF Under
<1>7. \A i \in 1..m : i \in 0..m /\ i - 1 \in 0..m /\ f.index[i].replacement \in 1..n
                      /\ f.index[i].height \in Nat
  <2>1. \A i \in 1..m : i \in 0..m /\ i - 1 \in 0..m
    OBVIOUS
  <2>2. \A i \in 1..m : f.index[i].replacement \in 1..n
    BY <1>1 DEF Shape, PointOK
  <2>. QED
    BY <1>1, <2>1, <2>2, UnderNat
<1>8. \A i \in 1..(m + 1) : i \in 1..m \/ i = m + 1
  OBVIOUS
<1>9. Counted(g)
  <2>1. ASSUME NEW i \in 1..(m + 1)
        PROVE  Under(g, i) = Under(g, i - 1) + Leaves[g.index[i].height]
    <3>1. CASE i = m + 1
      <4>1. i - 1 = m /\ Leaves[0] = 1
        BY <3>1, LeavesDouble
      <4>. QED
        BY <1>3, <1>4, <1>5, <1>6, <3>1, <4>1
    <3>2. CASE i # m + 1
      <4>1. i \in 1..m
        BY <1>8, <3>2
      <4>2. Under(f, i) = Under(f, i - 1) + Leaves[f.index[i].height]
        BY <1>1, <4>1 DEF Shape, Counted
      <4>. QED
        BY <1>3, <1>4, <1>7, <4>1, <4>2
    <3>. QED
      BY <3>1, <3>2
  <2>2. ASSUME NEW i \in 1..(m + 1), NEW k \in 1..(m + 1), i < k
        PROVE  g.index[i].replacement < g.index[k].replacement
    <3>1. i \in 1..m
      BY <2>2
    <3>2. CASE k = m + 1
      BY <1>3, <1>7, <3>1, <3>2
    <3>3. CASE k # m + 1
      <4>1. k \in 1..m
        BY <1>8, <3>3
      <4>. QED
        BY <1>1, <1>3, <2>2, <3>1, <4>1 DEF Shape, Counted
    <3>. QED
      BY <3>2, <3>3
  <2>. QED
    BY <1>3, <1>6, <2>1, <2>2 DEF Counted
<1>10. TreesOK(g)
  <2>1. ASSUME NEW i \in 1..(m + 1), NEW j \in Nat, Under(g, i - 1) < j, j < Under(g, i)
        PROVE  TreeNodeOK(g.nodes, Under(g, i - 1), j, Under(g, i), g.index[i].height)
    <3>1. CASE i = m + 1
      <4>1. i - 1 = m
        BY <3>1
      <4>2. n < j /\ j < n + 1
        BY <1>4, <1>5, <1>6, <2>1, <3>1, <4>1
      <4>. QED
        BY <4>2
    <3>2. CASE i # m + 1
      <4>1. i \in 1..m /\ i - 1 \in 0..m /\ i \in 0..m
        BY <1>7, <1>8, <3>2
      <4>2. PICK lo \in 0..n, hi \in 0..n : lo = Under(f, i - 1) /\ hi = Under(f, i)
        BY <1>4, <4>1
      <4>3. Under(g, i - 1) = lo /\ Under(g, i) = hi /\ g.index[i] = f.index[i]
        BY <1>3, <1>4, <4>1, <4>2
      <4>4. TreeNodeOK(f.nodes, lo, j, hi, f.index[i].height)
        BY <1>1, <2>1, <4>1, <4>2, <4>3 DEF Shape, TreesOK
      <4>5. \A x \in Nat : lo < x /\ x < hi => g.nodes[x] = f.nodes[x]
        BY <1>3
      <4>6. f.nodes[j].height \in Nat
        <5>1. f.nodes \in Seq(NodeRecord) /\ j \in 1..n
          BY <2>1, <4>3 DEF Shape, Typed
        <5>2. f.nodes[j] \in NodeRecord
          BY <1>1, <5>1
        <5>. QED
          BY <5>2 DEF NodeRecord
      <4>7. f.index[i].height \in Nat /\ lo \in Nat /\ hi \in Nat /\ lo < j /\ j < hi
        BY <1>7, <2>1, <4>1, <4>3
      <4>. QED
        BY <4>3, <4>4, <4>5, <4>6, <4>7, TreeNodeKept
    <3>. QED
      BY <3>1, <3>2
  <2>. QED
    BY <1>3, <2>1 DEF TreesOK
<1>11. ASSUME NEW i \in 1..(m + 1) PROVE PointOK(g, i)
  <2>1. CASE i = m + 1
    <3>1. n + 1 \in 1..(n + 1) /\ LeftOf(n + 1, 0) = Null
      BY DEF LeftOf
    <3>. QED
      BY <1>3, <2>1, <3>1 DEF PointOK
  <2>2. CASE i # m + 1
    <3>1. i \in 1..m /\ g.index[i] = f.index[i] /\ PointOK(f, i)
      BY <1>1, <1>3, <1>8, <2>2 DEF Shape
    <3>2. PICK t \in 1..n : t = f.index[i].replacement
      BY <1>7, <3>1
    <3>3. g.nodes[t] = f.nodes[t] /\ t \in 1..Len(g.nodes)
      BY <1>3
    <3>4. f.index[i].height > 0 =>
            g.nodes[t - Leaves[f.index[i].height - 1]] = f.nodes[t - Leaves[f.index[i].height - 1]]
      <4>1. ASSUME f.index[i].height > 0
            PROVE  t - Leaves[f.index[i].height - 1] \in 1..n
        BY <1>1, <3>1, <3>2, <4>1, PointChild
      <4>. QED
        BY <1>3, <4>1
    <3>. QED
      BY <3>1, <3>2, <3>3, <3>4 DEF PointOK
  <2>. QED
    BY <2>1, <2>2
<1>12. KeysOK(g)
  <2>0. f.tail \in 1..l /\ l > 0
    BY <1>1 DEF EventsOK
  <2>1. key \in Timestamp /\ key \in Int
    <3>1. f.events \in Seq(Event)
      BY DEF Shape, Typed
    <3>2. f.events[f.tail] \in Event
      BY <1>1, <2>0, <3>1
    <3>. QED
      BY <1>2, <3>2, EventFields DEF Timestamp
  <2>2. n > 0 => /\ n \in 1..n /\ f.nodes[n].dkey \in Timestamp /\ f.nodes[n].dkey < key
    <3>1. ASSUME n > 0 PROVE n \in 1..n
      BY <3>1
    <3>. QED
      BY <1>1, <1>2, <3>1 DEF Shape, KeysOK, EventsOK
  <2>3. /\ g.nodes[n + 1].nkey \in Timestamp /\ g.nodes[n + 1].dkey \in Timestamp
        /\ g.nodes[n + 1].nkey <= g.nodes[n + 1].dkey
    <3>1. CASE n = 0
      BY <1>3, <2>1, <3>1
    <3>2. CASE n # 0
      <4>1. PICK d \in Timestamp : d = f.nodes[n].dkey /\ d < key
        BY <2>2, <3>2
      <4>2. d + 1 \in Timestamp /\ d + 1 <= key
        BY <2>1, <4>1, EventFields DEF Timestamp
      <4>. QED
        BY <1>3, <2>1, <3>2, <4>1, <4>2
    <3>. QED
      BY <3>1, <3>2
  <2>4. ASSUME NEW j \in 1..(n + 1)
        PROVE  /\ g.nodes[j].nkey \in Timestamp /\ g.nodes[j].dkey \in Timestamp
               /\ g.nodes[j].nkey <= g.nodes[j].dkey
               /\ 1 <= g.nodes[j].dataBegin /\ g.nodes[j].dataBegin < g.nodes[j].dataEnd
               /\ g.nodes[j].dataEnd <= g.tail
    <3>1. CASE j = n + 1
      BY <1>3, <2>0, <2>3, <3>1
    <3>2. CASE j # n + 1
      <4>1. j \in 1..n
        BY <3>2
      <4>2. g.nodes[j] = f.nodes[j] /\ f.nodes[j] \in NodeRecord
        <5>1. f.nodes \in Seq(NodeRecord)
          BY DEF Shape, Typed
        <5>. QED
          BY <1>1, <1>3, <4>1, <5>1
      <4>3. f.nodes[j].dataEnd \in Nat
        BY <4>2 DEF NodeRecord
      <4>4. f.nodes[j].dataEnd <= f.tail
        BY <1>1, <4>1 DEF Shape, KeysOK
      <4>5. f.nodes[j].dataEnd <= l + 1
        BY <2>0, <4>3, <4>4
      <4>. QED
        BY <1>1, <1>3, <4>1, <4>2, <4>5 DEF Shape, KeysOK
    <3>. QED
      BY <3>1, <3>2
  <2>5. ASSUME NEW j \in 1..n PROVE g.nodes[j + 1].nkey = g.nodes[j].dkey + 1
    <3>1. CASE j = n
      BY <1>3, <3>1
    <3>2. CASE j # n
      <4>1. j \in 1..(n - 1) /\ j + 1 \in 1..n
        BY <3>2
      <4>. QED
        BY <1>1, <1>3, <4>1 DEF Shape, KeysOK
    <3>. QED
      BY <3>1, <3>2
  <2>6. g.nodes[1].nkey = g.minKey
    <3>1. CASE n = 0
      <4>1. f.tail = 1 /\ f.minKey = f.events[1].start
        BY <1>1, <2>0, <3>1 DEF EventsOK
      <4>. QED
        BY <1>2, <1>3, <3>1, <4>1
    <3>2. CASE n # 0
      <4>1. 1 \in 1..n /\ n > 0
        BY <3>2
      <4>. QED
        BY <1>1, <1>3, <4>1 DEF Shape, KeysOK
    <3>. QED
      BY <3>1, <3>2
  <2>7. (n + 1) - 1 = n
    OBVIOUS
  <2>. QED
    BY <1>3, <2>4, <2>5, <2>6, <2>7 DEF KeysOK
<1>13. Descending(g)
  <2>1. ASSUME NEW i \in 1..(m - 1)
        PROVE  g.index[i].height > g.index[i + 1].height /\ g.index[i].right = Point(i + 1)
    <3>1. i \in 1..m /\ i + 1 \in 1..m
      OBVIOUS
    <3>. QED
      BY <1>1, <1>3, <3>1 DEF Linked
  <2>2. m + 1 > 1 => g.index[m].height >= g.index[m + 1].height
    <3>1. ASSUME m + 1 > 1 PROVE m \in 1..m
      BY <3>1
    <3>2. g.index[m + 1].height = 0 /\ \A i \in 1..m : g.index[i].height \in Nat
      BY <1>3, <1>7
    <3>. QED
      BY <3>1, <3>2
  <2>3. (m + 1) - 1 = m /\ (m + 1) - 2 = m - 1
    OBVIOUS
  <2>. QED
    BY <1>3, <2>1, <2>2, <2>3 DEF Descending
<1>14. Shape(g)
  BY <1>3, <1>9, <1>10, <1>11, <1>12, <1>13 DEF Shape
<1>15. Keeps(f, g)
  <2>1. ASSUME NEW j \in Settled(f) PROVE g.nodes[j] = f.nodes[j] /\ j \in Settled(g)
    <3>1. j \in 1..n /\ \A i \in 1..m : f.index[i].replacement # j
      BY <1>1 DEF Settled
    <3>2. ASSUME NEW i \in 1..(m + 1) PROVE g.index[i].replacement # j
      <4>1. g.index[m + 1].replacement = n + 1 /\ n + 1 # j
        BY <1>3, <3>1
      <4>2. \A k \in 1..m : g.index[k].replacement # j
        BY <1>3, <3>1
      <4>. QED
        BY <1>8, <4>1, <4>2
    <3>. QED
      BY <1>3, <3>1, <3>2 DEF Settled
  <2>. QED
    BY <1>1, <1>3, <2>1 DEF Keeps
<1>. QED
  BY <1>1, <1>2, <1>3, <1>14, <1>15 DEF g

\* Only the nodes, the index and the first key are in the shape, so that events may follow.
LEMMA ShapeOfEvents ==
  ASSUME NEW g, Shape(g), NEW s \in Seq(Event)
  PROVE  LET h == [g EXCEPT !.events = s]
         IN /\ Shape(h) /\ Keeps(g, h) /\ (Linked(g) => Linked(h))
            /\ h.events = s /\ h.nodes = g.nodes /\ h.index = g.index
            /\ h.tail = g.tail /\ h.minKey = g.minKey
<1>. DEFINE h == [g EXCEPT !.events = s]
<1>1. /\ h.events = s /\ h.nodes = g.nodes /\ h.index = g.index
      /\ h.tail = g.tail /\ h.minKey = g.minKey /\ Typed(h)
  BY DEF Shape, Typed
<1>. HIDE DEF h
<1>2. \A i : Under(h, i) = Under(g, i)
  BY <1>1 DEF Under
<1>3. Counted(h) /\ TreesOK(h) /\ KeysOK(h) /\ Descending(h) /\ \A i \in 1..Len(h.index) : PointOK(h, i)
  <2>1. Counted(h)
    BY <1>1, <1>2 DEF Shape, Counted
  <2>2. TreesOK(h)
    BY <1>1, <1>2 DEF Shape, TreesOK
  <2>3. KeysOK(h)
    BY <1>1 DEF Shape, KeysOK
  <2>4. Descending(h)
    BY <1>1 DEF Shape, Descending
  <2>5. \A i \in 1..Len(h.index) : PointOK(h, i)
    BY <1>1 DEF Shape, PointOK
  <2>. QED
    BY <2>1, <2>2, <2>3, <2>4, <2>5
<1>4. Keeps(g, h)
  <2>1. Len(g.nodes) \in Nat
    BY UnderNat
  <2>. QED
    BY <1>1, <2>1 DEF Keeps, Settled
<1>5. Linked(g) => Linked(h)
  BY <1>1 DEF Linked
<1>. QED
  BY <1>1, <1>3, <1>4, <1>5 DEF Shape, h

\* An event that is not before the last one keeps the list in order.
LEMMA OrderedMore ==
  ASSUME NEW s \in Seq(Event), NEW e \in Event, Ordered(s), Len(s) > 0 => AtOrBefore(s[Len(s)], e)
  PROVE  Ordered(Append(s, e))
<1>1. PICK n \in Nat : n = Len(s)
  OBVIOUS
<1>. DEFINE t == Append(s, e)
<1>2. Len(t) = n + 1 /\ t[n + 1] = e /\ (\A i \in 1..n : t[i] = s[i]) /\ DOMAIN t = 1..(n + 1)
      /\ DOMAIN s = 1..n /\ \A i \in 1..n : s[i] \in Event
  BY <1>1
<1>. HIDE DEF t
<1>3. \A x, y, z \in Event : AtOrBefore(x, y) /\ AtOrBefore(y, z) => AtOrBefore(x, z)
  <2>1. \A x \in Event : x.start \in Int /\ x.end \in Int
    BY EventFields DEF Timestamp
  <2>. QED
    BY <2>1 DEF AtOrBefore
<1>4. ASSUME NEW i \in 1..(n + 1), NEW j \in 1..(n + 1), i < j PROVE AtOrBefore(t[i], t[j])
  <2>1. i \in 1..n
    BY <1>4
  <2>2. CASE j = n + 1
    <3>1. n \in 1..n /\ (i < n \/ i = n)
      BY <2>1
    <3>2. AtOrBefore(s[n], e) /\ s[n] \in Event /\ s[i] \in Event
      BY <1>1, <1>2, <2>1, <3>1
    <3>3. i < n => AtOrBefore(s[i], s[n])
      BY <1>2, <2>1, <3>1 DEF Ordered
    <3>4. AtOrBefore(s[i], e)
      BY <1>3, <3>1, <3>2, <3>3
    <3>. QED
      BY <1>2, <2>1, <2>2, <3>4
  <2>3. CASE j # n + 1
    <3>1. j \in 1..n
      BY <2>3
    <3>. QED
      BY <1>2, <1>4, <2>1, <3>1 DEF Ordered
  <2>. QED
    BY <2>2, <2>3
<1>. QED
  BY <1>2, <1>4 DEF Ordered, t

\* append_event (stab_forest.hpp:542-554) keeps the invariant and writes nothing settled.
LEMMA AppendKeeps ==
  ASSUME NEW f, ForestInv(f), NEW e \in Event,
         f.events # <<>> => AtOrBefore(Last(f.events), e)
  PROVE  ForestInv(AppendEvent(f, e)) /\ Keeps(f, AppendEvent(f, e))
<1>1. Shape(f) /\ Linked(f) /\ EventsOK(f) /\ f.events \in Seq(Event)
  BY DEF ForestInv, Shape, Typed
<1>2. PICK n \in Nat, l \in Nat : n = Len(f.nodes) /\ l = Len(f.events)
  <2>1. Len(f.nodes) \in Nat /\ Len(f.events) \in Nat
    BY <1>1, UnderNat
  <2>. QED
    BY <2>1
<1>. DEFINE s == Append(f.events, e)
            z == AppendEvent(f, e)
<1>3. /\ s \in Seq(Event) /\ Len(s) = l + 1 /\ s[l + 1] = e /\ \A i \in 1..l : s[i] = f.events[i]
  BY <1>1, <1>2
<1>4. Ordered(s)
  <2>1. Ordered(f.events)
    BY <1>1 DEF EventsOK
  <2>2. Len(f.events) > 0 => AtOrBefore(f.events[Len(f.events)], e)
    BY <1>1 DEF Last
  <2>. QED
    BY <1>1, <2>1, <2>2, OrderedMore
<1>5. f.events = <<>> <=> l = 0
  BY <1>1, <1>2
<1>6. e.start \in Int
  BY EventFields DEF Timestamp
<1>. HIDE DEF s
<1>7. CASE l = 0
  <2>1. z = [f EXCEPT !.events = <<e>>, !.minKey = e.start]
    BY <1>5, <1>7 DEF AppendEvent
  <2>2. n = 0 /\ f.tail = 1 /\ Len(f.index) = 0
    <3>1. n = 0
      BY <1>1, <1>2, <1>7 DEF EventsOK
    <3>2. f.tail = 1
      BY <1>1, <1>2, <3>1 DEF EventsOK
    <3>. QED
      BY <1>1, <1>2, <3>1, <3>2, UnderNat
  <2>3. /\ z.events = <<e>> /\ z.nodes = f.nodes /\ z.index = f.index
        /\ z.tail = 1 /\ z.minKey = e.start /\ Typed(z)
    <3>1. <<e>> \in Seq(Event)
      OBVIOUS
    <3>. QED
      BY <1>1, <1>6, <2>1, <2>2, <3>1 DEF Shape, Typed
  <2>. HIDE DEF z
  <2>4. Len(z.nodes) = 0 /\ Len(z.index) = 0 /\ Len(z.events) = 1 /\ z.events[1] = e
    <3>1. Len(z.nodes) = 0 /\ Len(z.index) = 0
      BY <1>2, <2>2, <2>3
    <3>2. z.events = <<e>>
      BY <2>3
    <3>3. Len(<<e>>) = 1 /\ <<e>>[1] = e
      OBVIOUS
    <3>. QED
      BY <3>1, <3>2, <3>3
  <2>5. Shape(z)
    <3>1. Counted(z)
      BY <2>4 DEF Counted, Under
    <3>2. TreesOK(z)
      BY <2>4 DEF TreesOK
    <3>3. KeysOK(z)
      <4>1. ~(0 > 0) /\ (\A j \in 1..0 : FALSE) /\ (\A j \in 1..(0 - 1) : FALSE)
        OBVIOUS
      <4>. QED
        BY <2>4, <4>1 DEF KeysOK
    <3>4. Descending(z)
      <4>1. ~(0 > 0) /\ ~(0 > 1) /\ (\A j \in 1..(0 - 2) : FALSE)
        OBVIOUS
      <4>. QED
        BY <2>4, <4>1 DEF Descending
    <3>5. \A i \in 1..Len(z.index) : PointOK(z, i)
      BY <2>4
    <3>. QED
      BY <2>3, <3>1, <3>2, <3>3, <3>4, <3>5 DEF Shape
  <2>6. Linked(z)
    <3>1. \A j \in 1..(0 - 1) : FALSE
      OBVIOUS
    <3>. QED
      BY <2>4, <3>1 DEF Linked
  <2>7. EventsOK(z)
    <3>1. Ordered(z.events)
      <4>1. DOMAIN z.events = 1..1
        BY <2>3
      <4>. QED
        BY <4>1 DEF Ordered
    <3>. QED
      BY <2>3, <2>4, <3>1 DEF EventsOK
  <2>8. Keeps(f, z)
    <3>1. Len(f.nodes) <= Len(z.nodes)
      BY <1>2, <2>3
    <3>2. ~\E j : j \in Settled(f)
      <4>1. \A j \in 1..0 : FALSE
        OBVIOUS
      <4>. QED
        BY <1>2, <2>2, <4>1 DEF Settled
    <3>. QED
      BY <3>1, <3>2 DEF Keeps
  <2>. QED
    BY <2>5, <2>6, <2>7, <2>8 DEF ForestInv, z
<1>8. CASE l > 0 /\ e.start = Last(f.events).start
  <2>1. z = [f EXCEPT !.events = s]
    <3>1. f.events # <<>> /\ ~(e.start # Last(f.events).start)
      BY <1>5, <1>8
    <3>. QED
      BY <3>1 DEF AppendEvent, s
  <2>2. /\ Shape(z) /\ Keeps(f, z) /\ Linked(z)
        /\ z.events = s /\ z.nodes = f.nodes /\ z.tail = f.tail /\ z.minKey = f.minKey
    BY <1>1, <1>3, <2>1, ShapeOfEvents
  <2>. HIDE DEF z
  <2>3. f.tail \in 1..l /\ 1 \in 1..l /\ l \in 1..l
    BY <1>1, <1>2, <1>8 DEF EventsOK
  <2>4. e.start = f.events[f.tail].start
    BY <1>1, <1>2, <1>8, <2>3 DEF EventsOK, Last
  <2>5. s[f.tail].start = f.events[f.tail].start /\ s[1] = f.events[1]
    BY <1>3, <2>3
  <2>6. EventsOK(z)
    <3>1. ASSUME NEW i \in 1..(l + 1), f.tail <= i PROVE s[i].start = s[f.tail].start
      <4>1. CASE i = l + 1
        BY <1>3, <2>4, <2>5, <4>1
      <4>2. CASE i # l + 1
        <5>1. i \in 1..l
          BY <4>2
        <5>. QED
          BY <1>1, <1>2, <1>3, <2>5, <3>1, <5>1 DEF EventsOK
      <4>. QED
        BY <4>1, <4>2
    <3>2. f.tail \in 1..((l + 1) + 1) /\ f.tail <= l + 1
      BY <2>3
    <3>3. f.minKey = s[1].start
      BY <1>1, <1>2, <1>8, <2>5 DEF EventsOK
    <3>4. Len(f.nodes) = 0 => f.tail = 1
      BY <1>1 DEF EventsOK
    <3>5. Len(f.nodes) > 0 => f.nodes[Len(f.nodes)].dkey < s[f.tail].start
      BY <1>1, <2>5 DEF EventsOK
    <3>6. l + 1 > 0
      OBVIOUS
    <3>. QED
      BY <1>3, <1>4, <2>2, <3>1, <3>2, <3>3, <3>4, <3>5, <3>6 DEF EventsOK
  <2>. QED
    BY <2>2, <2>6 DEF ForestInv, z
<1>9. CASE l > 0 /\ e.start # Last(f.events).start
  <2>. DEFINE p == BuildLeaf(f)
              g == MaintainIndex(p)
  <2>1. z = [g EXCEPT !.events = Append(g.events, e)]
    <3>1. f.events # <<>>
      BY <1>5, <1>9
    <3>. QED
      BY <1>9, <3>1 DEF AppendEvent
  <2>2. /\ Shape(p) /\ Keeps(f, p) /\ p.events = f.events /\ p.minKey = f.minKey /\ p.tail = l + 1
        /\ Len(p.nodes) = n + 1 /\ p.nodes[n + 1].dkey = f.events[f.tail].start
    <3>1. Len(f.events) > 0
      BY <1>2, <1>9
    <3>2. /\ Shape(p) /\ Keeps(f, p) /\ p.events = f.events /\ p.minKey = f.minKey
          /\ p.tail = Len(f.events) + 1 /\ Len(p.nodes) = Len(f.nodes) + 1
          /\ p.nodes[Len(p.nodes)].dkey = f.events[f.tail].start
      BY <1>1, <3>1, LeafShape
    <3>. QED
      BY <1>2, <3>2
  <2>. HIDE DEF p
  <2>3. Shape(g) /\ Linked(g) /\ Keeps(p, g) /\ SameData(p, g)
    BY <2>2, MaintainShape
  <2>. HIDE DEF g
  <2>4. /\ g.events = f.events /\ g.minKey = f.minKey /\ g.tail = l + 1 /\ Len(g.nodes) = n + 1
        /\ g.nodes[n + 1].dkey = f.events[f.tail].start
    <3>1. n + 1 \in 1..(n + 1)
      OBVIOUS
    <3>. QED
      BY <2>2, <2>3, <3>1 DEF SameData
  <2>5. z = [g EXCEPT !.events = s]
    BY <2>1, <2>4 DEF s
  <2>6. /\ Shape(z) /\ Keeps(g, z) /\ Linked(z)
        /\ z.events = s /\ z.nodes = g.nodes /\ z.tail = g.tail /\ z.minKey = g.minKey
    BY <1>3, <2>3, <2>5, ShapeOfEvents
  <2>. HIDE DEF z
  <2>7. Keeps(f, z)
    <3>1. Len(f.nodes) \in Nat /\ Len(p.nodes) \in Nat /\ Len(g.nodes) \in Nat /\ Len(z.nodes) \in Nat
      BY <1>1, <2>2, <2>3, <2>6, UnderNat
    <3>2. Keeps(p, z)
      BY <2>3, <2>6, <3>1, KeepsOn
    <3>. QED
      BY <2>2, <3>1, <3>2, KeepsOn
  <2>8. f.tail \in 1..l /\ 1 \in 1..l /\ l \in 1..l
    BY <1>1, <1>2, <1>9 DEF EventsOK
  <2>9. f.events[l].start = f.events[f.tail].start
    BY <1>1, <1>2, <2>8 DEF EventsOK
  <2>10. f.events[f.tail].start < e.start
    <3>1. AtOrBefore(f.events[l], e)
      BY <1>2, <1>5, <1>9 DEF Last
    <3>2. f.events[l].start # e.start
      BY <1>2, <1>9 DEF Last
    <3>. QED
      BY <2>9, <3>1, <3>2 DEF AtOrBefore
  <2>11. EventsOK(z)
    <3>1. ASSUME NEW i \in 1..(l + 1), l + 1 <= i PROVE s[i].start = s[l + 1].start
      <4>1. i = l + 1
        BY <3>1
      <4>. QED
        BY <4>1
    <3>2. l + 1 \in 1..((l + 1) + 1) /\ l + 1 <= l + 1 /\ l + 1 > 0 /\ n + 1 # 0
      OBVIOUS
    <3>3. f.minKey = s[1].start
      BY <1>1, <1>2, <1>3, <1>9, <2>8 DEF EventsOK
    <3>4. g.nodes[n + 1].dkey < s[l + 1].start
      BY <1>3, <2>4, <2>10
    <3>. QED
      BY <1>3, <1>4, <2>4, <2>6, <3>1, <3>2, <3>3, <3>4 DEF EventsOK
  <2>. QED
    BY <2>6, <2>7, <2>11 DEF ForestInv, z
<1>. QED
  BY <1>7, <1>8, <1>9

---------------------------------------------------------------------------------
(* What the shape says of pointers. *)

\* A node strictly between two that forest-points stand for is settled.
LEMMA Between ==
  ASSUME NEW f, Shape(f), NEW i \in 1..Len(f.index), NEW x \in Nat,
         Under(f, i - 1) < x, x < Under(f, i)
  PROVE  x \in Settled(f)
<1>1. PICK n \in Nat, m \in Nat, u \in Nat, v \in Nat :
        n = Len(f.nodes) /\ m = Len(f.index) /\ u = Under(f, i - 1) /\ v = Under(f, i) /\ v <= n
  <2>1. Len(f.nodes) \in Nat /\ Len(f.index) \in Nat /\ i - 1 \in 0..Len(f.index)
    BY UnderNat
  <2>2. Under(f, i - 1) \in 0..Len(f.nodes) /\ Under(f, i) \in 0..Len(f.nodes)
    BY <2>1, UnderNat
  <2>. QED
    BY <2>1, <2>2
<1>2. \A k \in 1..m : Under(f, k) = f.index[k].replacement /\ f.index[k].replacement \in 1..n
  BY <1>1, UnderNat DEF Shape, PointOK
<1>3. \A k, l \in 1..m : k < l => f.index[k].replacement < f.index[l].replacement
  BY <1>1 DEF Shape, Counted
<1>4. ASSUME NEW k \in 1..m PROVE f.index[k].replacement # x
  <2>1. CASE k < i
    <3>1. i - 1 \in 1..m /\ i - 1 # 0 /\ (k = i - 1 \/ k < i - 1)
      BY <1>1, <2>1
    <3>2. f.index[i - 1].replacement = u
      BY <1>1, <1>2, <3>1
    <3>3. f.index[k].replacement <= u
      BY <1>2, <1>3, <3>1, <3>2
    <3>. QED
      BY <1>1, <1>2, <3>3
  <2>2. CASE ~(k < i)
    <3>1. i \in 1..m /\ (k = i \/ i < k)
      BY <1>1, <2>2
    <3>2. f.index[i].replacement = v
      BY <1>1, <1>2
    <3>3. v <= f.index[k].replacement
      BY <1>2, <1>3, <3>1, <3>2
    <3>. QED
      BY <1>1, <1>2, <3>3
  <2>. QED
    BY <2>1, <2>2
<1>5. x \in 1..n
  BY <1>1
<1>. QED
  BY <1>1, <1>4, <1>5 DEF Settled

\* Every node is under one forest-point.
LEMMA Covered ==
  ASSUME NEW f, Shape(f), NEW j \in 1..Len(f.nodes)
  PROVE  \E i \in 1..Len(f.index) : Under(f, i - 1) < j /\ j <= Under(f, i)
<1>1. PICK n \in Nat, m \in Nat : n = Len(f.nodes) /\ m = Len(f.index)
  <2>1. Len(f.nodes) \in Nat /\ Len(f.index) \in Nat
    BY UnderNat
  <2>. QED
    BY <2>1
<1>2. \A i \in 0..m : Under(f, i) \in 0..n
  BY <1>1, UnderNat
<1>. DEFINE S == {i \in 0..m : j <= Under(f, i)}
<1>3. m \in S
  <2>1. Under(f, m) = n /\ m \in 0..m
    BY <1>1 DEF Shape, Counted
  <2>. QED
    BY <1>1, <2>1
<1>4. PICK i \in S : \A k \in S : i <= k
  <2>1. S \in SUBSET Nat /\ S # {}
    BY <1>3
  <2>. HIDE DEF S
  <2>. QED
    BY <2>1, NatMin
<1>5. i # 0
  <2>1. Under(f, 0) = 0
    BY DEF Under
  <2>. QED
    BY <1>1, <2>1
<1>6. i \in 1..m /\ i - 1 \in 0..m /\ ~(i <= i - 1)
  BY <1>5
<1>7. i - 1 \notin S
  <2>. HIDE DEF S
  <2>. QED
    BY <1>4, <1>6
<1>8. Under(f, i - 1) < j
  BY <1>1, <1>2, <1>6, <1>7
<1>. QED
  BY <1>1, <1>6, <1>8

\* The pointers of a node that is no forest-point's, and those of the others.
LEMMA NodeChildren ==
  ASSUME NEW f, Shape(f), NEW j \in 1..Len(f.nodes), NEW p \in {f.nodes[j].left, f.nodes[j].right}
  PROVE  p = Null \/ \E x \in Settled(f) : p = Tree(x)
<1>1. PICK i \in 1..Len(f.index) : Under(f, i - 1) < j /\ j <= Under(f, i)
  BY Covered
<1>2. PICK lo \in Nat, hi \in Nat : lo = Under(f, i - 1) /\ hi = Under(f, i)
  <2>1. i - 1 \in 0..Len(f.index) /\ i \in 0..Len(f.index) /\ Len(f.nodes) \in Nat
    BY UnderNat
  <2>2. Under(f, i - 1) \in 0..Len(f.nodes) /\ Under(f, i) \in 0..Len(f.nodes)
    BY <2>1, UnderNat
  <2>. QED
    BY <2>2
<1>3. CASE j = hi
  <2>1. j = f.index[i].replacement
    BY <1>2, <1>3, UnderNat
  <2>. QED
    BY <2>1 DEF Shape, PointOK
<1>4. CASE j # hi
  <2>1. lo < j /\ j < hi /\ j \in Nat
    BY <1>1, <1>2, <1>4
  <2>2. TreeNodeOK(f.nodes, lo, j, hi, f.index[i].height)
    BY <1>1, <1>2, <2>1 DEF Shape, TreesOK
  <2>3. PICK h \in Nat : h = f.nodes[j].height
    <3>1. f.nodes \in Seq(NodeRecord)
      BY DEF Shape, Typed
    <3>2. f.nodes[j] \in NodeRecord
      BY <3>1
    <3>. QED
      BY <3>2 DEF NodeRecord
  <2>4. CASE h = 0
    BY <2>2, <2>3, <2>4 DEF TreeNodeOK, LeftOf, RightOf
  <2>5. CASE h # 0
    <3>1. PICK q \in Nat, k \in Nat : q = Leaves[h - 1] /\ q > 0 /\ k = Leaves[h] /\ k = 2 * q
      <4>1. h - 1 \in Nat /\ (h - 1) + 1 = h
        BY <2>5
      <4>2. Leaves[h - 1] \in Nat /\ Leaves[h - 1] > 0 /\ Leaves[(h - 1) + 1] = 2 * Leaves[h - 1]
        BY <4>1, LeavesDouble
      <4>. QED
        BY <4>1, <4>2
    <3>2. lo <= j - k /\ j + k <= hi
      BY <2>2, <2>3, <3>1 DEF TreeNodeOK
    <3>3. k = 2 * q /\ q > 0
      BY <3>1
    <3>4. /\ j - q \in Nat /\ lo < j - q /\ j - q < hi
          /\ j + q \in Nat /\ lo < j + q /\ j + q < hi
      BY <2>1, <3>2, <3>3
    <3>5. j - q \in Settled(f) /\ j + q \in Settled(f)
      BY <1>2, <3>4, Between
    <3>6. p \in {Tree(j - q), Tree(j + q)}
      BY <2>2, <2>3, <2>5, <3>1 DEF TreeNodeOK, LeftOf, RightOf
    <3>. QED
      BY <3>5, <3>6
  <2>. QED
    BY <2>4, <2>5
<1>. QED
  BY <1>3, <1>4

\* The left pointer of a forest-point.
LEMMA PointLeft ==
  ASSUME NEW f, Shape(f), NEW i \in 1..Len(f.index)
  PROVE  f.index[i].left = Null \/ \E x \in Settled(f) : f.index[i].left = Tree(x)
<1>1. PICK h \in Nat, t \in Nat : h = f.index[i].height /\ t = f.index[i].replacement
  <2>1. f.index[i] \in PointRecord
    BY UnderNat
  <2>. QED
    BY <2>1 DEF PointRecord
<1>2. f.index[i].left = LeftOf(t, h)
  BY <1>1 DEF Shape, PointOK
<1>3. CASE h = 0
  BY <1>2, <1>3 DEF LeftOf
<1>4. CASE h # 0
  <2>1. PICK q \in Nat : q = Leaves[h - 1] /\ t - q \in 1..Len(f.nodes)
                         /\ Under(f, i - 1) < t - q /\ t - q < t
    <3>1. h > 0
      BY <1>4
    <3>. QED
      BY <1>1, <3>1, PointChild
  <2>2. t = Under(f, i)
    BY <1>1, UnderNat
  <2>3. t - q \in Nat
    BY <2>1
  <2>4. t - q \in Settled(f)
    BY <2>1, <2>2, <2>3, Between
  <2>. QED
    BY <1>2, <1>4, <2>1, <2>4 DEF LeftOf
<1>. QED
  BY <1>3, <1>4

---------------------------------------------------------------------------------
(* The theorems. *)

\* The empty forest has the shape, ...
LEMMA EmptyShape ==
  ASSUME NEW f, f = EmptyForest
  PROVE  ForestInv(f)
<1>1. /\ f.events = <<>> /\ f.nodes = <<>> /\ f.index = <<>>
      /\ f.tail = 1 /\ f.minKey = MaxTime + 1
      /\ DOMAIN f = {"events", "nodes", "index", "tail", "minKey"}
      /\ f = [events |-> <<>>, nodes |-> <<>>, index |-> <<>>,
                   tail |-> 1, minKey |-> MaxTime + 1]
  BY DEF EmptyForest
<1>2. Typed(f)
  <2>1. MaxTime + 1 \in Int
    BY EventFields
  <2>2. <<>> \in Seq(Event) /\ <<>> \in Seq(NodeRecord) /\ <<>> \in Seq(PointRecord)
    OBVIOUS
  <2>. QED
    BY <1>1, <2>1, <2>2 DEF Typed
<1>3. Len(f.nodes) = 0 /\ Len(f.index) = 0 /\ Len(f.events) = 0
  BY <1>1
<1>4. /\ ~(0 > 0) /\ ~(0 > 1) /\ (\A j \in 1..0 : FALSE) /\ (\A j \in 1..(0 - 1) : FALSE)
      /\ (\A j \in 1..(0 - 2) : FALSE) /\ 1 \in 1..(0 + 1)
  OBVIOUS
<1>5. Counted(f) /\ TreesOK(f) /\ \A i \in 1..Len(f.index) : PointOK(f, i)
  BY <1>3, <1>4 DEF Counted, TreesOK, Under
<1>6. KeysOK(f) /\ Descending(f) /\ Linked(f)
  BY <1>3, <1>4 DEF KeysOK, Descending, Linked
<1>7. EventsOK(f)
  <2>1. Ordered(f.events)
    <3>1. DOMAIN f.events = {}
      BY <1>1
    <3>. QED
      BY <3>1 DEF Ordered
  <2>. QED
    BY <1>1, <1>3, <1>4, <2>1 DEF EventsOK
<1>. QED
  BY <1>2, <1>5, <1>6, <1>7 DEF ForestInv, Shape

\* ... append_event keeps it, and writes nothing settled.
LEMMA ForestNext == ForestInv(forest) /\ [Next]_forest => ForestInv(forest)' /\ Keeps(forest, forest')
<1>. SUFFICES ASSUME ForestInv(forest), [Next]_forest PROVE ForestInv(forest') /\ Keeps(forest, forest')
  OBVIOUS
<1>1. CASE UNCHANGED forest
  <2>1. Len(forest.nodes) \in Nat
    BY UnderNat DEF ForestInv
  <2>2. Keeps(forest, forest)
    BY <2>1 DEF Keeps
  <2>. QED
    BY <1>1, <2>2
<1>2. CASE Next
  <2>1. PICK e \in Event : Append_event(e)
    BY <1>2 DEF Next
  <2>2. forest' = AppendEvent(forest, e) /\ (forest.events # <<>> => AtOrBefore(Last(forest.events), e))
    BY <2>1 DEF Append_event
  <2>. QED
    BY <2>2, AppendKeeps
<1>. QED
  BY <1>1, <1>2

\* The shape of the forest and the order of its events hold in every state.
THEOREM ForestInvHolds == Spec => []ForestInv(forest)
<1>1. Init => ForestInv(forest)
  BY EmptyShape DEF Init
<1>2. ForestInv(forest) /\ [Next]_forest => ForestInv(forest)'
  BY ForestNext
<1>. QED
  BY <1>1, <1>2, PTL DEF Spec

\* The forest is a binary counter of its leaves.
THEOREM ForestBinaryCounter == Spec => []BinaryCounter
<1>1. ForestInv(forest) => BinaryCounter
  <2>. SUFFICES ASSUME ForestInv(forest) PROVE BinaryCounter
    OBVIOUS
  <2>1. Counted(forest) /\ Linked(forest) /\ Descending(forest)
    BY DEF ForestInv, Shape
  <2>. QED
    BY <2>1 DEF BinaryCounter, Counted, Linked, Descending, Under
<1>. QED
  BY <1>1, ForestInvHolds, PTL

\* A node that a pointer leads to is no forest-point's.
LEMMA PlacedSettled == ForestInv(forest) => Placed \subseteq Settled(forest)
<1>. SUFFICES ASSUME ForestInv(forest), NEW i \in Placed PROVE i \in Settled(forest)
  OBVIOUS
<1>0. Shape(forest) /\ Linked(forest) /\ Descending(forest) /\ Len(forest.index) \in Nat
      /\ DOMAIN forest.nodes = 1..Len(forest.nodes) /\ DOMAIN forest.index = 1..Len(forest.index)
  BY DEF ForestInv, Shape, Typed
<1>1. PICK n \in Nodes \cup Points : Tree(i) \in {n.left, n.right}
  BY DEF Placed
<1>2. CASE n \in Nodes
  <2>1. PICK j \in 1..Len(forest.nodes) : n = forest.nodes[j]
    BY <1>0, <1>2 DEF Nodes, ToSet
  <2>2. Tree(i) = Null \/ \E x \in Settled(forest) : Tree(i) = Tree(x)
    BY <1>0, <1>1, <2>1, NodeChildren
  <2>. QED
    BY <2>2, PointerFacts
<1>3. CASE n \in Points
  <2>1. PICK j \in 1..Len(forest.index) : n = forest.index[j]
    BY <1>0, <1>3 DEF Points, ToSet
  <2>2. CASE Tree(i) = n.left
    <3>1. Tree(i) = Null \/ \E x \in Settled(forest) : Tree(i) = Tree(x)
      BY <1>0, <2>1, <2>2, PointLeft
    <3>. QED
      BY <3>1, PointerFacts
  <2>3. CASE Tree(i) = n.right
    <3>1. n.right = Null \/ n.right = Point(j + 1)
      <4>1. j \in 1..(Len(forest.index) - 1) \/ j = Len(forest.index)
        BY <1>0
      <4>2. j > 0
        OBVIOUS
      <4>. QED
        BY <1>0, <2>1, <4>1, <4>2 DEF Linked, Descending
    <3>. QED
      BY <2>3, <3>1, PointerFacts
  <2>. QED
    BY <1>1, <2>2, <2>3
<1>. QED
  BY <1>2, <1>3

\* What a tree holds is never written again.
THEOREM ForestPlacedNodesStay == Spec => PlacedNodesStay
<1>1. ForestInv(forest) /\ [Next]_forest => [\A i \in Placed : forest'.nodes[i] = forest.nodes[i]]_forest
  <2>. SUFFICES ASSUME ForestInv(forest), [Next]_forest, NEW i \in Placed
                PROVE  forest'.nodes[i] = forest.nodes[i]
    OBVIOUS
  <2>1. i \in Settled(forest)
    BY PlacedSettled
  <2>2. Keeps(forest, forest')
    BY ForestNext
  <2>. QED
    BY <2>1, <2>2 DEF Keeps
<1>. QED
  BY <1>1, ForestInvHolds, PTL DEF Spec, PlacedNodesStay

\* A pointer of a node or a forest-point leads to one that is there, of less height.
LEMMA Leads ==
  ASSUME NEW f, Shape(f), Linked(f), NEW p \in Pointers(f), NEW q \in {Node(f, p).left, Node(f, p).right}
  PROVE  /\ Node(f, p).height \in Nat
         /\ q = Null \/ /\ q \in Pointers(f) /\ q # Null
                        /\ Node(f, q).height \in Nat /\ Node(f, q).height < Node(f, p).height
<1>1. PICK n \in Nat, m \in Nat : n = Len(f.nodes) /\ m = Len(f.index)
  <2>1. Len(f.nodes) \in Nat /\ Len(f.index) \in Nat
    BY UnderNat
  <2>. QED
    BY <2>1
<1>2. ASSUME NEW j \in 1..n
      PROVE  /\ f.nodes[j] \in NodeRecord /\ f.nodes[j].height \in Nat
             /\ Node(f, Tree(j)) = f.nodes[j] /\ Tree(j) \in Pointers(f) /\ Tree(j) # Null
  <2>1. f.nodes[j] \in NodeRecord
    <3>1. f.nodes \in Seq(NodeRecord)
      BY DEF Shape, Typed
    <3>. QED
      BY <1>1, <3>1
  <2>2. f.nodes[j].height \in Nat
    BY <2>1 DEF NodeRecord
  <2>. QED
    BY <1>1, <2>1, <2>2, PointerFacts DEF Node, Tree, Pointers
<1>3. ASSUME NEW i \in 1..m
      PROVE  /\ f.index[i].height \in Nat
             /\ Node(f, Point(i)) = f.index[i] /\ Point(i) \in Pointers(f) /\ Point(i) # Null
  <2>1. f.index[i].height \in Nat
    BY <1>1, UnderNat
  <2>. QED
    BY <1>1, <2>1, PointerFacts DEF Node, Point, Pointers
<1>4. CASE \E j \in 1..n : p = Tree(j)
  <2>1. PICK j \in 1..n : p = Tree(j)
    BY <1>4
  <2>2. PICK h \in Nat : h = f.nodes[j].height /\ Node(f, p) = f.nodes[j]
    BY <1>2, <2>1
  <2>3. PICK i \in 1..m : Under(f, i - 1) < j /\ j <= Under(f, i)
    BY <1>1, Covered
  <2>4. CASE j = Under(f, i)
    <3>1. f.nodes[j].left = Null /\ f.nodes[j].right = Null
      <4>1. j = f.index[i].replacement
        BY <1>1, <2>4, UnderNat
      <4>. QED
        BY <1>1, <4>1 DEF Shape, PointOK
    <3>. QED
      BY <2>2, <3>1
  <2>5. CASE j # Under(f, i)
    <3>0. PICK lo \in 0..n, hi \in 0..n : lo = Under(f, i - 1) /\ hi = Under(f, i)
      <4>1. i - 1 \in 0..m /\ i \in 0..m
        OBVIOUS
      <4>. QED
        BY <1>1, <4>1, UnderNat
    <3>1. TreeNodeOK(f.nodes, lo, j, hi, f.index[i].height) /\ lo < j /\ j < hi
      <4>1. j < hi /\ j \in Nat
        BY <2>3, <2>5, <3>0
      <4>. QED
        BY <1>1, <2>3, <3>0, <4>1 DEF Shape, TreesOK
    <3>2. CASE h = 0
      BY <2>2, <3>1, <3>2 DEF TreeNodeOK, LeftOf, RightOf
    <3>3. CASE h # 0
      <4>1. PICK d \in Nat, k \in Nat : d = Leaves[h - 1] /\ d > 0 /\ k = Leaves[h] /\ k = 2 * d
        <5>1. h - 1 \in Nat /\ (h - 1) + 1 = h
          BY <3>3
        <5>2. Leaves[h - 1] \in Nat /\ Leaves[h - 1] > 0 /\ Leaves[(h - 1) + 1] = 2 * Leaves[h - 1]
          BY <5>1, LeavesDouble
        <5>. QED
          BY <5>1, <5>2
      <4>2. lo <= j - k /\ j + k <= hi /\ k = 2 * d /\ d > 0
        BY <2>2, <3>1, <4>1 DEF TreeNodeOK
      <4>3. j - d \in 1..n /\ j + d \in 1..n
        BY <3>0, <3>1, <4>2
      <4>4. q \in {Tree(j - d), Tree(j + d)}
        BY <2>2, <3>1, <3>3, <4>1 DEF TreeNodeOK, LeftOf, RightOf
      <4>5. f.nodes[j - d].height = h - 1 /\ f.nodes[j + d].height = h - 1
        <5>1. h > 0
          BY <3>3
        <5>. QED
          BY <2>2, <3>1, <4>1, <5>1 DEF TreeNodeOK
      <4>6. h - 1 \in Nat /\ h - 1 < h
        BY <3>3
      <4>. QED
        BY <1>2, <2>2, <4>3, <4>4, <4>5, <4>6
    <3>. QED
      BY <3>2, <3>3
  <2>. QED
    BY <2>4, <2>5
<1>5. CASE \E i \in 1..m : p = Point(i)
  <2>1. PICK i \in 1..m : p = Point(i)
    BY <1>5
  <2>2. PICK h \in Nat : h = f.index[i].height /\ Node(f, p) = f.index[i]
    BY <1>3, <2>1
  <2>3. PICK t \in 1..n : t = f.index[i].replacement
    BY <1>1 DEF Shape, PointOK
  <2>4. CASE q = f.index[i].left
    <3>1. CASE h = 0
      BY <1>1, <2>2, <2>3, <2>4, <3>1 DEF Shape, PointOK, LeftOf
    <3>2. CASE h # 0
      <4>0. h > 0
        BY <3>2
      <4>1. t - Leaves[h - 1] \in 1..n
        BY <1>1, <2>2, <2>3, <4>0, PointChild
      <4>2. q = Tree(t - Leaves[h - 1]) /\ f.nodes[t - Leaves[h - 1]].height = h - 1
        BY <1>1, <2>2, <2>3, <2>4, <3>2, <4>0 DEF Shape, PointOK, LeftOf
      <4>3. h - 1 \in Nat /\ h - 1 < h
        BY <3>2
      <4>. QED
        BY <1>2, <2>2, <4>1, <4>2, <4>3
    <3>. QED
      BY <3>1, <3>2
  <2>5. CASE q = f.index[i].right
    <3>1. CASE i = m
      <4>1. q = Null
        BY <1>1, <2>5, <3>1 DEF Shape, Descending
      <4>. QED
        BY <2>2, <4>1
    <3>2. CASE i # m
      <4>1. i \in 1..(m - 1) /\ i + 1 \in 1..m
        BY <3>2
      <4>2. q = Point(i + 1) /\ f.index[i].height > f.index[i + 1].height
        BY <1>1, <2>5, <4>1 DEF Linked
      <4>3. f.index[i + 1].height < h
        BY <1>3, <2>2, <4>1, <4>2
      <4>. QED
        BY <1>3, <2>2, <4>1, <4>2, <4>3
    <3>. QED
      BY <3>1, <3>2
  <2>. QED
    BY <2>2, <2>4, <2>5
<1>. QED
  BY <1>1, <1>4, <1>5 DEF Pointers

\* The forest stays in the types its searches rely on.
THEOREM ForestTypeOK == Spec => []TypeOK
<1>1. ForestInv(forest) => TypeOK
  <2>. SUFFICES ASSUME ForestInv(forest) PROVE TypeOK
    OBVIOUS
  <2>1. Shape(forest) /\ Linked(forest) /\ EventsOK(forest) /\ forest.events \in Seq(Event)
        /\ forest.nodes \in Seq(NodeRecord) /\ forest.index \in Seq(PointRecord)
    BY DEF ForestInv, Shape, Typed
  <2>2. PICK n \in Nat, m \in Nat, l \in Nat :
          n = Len(forest.nodes) /\ m = Len(forest.index) /\ l = Len(forest.events)
    <3>1. Len(forest.nodes) \in Nat /\ Len(forest.index) \in Nat /\ Len(forest.events) \in Nat
      BY <2>1
    <3>. QED
      BY <3>1
  <2>3. forest.tail \in 1..(l + 1)
    BY <2>1, <2>2 DEF EventsOK
  \* the fields that a node and its forest-point share
  <2>4. ASSUME NEW j \in 1..n
        PROVE  LET x == forest.nodes[j] IN
               /\ x.nkey \in Timestamp /\ x.dkey \in Timestamp /\ x.nkey <= x.dkey
               /\ x.dataBegin < x.dataEnd /\ {x.dataBegin, x.dataEnd} \subseteq 1..(l + 1)
    <3>1. PICK x \in NodeRecord : x = forest.nodes[j]
      <4>1. forest.nodes[j] \in NodeRecord
        BY <2>1, <2>2
      <4>. QED
        BY <4>1
    <3>2. /\ x.nkey \in Timestamp /\ x.dkey \in Timestamp /\ x.nkey <= x.dkey
          /\ 1 <= x.dataBegin /\ x.dataBegin < x.dataEnd /\ x.dataEnd <= forest.tail
      BY <2>1, <2>2, <3>1 DEF Shape, KeysOK
    <3>3. x.dataBegin \in Nat /\ x.dataEnd \in Nat
      BY DEF NodeRecord
    <3>4. x.dataBegin \in 1..(l + 1) /\ x.dataEnd \in 1..(l + 1)
      BY <2>3, <3>2, <3>3
    <3>. QED
      BY <3>1, <3>2, <3>4
  <2>5. ASSUME NEW x \in Nodes PROVE NodeOK(x)
    <3>1. PICK j \in 1..n : x = forest.nodes[j]
      BY <2>1, <2>2 DEF Nodes, ToSet
    <3>2. Tree(j) \in Pointers(forest) /\ Node(forest, Tree(j)) = x
      BY <2>2, <3>1 DEF Pointers, Node, Tree
    <3>3. x.height \in Nat /\ {x.left, x.right} \subseteq Pointers(forest) \cup {Null}
      BY <2>1, <3>2, Leads
    <3>4. x \in NodeRecord
      BY <2>1, <2>2, <3>1
    <3>5. {x.nsa, x.ded, x.ned} \subseteq Seq(Event)
      BY <3>4 DEF NodeRecord
    <3>. QED
      BY <2>2, <2>4, <3>1, <3>3, <3>5 DEF NodeOK
  <2>6. ASSUME NEW x \in Points PROVE NodeOK(x) /\ x.replacement \in 1..n
    <3>1. PICK i \in 1..m : x = forest.index[i]
      BY <2>1, <2>2 DEF Points, ToSet
    <3>2. Point(i) \in Pointers(forest) /\ Node(forest, Point(i)) = x
      BY <2>2, <3>1 DEF Pointers, Node, Point
    <3>3. x.height \in Nat /\ {x.left, x.right} \subseteq Pointers(forest) \cup {Null}
      BY <2>1, <3>2, Leads
    <3>4. x \in PointRecord
      BY <2>1, <2>2, <3>1
    <3>5. {x.nsa, x.ded, x.ned} \subseteq Seq(Event)
      BY <3>4 DEF PointRecord
    <3>6. /\ x.replacement \in 1..n
          /\ x.nkey = forest.nodes[x.replacement].nkey /\ x.dkey = forest.nodes[x.replacement].dkey
          /\ x.dataBegin = forest.nodes[x.replacement].dataBegin
          /\ x.dataEnd = forest.nodes[x.replacement].dataEnd
      BY <2>1, <2>2, <3>1 DEF Shape, PointOK
    <3>. QED
      BY <2>2, <2>4, <3>3, <3>5, <3>6 DEF NodeOK
  <2>. QED
    BY <2>1, <2>2, <2>3, <2>5, <2>6 DEF TypeOK, EventsOK
<1>. QED
  BY <1>1, ForestInvHolds, PTL

---------------------------------------------------------------------------------
(* Where a search goes. *)

\* The values that a pointer is followed for: those of its subtree, and, from a
\* forest-point, of the forest-points behind it.
InRange(f, p, v) ==
  \/ \E j \in 1..Len(f.nodes) :
       LET w == Leaves[f.nodes[j].height] - 1
       IN /\ p = Tree(j) /\ j - w \in 1..Len(f.nodes) /\ j + w \in 1..Len(f.nodes)
          /\ f.nodes[j - w].nkey <= v /\ v <= f.nodes[j + w].dkey
  \/ \E i \in 1..Len(f.index) :
       /\ p = Point(i)
       /\ f.nodes[Under(f, i - 1) + 1].nkey <= v /\ v <= f.nodes[Len(f.nodes)].dkey

\* The keys of nodes next to each other.
LEMMA Keys ==
  ASSUME NEW f, Shape(f), NEW j \in 1..Len(f.nodes)
  PROVE  /\ f.nodes[j].nkey \in Int /\ f.nodes[j].dkey \in Int
         /\ f.nodes[j].height \in Nat
         /\ j + 1 <= Len(f.nodes) => f.nodes[j + 1].nkey = f.nodes[j].dkey + 1
<1>1. Len(f.nodes) \in Nat /\ f.nodes[j] \in NodeRecord
  BY DEF Shape, Typed
<1>2. f.nodes[j].nkey \in Int /\ f.nodes[j].dkey \in Int /\ f.nodes[j].height \in Nat
  BY <1>1 DEF NodeRecord
<1>3. j + 1 <= Len(f.nodes) => j \in 1..(Len(f.nodes) - 1)
  BY <1>1
<1>. QED
  BY <1>2, <1>3 DEF Shape, KeysOK

\* A search that has not found its value goes on to a node whose range has it.
LEMMA RangeStep ==
  ASSUME NEW f, Shape(f), Linked(f), NEW p \in Pointers(f), NEW v \in Int,
         InRange(f, p, v), ~Selects(Node(f, p), v)
  PROVE  InRange(f, Child(Node(f, p), v), v)
<1>1. PICK n \in Nat, m \in Nat : n = Len(f.nodes) /\ m = Len(f.index)
  <2>1. Len(f.nodes) \in Nat /\ Len(f.index) \in Nat
    BY UnderNat
  <2>. QED
    BY <2>1
<1>2. ASSUME NEW j \in 1..n, NEW x \in {f.nodes[j], Node(f, p)}, x.nkey = f.nodes[j].nkey, x.dkey = f.nodes[j].dkey,
             ~Selects(x, v)
      PROVE  (v < x.nkey /\ Child(x, v) = x.left) \/ (x.dkey < v /\ Child(x, v) = x.right)
  <2>1. f.nodes[j].nkey \in Int /\ f.nodes[j].dkey \in Int
    BY <1>1, Keys
  <2>. QED
    BY <1>2, <2>1 DEF Selects, Child
\* a child at the distance d, half of what the node stands over
<1>3. ASSUME NEW j \in 1..n, NEW h \in Nat, h > 0, NEW d, d = Leaves[h - 1],
             NEW k, k = Leaves[h]
      PROVE  d \in Nat /\ d > 0 /\ k \in Nat /\ k = 2 * d /\ h - 1 \in Nat
  <2>1. h - 1 \in Nat /\ (h - 1) + 1 = h
    BY <1>3
  <2>2. Leaves[h - 1] \in Nat /\ Leaves[h - 1] > 0 /\ Leaves[(h - 1) + 1] = 2 * Leaves[h - 1]
    BY <2>1, LeavesDouble
  <2>. QED
    BY <1>3, <2>1, <2>2
<1>4. CASE \E j \in 1..n : p = Tree(j)
  <2>1. PICK j \in 1..n : p = Tree(j)
    BY <1>4
  <2>2. Node(f, p) = f.nodes[j]
    BY <2>1 DEF Node, Tree
  <2>3. PICK h \in Nat, k \in Nat : h = f.nodes[j].height /\ k = Leaves[h]
    <3>1. f.nodes[j].height \in Nat
      BY <1>1, Keys
    <3>2. Leaves[f.nodes[j].height] \in Nat
      BY <3>1, LeavesDouble
    <3>. QED
      BY <3>1, <3>2
  <2>4. /\ j - (k - 1) \in 1..n /\ j + (k - 1) \in 1..n
        /\ f.nodes[j - (k - 1)].nkey <= v /\ v <= f.nodes[j + (k - 1)].dkey
    BY <1>1, <2>1, <2>3, PointerFacts DEF InRange
  <2>5. h > 0
    <3>1. CASE h = 0
      <4>1. k = 1
        BY <2>3, <3>1, LeavesDouble
      <4>2. j - (k - 1) = j /\ j + (k - 1) = j
        BY <4>1
      <4>. QED
        BY <2>2, <2>4, <4>2 DEF Selects
    <3>. QED
      BY <3>1
  <2>6. PICK d \in Nat : d = Leaves[h - 1] /\ d > 0 /\ k = 2 * d
    BY <1>3, <2>3, <2>5
  <2>7. PICK i \in 1..m, lo \in 0..n, hi \in 0..n :
          lo = Under(f, i - 1) /\ hi = Under(f, i) /\ lo < j /\ j <= hi
    <3>1. PICK i \in 1..m : Under(f, i - 1) < j /\ j <= Under(f, i)
      BY <1>1, Covered
    <3>2. i - 1 \in 0..m /\ i \in 0..m
      OBVIOUS
    <3>. QED
      BY <1>1, <3>1, <3>2, UnderNat
  <2>8. j # hi
    <3>1. ASSUME j = hi PROVE FALSE
      <4>1. j = f.index[i].replacement /\ i \in 1..Len(f.index)
        BY <1>1, <2>7, <3>1, UnderNat
      <4>2. f.nodes[j].height = 0
        BY <4>1 DEF Shape, PointOK
      <4>. QED
        BY <2>3, <2>5, <4>2
    <3>. QED
      BY <3>1
  <2>9. TreeNodeOK(f.nodes, lo, j, hi, f.index[i].height)
    <3>1. j \in Nat /\ j < hi
      BY <2>7, <2>8
    <3>. QED
      BY <1>1, <2>7, <3>1 DEF Shape, TreesOK
  <2>10. /\ f.nodes[j].left = Tree(j - d) /\ f.nodes[j].right = Tree(j + d)
         /\ f.nodes[j - d].height = h - 1 /\ f.nodes[j + d].height = h - 1
    BY <2>3, <2>5, <2>6, <2>9 DEF TreeNodeOK, LeftOf, RightOf
  <2>11. k = 2 * d /\ d > 0
    BY <2>6
  <2>12. /\ j - d \in 1..n /\ (j - d) - (d - 1) = j - (k - 1) /\ (j - d) + (d - 1) = j - 1
         /\ j + d \in 1..n /\ (j + d) - (d - 1) = j + 1 /\ (j + d) + (d - 1) = j + (k - 1)
         /\ j - 1 \in 1..n /\ j + 1 \in 1..n /\ (j - 1) + 1 = j
    BY <2>4, <2>11
  <2>13. (v < f.nodes[j].nkey /\ Child(Node(f, p), v) = Tree(j - d))
           \/ (f.nodes[j].dkey < v /\ Child(Node(f, p), v) = Tree(j + d))
    BY <1>2, <2>2, <2>10
  <2>14. CASE v < f.nodes[j].nkey /\ Child(Node(f, p), v) = Tree(j - d)
    <3>1. v <= f.nodes[j - 1].dkey
      <4>1. PICK x \in 1..n : x = j - 1
        BY <2>12
      <4>2. x + 1 = j /\ x \in 1..Len(f.nodes) /\ x + 1 <= Len(f.nodes)
        BY <1>1, <4>1
      <4>3. f.nodes[j].nkey = f.nodes[x].dkey + 1 /\ f.nodes[x].dkey \in Int
        BY <4>2, Keys
      <4>. QED
        BY <2>14, <4>1, <4>3
    <3>2. Leaves[f.nodes[j - d].height] = d
      BY <2>6, <2>10
    <3>. QED
      BY <1>1, <2>4, <2>12, <2>14, <3>1, <3>2 DEF InRange
  <2>15. CASE f.nodes[j].dkey < v /\ Child(Node(f, p), v) = Tree(j + d)
    <3>1. f.nodes[j + 1].nkey <= v
      <4>1. f.nodes[j + 1].nkey = f.nodes[j].dkey + 1 /\ f.nodes[j].dkey \in Int
        BY <1>1, <2>12, Keys
      <4>. QED
        BY <2>15, <4>1
    <3>2. Leaves[f.nodes[j + d].height] = d
      BY <2>6, <2>10
    <3>. QED
      BY <1>1, <2>4, <2>12, <2>15, <3>1, <3>2 DEF InRange
  <2>. QED
    BY <2>13, <2>14, <2>15
<1>5. CASE \E i \in 1..m : p = Point(i)
  <2>1. PICK i \in 1..m : p = Point(i)
    BY <1>5
  <2>2. Node(f, p) = f.index[i]
    BY <2>1 DEF Node, Point
  <2>3. PICK h \in Nat, k \in Nat : h = f.index[i].height /\ k = Leaves[h]
    <3>1. f.index[i].height \in Nat
      BY <1>1, UnderNat
    <3>2. Leaves[f.index[i].height] \in Nat
      BY <3>1, LeavesDouble
    <3>. QED
      BY <3>1, <3>2
  <2>4. PICK t \in 1..n, u \in 0..n : t = f.index[i].replacement /\ u = Under(f, i - 1) /\ t = u + k
    <3>1. i - 1 \in 0..m /\ i \in 0..m
      OBVIOUS
    <3>2. Under(f, i) = Under(f, i - 1) + k /\ Under(f, i) = f.index[i].replacement
      BY <1>1, <2>3, UnderNat DEF Shape, Counted
    <3>3. f.index[i].replacement \in 1..n /\ Under(f, i - 1) \in 0..n
      BY <1>1, <3>1, UnderNat DEF Shape, PointOK
    <3>. QED
      BY <3>2, <3>3
  <2>5. f.nodes[u + 1].nkey <= v /\ v <= f.nodes[n].dkey
    BY <1>1, <2>1, <2>4, PointerFacts DEF InRange
  <2>6. /\ f.index[i].nkey = f.nodes[t].nkey /\ f.index[i].dkey = f.nodes[t].dkey
        /\ f.index[i].left = LeftOf(t, h)
        /\ h > 0 => f.nodes[t - Leaves[h - 1]].height = h - 1
    BY <1>1, <2>3, <2>4 DEF Shape, PointOK
  <2>7. (v < f.nodes[t].nkey /\ Child(Node(f, p), v) = f.index[i].left)
          \/ (f.nodes[t].dkey < v /\ Child(Node(f, p), v) = f.index[i].right)
    BY <1>2, <2>2, <2>6
  <2>8. CASE v < f.nodes[t].nkey /\ Child(Node(f, p), v) = f.index[i].left
    <3>1. h > 0
      <4>1. CASE h = 0
        <5>1. k = 1
          BY <2>3, <4>1, LeavesDouble
        <5>2. u + 1 = t
          BY <2>4, <5>1
        <5>. QED
          <6>1. f.nodes[t].nkey \in Int
            BY <1>1, Keys
          <6>. QED
            BY <2>5, <2>8, <5>2, <6>1
      <4>. QED
        BY <4>1
    <3>2. PICK d \in Nat : d = Leaves[h - 1] /\ d > 0 /\ k = 2 * d
      BY <1>3, <2>3, <3>1
    <3>3. k = 2 * d /\ d > 0 /\ t = u + k
      BY <2>4, <3>2
    <3>4. /\ t - d \in 1..n /\ (t - d) - (d - 1) = u + 1 /\ (t - d) + (d - 1) = t - 1
          /\ t - 1 \in 1..n /\ (t - 1) + 1 = t /\ u + 1 \in 1..n
      BY <3>3
    <3>5. v <= f.nodes[t - 1].dkey
      <4>1. f.nodes[(t - 1) + 1].nkey = f.nodes[t - 1].dkey + 1 /\ f.nodes[t - 1].dkey \in Int
        BY <1>1, <3>4, Keys
      <4>. QED
        BY <2>8, <3>4, <4>1
    <3>6. Child(Node(f, p), v) = Tree(t - d) /\ Leaves[f.nodes[t - d].height] = d
      BY <2>6, <2>8, <3>1, <3>2 DEF LeftOf
    <3>. QED
      BY <1>1, <2>5, <3>4, <3>5, <3>6 DEF InRange
  <2>9. CASE f.nodes[t].dkey < v /\ Child(Node(f, p), v) = f.index[i].right
    <3>1. i # m
      <4>1. ASSUME i = m PROVE FALSE
        <5>1. t = n
          BY <1>1, <2>4, <4>1, UnderNat DEF Shape, Counted
        <5>2. f.nodes[t].dkey \in Int
          BY <1>1, Keys
        <5>. QED
          BY <2>5, <2>9, <5>1, <5>2
      <4>. QED
        BY <4>1
    <3>2. i \in 1..(m - 1) /\ i + 1 \in 1..m /\ (i + 1) - 1 = i
      BY <3>1
    <3>3. Child(Node(f, p), v) = Point(i + 1)
      BY <1>1, <2>9, <3>2 DEF Linked
    <3>4. Under(f, (i + 1) - 1) = t
      BY <1>1, <2>4, <3>2, UnderNat
    <3>5. t + 1 <= n
      <4>1. i < i + 1 /\ i \in 1..Len(f.index) /\ i + 1 \in 1..Len(f.index)
        BY <1>1, <3>2
      <4>2. f.index[i].replacement < f.index[i + 1].replacement
        BY <4>1 DEF Shape, Counted
      <4>3. f.index[i + 1].replacement \in 1..n
        BY <1>1, <4>1 DEF Shape, PointOK
      <4>. QED
        BY <2>4, <4>2, <4>3
    <3>6. f.nodes[t + 1].nkey <= v
      <4>1. f.nodes[t + 1].nkey = f.nodes[t].dkey + 1 /\ f.nodes[t].dkey \in Int
        BY <1>1, <3>5, Keys
      <4>. QED
        BY <2>9, <4>1
    <3>. QED
      BY <1>1, <2>5, <3>2, <3>3, <3>4, <3>6 DEF InRange
  <2>. QED
    BY <2>7, <2>8, <2>9
<1>. QED
  BY <1>1, <1>4, <1>5 DEF Pointers

\* A height is less than the number of nodes it takes.
LEMMA LeavesMore ==
  \A h \in Nat : h < Leaves[h]
<1>. DEFINE S == {h \in Nat : h < Leaves[h]}
<1>1. 0 \in S
  BY LeavesDouble
<1>2. ASSUME NEW h \in S PROVE h + 1 \in S
  <2>1. h \in Nat /\ h < Leaves[h] /\ Leaves[h] \in Nat /\ Leaves[h + 1] = 2 * Leaves[h]
    BY LeavesDouble
  <2>. QED
    BY <2>1
<1>3. S \in SUBSET Nat
  OBVIOUS
<1>4. S = Nat
  <2>. HIDE DEF S
  <2>. QED
    BY <1>1, <1>2, <1>3, NatAll
<1>. QED
  BY <1>4

\* No forest-point and no node is higher than there are nodes.
LEMMA HeightBound ==
  ASSUME NEW f, Shape(f), NEW p \in Pointers(f)
  PROVE  Node(f, p).height \in Nat /\ Node(f, p).height <= Len(f.nodes)
<1>1. PICK n \in Nat, m \in Nat : n = Len(f.nodes) /\ m = Len(f.index)
  <2>1. Len(f.nodes) \in Nat /\ Len(f.index) \in Nat
    BY UnderNat
  <2>. QED
    BY <2>1
<1>2. ASSUME NEW i \in 1..m PROVE f.index[i].height \in Nat /\ f.index[i].height <= n
  <2>1. PICK h \in Nat : h = f.index[i].height
    BY <1>1, UnderNat
  <2>2. PICK k \in Nat : k = Leaves[h] /\ h < k
    <3>1. Leaves[h] \in Nat /\ h < Leaves[h]
      BY LeavesDouble, LeavesMore
    <3>. QED
      BY <3>1
  <2>3. PICK u \in 0..n, t \in 0..n : u = Under(f, i - 1) /\ t = Under(f, i)
    <3>1. i - 1 \in 0..m /\ i \in 0..m
      OBVIOUS
    <3>. QED
      BY <1>1, <3>1, UnderNat
  <2>4. t = u + k
    BY <1>1, <2>1, <2>2, <2>3 DEF Shape, Counted
  <2>5. h <= n
    BY <2>2, <2>3, <2>4
  <2>. QED
    BY <2>1, <2>5
<1>3. ASSUME NEW j \in 1..n PROVE f.nodes[j].height \in Nat /\ f.nodes[j].height <= n
  <2>1. PICK h \in Nat : h = f.nodes[j].height
    BY <1>1, Keys
  <2>2. PICK i \in 1..m : Under(f, i - 1) < j /\ j <= Under(f, i)
    BY <1>1, Covered
  <2>3. CASE j = Under(f, i)
    <3>1. f.nodes[j].height = 0
      <4>1. j = f.index[i].replacement
        BY <1>1, <2>3, UnderNat
      <4>. QED
        BY <1>1, <4>1 DEF Shape, PointOK
    <3>. QED
      BY <3>1
  <2>4. CASE j # Under(f, i)
    <3>1. Under(f, i) \in 0..n
      <4>1. i \in 0..m
        OBVIOUS
      <4>. QED
        BY <1>1, <4>1, UnderNat
    <3>2. j \in Nat /\ j < Under(f, i)
      BY <2>2, <2>4, <3>1
    <3>3. TreeNodeOK(f.nodes, Under(f, i - 1), j, Under(f, i), f.index[i].height)
      BY <1>1, <2>2, <3>2 DEF Shape, TreesOK
    <3>4. h < f.index[i].height
      BY <2>1, <3>3 DEF TreeNodeOK
    <3>5. PICK g \in Nat : g = f.index[i].height /\ g <= n
      BY <1>2
    <3>6. h <= n
      BY <3>4, <3>5
    <3>. QED
      BY <2>1, <3>6
  <2>. QED
    BY <2>3, <2>4
<1>. QED
  BY <1>1, <1>2, <1>3 DEF Pointers, Node, Tree, Point

---------------------------------------------------------------------------------
(* The pointers that a search follows. *)

\* One step of navigate_stab_tree_node, when w has the rest.
PathStep(f, v, w, p) ==
  IF p = Null THEN <<>>
  ELSE IF Selects(Node(f, p), v) THEN <<p>>
  ELSE <<p>> \o w[Child(Node(f, p), v)]
IsPaths(f, v, w) == w = [p \in Pointers(f) \cup {Null} |-> PathStep(f, v, w, p)]

\* Paths is a solution of its equation, if there is one.
LEMMA PathsChoice ==
  ASSUME NEW f, NEW v
  PROVE  Paths(f, v) = CHOOSE w : IsPaths(f, v, w)
BY DEF Paths, IsPaths, PathStep

\* How far a pointer is from the end of every path.
Level(f, p) == IF p = Null THEN 0 ELSE Node(f, p).height + 1

\* A step goes to a pointer with less left.
LEMMA ChildLevel ==
  ASSUME NEW f, Shape(f), Linked(f), NEW p \in Pointers(f), NEW v
  PROVE  /\ p # Null /\ Child(Node(f, p), v) \in Pointers(f) \cup {Null}
         /\ Level(f, p) \in Nat /\ Level(f, Child(Node(f, p), v)) \in Nat
         /\ Level(f, Child(Node(f, p), v)) < Level(f, p)
<1>1. p # Null
  BY PointerFacts DEF Pointers
<1>2. PICK c \in {Node(f, p).left, Node(f, p).right} : c = Child(Node(f, p), v)
  BY DEF Child
<1>3. Node(f, p).height \in Nat
  BY HeightBound
<1>4. CASE c = Null
  BY <1>1, <1>2, <1>3, <1>4 DEF Level
<1>5. CASE c # Null
  <2>1. c \in Pointers(f) /\ Node(f, c).height \in Nat /\ Node(f, c).height < Node(f, p).height
    BY <1>2, <1>5, Leads
  <2>. QED
    BY <1>1, <1>2, <1>3, <1>5, <2>1 DEF Level
<1>. QED
  BY <1>4, <1>5

\* There is one: it is built level by level.
LEMMA PathsExist ==
  ASSUME NEW f, Shape(f), Linked(f), NEW v
  PROVE  \E w : IsPaths(f, v, w)
<1>. DEFINE P == Pointers(f) \cup {Null}
            On(w) == w = [p \in P |-> w[p]]
            Up(k, w) == \A p \in P : Level(f, p) < k => w[p] = PathStep(f, v, w, p)
            S == {k \in Nat : \E w : On(w) /\ Up(k, w)}
<1>0. \A p \in P : Level(f, p) \in Nat
  <2>1. Level(f, Null) = 0
    BY DEF Level
  <2>. QED
    BY <2>1, ChildLevel
<1>1. 0 \in S
  <2>. DEFINE w == [p \in P |-> <<>>]
  <2>1. On(w) /\ Up(0, w)
    BY <1>0
  <2>. HIDE DEF w, On, Up
  <2>. QED
    BY <2>1
<1>2. ASSUME NEW k \in S PROVE k + 1 \in S
  <2>1. k \in Nat
    OBVIOUS
  <2>2. PICK w : On(w) /\ Up(k, w)
    OBVIOUS
  <2>. DEFINE u == [p \in P |-> PathStep(f, v, w, p)]
  <2>3. On(u) /\ \A p \in P : u[p] = PathStep(f, v, w, p)
    OBVIOUS
  <2>. HIDE DEF u
  <2>4. ASSUME NEW p \in P, Level(f, p) < k + 1 PROVE u[p] = PathStep(f, v, u, p)
    <3>1. CASE p = Null \/ Selects(Node(f, p), v)
      BY <2>3, <3>1 DEF PathStep
    <3>2. CASE p # Null /\ ~Selects(Node(f, p), v)
      <4>1. PICK c \in P : c = Child(Node(f, p), v) /\ Level(f, c) < Level(f, p)
        BY <3>2, ChildLevel
      <4>2. Level(f, c) < k
        <5>1. Level(f, c) \in Nat /\ Level(f, p) \in Nat
          BY <1>0
        <5>. QED
          BY <2>1, <2>4, <4>1, <5>1
      <4>3. w[c] = u[c]
        BY <2>2, <2>3, <4>2
      <4>. QED
        BY <2>3, <3>2, <4>1, <4>3 DEF PathStep
    <3>. QED
      BY <3>1, <3>2
  <2>5. Up(k + 1, u) /\ k + 1 \in Nat
    BY <2>1, <2>4
  <2>. HIDE DEF On, Up
  <2>. QED
    BY <2>3, <2>5
<1>3. S = Nat
  <2>1. S \in SUBSET Nat
    OBVIOUS
  <2>. HIDE DEF S
  <2>. QED
    BY <1>1, <1>2, <2>1, NatAll
<1>4. PICK n \in Nat : n = Len(f.nodes)
  BY UnderNat
<1>5. n + 2 \in S
  <2>. HIDE DEF S
  <2>. QED
    BY <1>3
<1>6. PICK w : On(w) /\ Up(n + 2, w)
  BY <1>5
<1>7. ASSUME NEW p \in P PROVE w[p] = PathStep(f, v, w, p)
  <2>1. Level(f, p) < n + 2
    <3>1. CASE p = Null
      BY <3>1 DEF Level
    <3>2. CASE p # Null
      <4>1. Node(f, p).height \in Nat /\ Node(f, p).height <= n
        BY <1>4, <3>2, HeightBound
      <4>. QED
        BY <3>2, <4>1 DEF Level
    <3>. QED
      BY <3>1, <3>2
  <2>. QED
    BY <1>6, <2>1
<1>. QED
  BY <1>6, <1>7 DEF IsPaths

\* A search that is at a node goes on from it.
LEMMA PathGoesOn ==
  ASSUME NEW f, Shape(f), Linked(f), NEW p \in Pointers(f), NEW v
  PROVE  Path(f, p, v) = IF Selects(Node(f, p), v) THEN <<p>>
                         ELSE <<p>> \o Path(f, Child(Node(f, p), v), v)
<1>1. PICK w : w = Paths(f, v)
  OBVIOUS
<1>2. IsPaths(f, v, w)
  BY <1>1, PathsChoice, PathsExist
<1>3. w[p] = PathStep(f, v, w, p) /\ p # Null
  BY <1>2, ChildLevel DEF IsPaths
<1>. QED
  BY <1>1, <1>3 DEF Path, PathStep

\* What a path is: it starts at p, goes down, and ends where the value is.
GoesDown(f, v, p, s) ==
  /\ s \in Seq(Pointers(f)) /\ s # <<>> /\ s[1] = p
  /\ Selects(Node(f, Last(s)), v)
  /\ \A i, j \in 1..Len(s) : i < j => Node(f, s[i]).height > Node(f, s[j]).height

\* A pointer in front of a path that starts below it makes a path.
LEMMA GoesDownOn ==
  ASSUME NEW f, Shape(f), NEW v, NEW p \in Pointers(f), NEW c \in Pointers(f), NEW s,
         GoesDown(f, v, c, s), Node(f, c).height < Node(f, p).height
  PROVE  GoesDown(f, v, p, <<p>> \o s)
<1>1. PICK n \in Nat : n = Len(s) /\ n > 0 /\ s \in Seq(Pointers(f))
  <2>1. s \in Seq(Pointers(f)) /\ s # <<>>
    BY DEF GoesDown
  <2>. QED
    BY <2>1
<1>2. PICK t \in Seq(Pointers(f)) : t = <<p>> \o s
  <2>1. <<p>> \in Seq(Pointers(f))
    OBVIOUS
  <2>2. \A P : <<p>> \in Seq(P) /\ s \in Seq(P) => <<p>> \o s \in Seq(P)
    OBVIOUS
  <2>. QED
    BY <1>1, <2>1, <2>2
<1>3. Len(t) = n + 1 /\ t[1] = p /\ \A i \in 1..n : t[i + 1] = s[i]
  BY <1>1, <1>2
<1>4. \A i \in 2..(n + 1) : i - 1 \in 1..n /\ t[i] = s[i - 1]
  <2>1. \A i \in 2..(n + 1) : i - 1 \in 1..n /\ (i - 1) + 1 = i
    OBVIOUS
  <2>. QED
    BY <1>3, <2>1
<1>5. t # <<>> /\ Last(t) = Last(s)
  <2>1. n \in 1..n /\ t[n + 1] = s[n]
    BY <1>1, <1>3
  <2>. QED
    BY <1>1, <1>2, <1>3, <2>1 DEF Last
<1>6. ASSUME NEW i \in 1..(n + 1), NEW j \in 1..(n + 1), i < j
      PROVE  Node(f, t[i]).height > Node(f, t[j]).height
  <2>1. j \in 2..(n + 1)
    BY <1>6
  <2>2. PICK y \in 1..n : y = j - 1 /\ t[j] = s[y]
    BY <1>4, <2>1
  <2>3. s[1] = c /\ \A x, z \in 1..n : x < z => Node(f, s[x]).height > Node(f, s[z]).height
    BY <1>1 DEF GoesDown
  <2>4. CASE i = 1
    <3>1. CASE y = 1
      BY <1>3, <2>2, <2>3, <2>4, <3>1
    <3>2. CASE y # 1
      <4>1. 1 \in 1..n /\ 1 < y
        BY <3>2
      <4>2. Node(f, c).height > Node(f, s[y]).height
        BY <2>3, <4>1
      <4>3. /\ Node(f, c).height \in Nat /\ Node(f, s[y]).height \in Nat
            /\ Node(f, p).height \in Nat
        BY <1>1, HeightBound
      <4>. QED
        BY <1>3, <2>2, <2>4, <4>2, <4>3
    <3>. QED
      BY <3>1, <3>2
  <2>5. CASE i # 1
    <3>1. i \in 2..(n + 1)
      BY <2>5
    <3>2. PICK x \in 1..n : x = i - 1 /\ t[i] = s[x]
      BY <1>4, <3>1
    <3>3. x < y
      BY <1>6, <2>2, <3>2
    <3>. QED
      BY <2>2, <2>3, <3>2, <3>3
  <2>. QED
    BY <2>4, <2>5
<1>7. GoesDown(f, v, p, t)
  BY <1>3, <1>5, <1>6 DEF GoesDown
<1>. QED
  BY <1>2, <1>7

\* Only a pointer to something has a range.
LEMMA InRangePoints ==
  ASSUME NEW f, NEW p, NEW v, InRange(f, p, v)
  PROVE  p \in Pointers(f) /\ p # Null
<1>1. \/ \E j \in 1..Len(f.nodes) : p = Tree(j)
      \/ \E i \in 1..Len(f.index) : p = Point(i)
  BY DEF InRange
<1>. QED
  BY <1>1, PointerFacts DEF Pointers

\* A search for a value in the range of a pointer follows such a path from it.
LEMMA PathDown ==
  ASSUME NEW f, Shape(f), Linked(f), NEW v \in Int, NEW p \in Pointers(f), InRange(f, p, v)
  PROVE  GoesDown(f, v, p, Path(f, p, v))
<1>. DEFINE Down(q) == GoesDown(f, v, q, Path(f, q, v))
            S == {k \in Nat : \A q \in Pointers(f) :
                                InRange(f, q, v) /\ Node(f, q).height < k => Down(q)}
<1>1. 0 \in S
  BY HeightBound
<1>2. ASSUME NEW k \in S PROVE k + 1 \in S
  <2>1. k \in Nat
    OBVIOUS
  <2>2. ASSUME NEW q \in Pointers(f), InRange(f, q, v), Node(f, q).height < k + 1 PROVE Down(q)
    <3>1. CASE Selects(Node(f, q), v)
      <4>1. Path(f, q, v) = <<q>>
        BY <3>1, PathGoesOn
      <4>2. PICK s \in Seq(Pointers(f)) : s = <<q>>
        <5>1. <<q>> \in Seq(Pointers(f))
          OBVIOUS
        <5>. QED
          BY <5>1
      <4>3. Len(s) = 1 /\ s[1] = q /\ Last(s) = q /\ s # <<>>
        BY <4>2 DEF Last
      <4>4. GoesDown(f, v, q, s)
        BY <3>1, <4>3 DEF GoesDown
      <4>. QED
        BY <4>1, <4>2, <4>4
    <3>2. CASE ~Selects(Node(f, q), v)
      <4>1. PICK c : c = Child(Node(f, q), v)
        OBVIOUS
      <4>2. InRange(f, c, v)
        <5>1. InRange(f, Child(Node(f, q), v), v)
          BY <2>2, <3>2, RangeStep
        <5>. QED
          BY <4>1, <5>1
      <4>3. c \in Pointers(f) /\ c # Null
        BY <4>2, InRangePoints
      <4>4. Node(f, c).height \in Nat /\ Node(f, q).height \in Nat
        BY <4>3, HeightBound
      <4>5. Node(f, c).height < Node(f, q).height
        <5>1. c \in {Node(f, q).left, Node(f, q).right}
          BY <4>1 DEF Child
        <5>. QED
          BY <4>3, <5>1, Leads
      <4>6. Node(f, c).height < k
        BY <2>1, <2>2, <4>4, <4>5
      <4>7. Down(c)
        BY <4>2, <4>3, <4>6
      <4>8. Path(f, q, v) = <<q>> \o Path(f, c, v)
        BY <3>2, <4>1, PathGoesOn
      <4>. QED
        BY <4>3, <4>5, <4>7, <4>8, GoesDownOn
    <3>. QED
      BY <3>1, <3>2
  <2>3. k + 1 \in Nat
    BY <2>1
  <2>. HIDE DEF Down
  <2>. QED
    BY <2>2, <2>3
<1>3. S = Nat
  <2>1. S \in SUBSET Nat
    OBVIOUS
  <2>. HIDE DEF S
  <2>. QED
    BY <1>1, <1>2, <2>1, NatAll
<1>4. PICK h \in Nat : h = Node(f, p).height
  BY HeightBound
<1>5. h + 1 \in S /\ h < h + 1
  <2>. HIDE DEF S
  <2>. QED
    BY <1>3
<1>. HIDE DEF Down
<1>6. Down(p)
  BY <1>4, <1>5
<1>. QED
  BY <1>6 DEF Down

\* A search for an indexed value ends at the node that has it, and meets no two nodes of one
\* height (navigate_stab_tree_node, and visited_nodes of the helpers).
THEOREM ForestPathsDescend == Spec => []PathsDescend
<1>1. ForestInv(forest) => PathsDescend
  <2>. SUFFICES ASSUME ForestInv(forest), NEW v \in Timestamp, InTrees(forest, v)
                PROVE  LET path == Path(forest, Point(1), v)
                       IN /\ Selects(Node(forest, Last(path)), v)
                          /\ \A i, j \in DOMAIN path :
                               i < j => Node(forest, path[i]).height > Node(forest, path[j]).height
    BY DEF PathsDescend
  <2>1. Shape(forest) /\ Linked(forest) /\ EventsOK(forest)
    BY DEF ForestInv
  <2>2. PICK n \in Nat, m \in Nat : n = Len(forest.nodes) /\ m = Len(forest.index)
    <3>1. Len(forest.nodes) \in Nat /\ Len(forest.index) \in Nat
      BY <2>1, UnderNat
    <3>. QED
      BY <3>1
  <2>3. m > 0 /\ n > 0 /\ Last(forest.index) = forest.index[m]
    <3>1. forest.index \in Seq(PointRecord)
      BY <2>1 DEF Shape, Typed
    <3>2. forest.index # <<>>
      BY DEF InTrees
    <3>3. m # 0
      BY <2>2, <3>1, <3>2
    <3>. QED
      BY <2>1, <2>2, <3>3, UnderNat DEF Last
  <2>4. v \in Int
    BY EventFields DEF Timestamp
  <2>5. forest.nodes[1].nkey <= v
    <3>1. forest.nodes[1].nkey = forest.minKey
      BY <2>1, <2>2, <2>3 DEF Shape, KeysOK
    <3>2. ~(v <= forest.minKey)
      BY DEF InTrees, BeforeTrees
    <3>3. forest.nodes[1].nkey \in Int
      <4>1. 1 \in 1..Len(forest.nodes)
        BY <2>2, <2>3
      <4>. QED
        BY <2>1, <4>1, Keys
    <3>. QED
      BY <2>4, <3>1, <3>2, <3>3
  <2>6. v <= forest.nodes[n].dkey
    <3>1. v <= forest.index[m].dkey
      BY <2>3 DEF InTrees
    <3>2. m \in 1..m
      BY <2>3
    <3>3. forest.index[m].replacement = n
      BY <2>1, <2>2, <3>2, UnderNat DEF Shape, Counted
    <3>. QED
      BY <2>1, <2>2, <3>1, <3>2, <3>3 DEF Shape, PointOK
  <2>7. Point(1) \in Pointers(forest) /\ InRange(forest, Point(1), v)
    <3>1. 1 \in 1..m /\ 1 - 1 = 0 /\ 0 + 1 = 1
      BY <2>3
    <3>2. Under(forest, 1 - 1) + 1 = 1
      BY <3>1 DEF Under
    <3>. QED
      BY <2>2, <2>5, <2>6, <3>1, <3>2 DEF InRange, Pointers
  <2>8. PICK s : s = Path(forest, Point(1), v)
    OBVIOUS
  <2>9. GoesDown(forest, v, Point(1), s)
    BY <2>1, <2>4, <2>7, <2>8, PathDown
  <2>10. DOMAIN s = 1..Len(s)
    <3>1. s \in Seq(Pointers(forest))
      BY <2>9 DEF GoesDown
    <3>. QED
      BY <3>1
  <2>. QED
    BY <2>8, <2>9, <2>10 DEF GoesDown
<1>. QED
  BY <1>1, ForestInvHolds, PTL

---------------------------------------------------------------------------------
(* What the lists of the forest hold. *)

\* The events from one start on that are active at a key they start before, those that
\* start at a key, and those that end before one or not.
Crossing(low, key) == {e \in Event : low <= e.start /\ e.start < key /\ key <= e.end}
Starting(key) == {e \in Event : e.start = key}
Lasting(key) == {e \in Event : key <= e.end}
Ending(key) == {e \in Event : e.end < key}

\* The lists of a node or forest-point: those of its navigation key, in both orders, hold
\* the events of one set, that of its data key those of another.
Sides(n, all, C, D) ==
  /\ Ordered(n.nsa) /\ EndsDescend(n.ded) /\ EndsDescend(n.ned)
  /\ Holds(n.nsa, all, C) /\ Holds(n.ned, all, C) /\ Holds(n.ded, all, D)

\* The times of an event are integers.
LEMMA EventTimes ==
  \A e \in Event : e.start \in Int /\ e.end \in Int /\ e.start <= e.end
BY EventAssumption DEF Timestamp

\* The upper bound cuts a max-list into what lasts and what has ended.
LEMMA CutParts ==
  ASSUME NEW s, NEW all, NEW C \in SUBSET Event, Holds(s, all, C), EndsDescend(s), NEW v \in Int,
         NEW u, u = UpperBoundEnd(s, v)
  PROVE  /\ u \in 1..(Len(s) + 1)
         /\ Holds(SubSeq(s, 1, u - 1), all, C \cap Lasting(v)) /\ EndsDescend(SubSeq(s, 1, u - 1))
         /\ Holds(SubSeq(s, u, Len(s)), all, C \cap Ending(v)) /\ EndsDescend(SubSeq(s, u, Len(s)))
<1>1. s \in Seq(Event)
  BY DEF Holds
<1>2. /\ u \in 1..(Len(s) + 1)
      /\ \A i \in 1..(u - 1) : s[i].end >= v
      /\ u <= Len(s) => ~(s[u].end >= v)
  BY <1>1, CutAt
<1>3. PICK n \in Nat : n = Len(s) /\ DOMAIN s = 1..n /\ u \in 1..(n + 1)
  BY <1>1, <1>2
<1>4. PICK k \in 0..n : k = u - 1 /\ u = k + 1 /\ 1 \in 1..(n + 1) /\ n \in 0..n
  BY <1>3
<1>5. ASSUME NEW i \in 1..n PROVE s[i] \in Lasting(v) <=> i <= k
  <2>1. s[i] \in Event /\ s[i].end \in Int
    BY <1>1, <1>3, EventTimes
  <2>2. CASE i <= k
    <3>1. i \in 1..(u - 1)
      BY <1>4, <2>2
    <3>. QED
      BY <1>2, <2>1, <2>2, <3>1 DEF Lasting
  <2>3. CASE ~(i <= k)
    <3>1. u <= n /\ u \in 1..n /\ (i = u \/ u < i)
      BY <1>3, <1>4, <2>3
    <3>2. ~(s[u].end >= v) /\ s[u] \in Event /\ s[u].end \in Int
      BY <1>1, <1>2, <1>3, <3>1, EventTimes
    <3>3. i = u \/ s[u].end >= s[i].end
      BY <1>3, <3>1 DEF EndsDescend
    <3>4. ~(v <= s[i].end)
      BY <2>1, <3>2, <3>3
    <3>. QED
      BY <2>3, <3>4 DEF Lasting
  <2>. QED
    BY <2>2, <2>3
<1>6. Holds(SubSeq(s, 1, k), all, C \cap Lasting(v)) /\ Holds(SubSeq(s, k + 1, n), all, C \ Lasting(v))
  BY <1>3, <1>4, <1>5, HoldsParted
<1>7. C \ Lasting(v) = C \cap Ending(v)
  BY EventTimes DEF Lasting, Ending
<1>8. EndsDescend(SubSeq(s, 1, k)) /\ EndsDescend(SubSeq(s, u, n))
  BY <1>1, <1>3, <1>4, OrderedPart
<1>. QED
  BY <1>2, <1>3, <1>4, <1>6, <1>7, <1>8

\* merge_three_way of lists of different events.
LEMMA HoldsMerged ==
  ASSUME NEW a, NEW b, NEW c, NEW all, Len(all) \in Nat, NEW A, NEW B, NEW C,
         Holds(a, all, A), Holds(b, all, B), Holds(c, all, C),
         EndsDescend(a), EndsDescend(b), EndsDescend(c),
         A \cap B = {}, A \cap C = {}, B \cap C = {}
  PROVE  /\ Holds(MergeThreeWay(a, b, c), all, A \cup B \cup C)
         /\ EndsDescend(MergeThreeWay(a, b, c))
<1>. DEFINE s == MergeThreeWay(a, b, c)
<1>1. a \in Seq(Event) /\ b \in Seq(Event) /\ c \in Seq(Event)
  BY DEF Holds
<1>2. MaxListOf(s, ThreeOf(a, b, c, 1, 1, 1))
  BY <1>1, ThreeMerged
<1>. HIDE DEF s
<1>3. Rest(a, 1) = a /\ Rest(b, 1) = b /\ Rest(c, 1) = c
  BY <1>1, RestAll
<1>4. ASSUME NEW e \in Event
      PROVE  Occurrences(s, e) = IF e \in A \cup B \cup C THEN Occurrences(all, e) ELSE 0
  <2>1. PICK n \in Nat : n = Occurrences(all, e)
    BY OccNat
  <2>2. /\ Occurrences(a, e) = (IF e \in A THEN n ELSE 0)
        /\ Occurrences(b, e) = (IF e \in B THEN n ELSE 0)
        /\ Occurrences(c, e) = (IF e \in C THEN n ELSE 0)
    BY <2>1 DEF Holds
  <2>3. Occurrences(s, e) = Occurrences(a, e) + Occurrences(b, e) + Occurrences(c, e)
    BY <1>2, <1>3 DEF MaxListOf, ThreeOf
  <2>4. ~(e \in A /\ e \in B) /\ ~(e \in A /\ e \in C) /\ ~(e \in B /\ e \in C)
    OBVIOUS
  <2>. QED
    BY <2>1, <2>2, <2>3, <2>4
<1>. QED
  BY <1>2, <1>4 DEF MaxListOf, Holds, s

\* The lists that a merge writes into the root of the new tree.
LEMMA MergedRootSides ==
  ASSUME NEW left \in PointRecord, NEW right \in PointRecord, NEW node \in NodeRecord, NEW key \in Int,
         NEW all, NEW C \in SUBSET Event, NEW D \in SUBSET Event, Sides(left, all, C, D)
  PROVE  Sides(MergedRoot(node, left, right, key), all, C \cap Ending(key), D \cap Ending(key))
<1>. DEFINE kept == {i \in DOMAIN left.nsa : EndsBefore(key, left.nsa[i])}
            before == ElementsAt(left.nsa, kept)
            lastD == SubSeq(left.ded, UpperBoundEnd(left.ded, key), Len(left.ded))
            lastN == SubSeq(left.ned, UpperBoundEnd(left.ned, key), Len(left.ned))
            Root(x, y, z) == [node EXCEPT !.left = left.left, !.right = right.left,
                                          !.height = left.height, !.nsa = x, !.ded = y, !.ned = z]
            root == MergedRoot(node, left, right, key)
<1>1. root = Root(before, lastD, lastN)
  BY DEF MergedRoot, Selected
<1>2. ASSUME NEW x, NEW y, NEW z
      PROVE  Root(x, y, z).nsa = x /\ Root(x, y, z).ded = y /\ Root(x, y, z).ned = z
  BY DEF NodeRecord
<1>3. /\ Ordered(left.nsa) /\ EndsDescend(left.ded) /\ EndsDescend(left.ned)
      /\ Holds(left.nsa, all, C) /\ Holds(left.ned, all, C) /\ Holds(left.ded, all, D)
  BY DEF Sides
<1>4. left.nsa \in Seq(Event) /\ DOMAIN left.nsa = 1..Len(left.nsa)
  BY <1>3 DEF Holds
<1>5. kept = {i \in DOMAIN left.nsa : left.nsa[i] \in Ending(key)}
  BY <1>4 DEF EndsBefore, Ending
<1>6. kept \in SUBSET (1..Len(left.nsa))
  BY <1>4
<1>. HIDE DEF Root, kept, root
<1>7. Holds(before, all, C \cap Ending(key))
  BY <1>3, <1>5, HoldsKept
<1>8. Ordered(before)
  BY <1>3, <1>4, <1>6, OrderedKept
<1>9. Holds(lastD, all, D \cap Ending(key)) /\ EndsDescend(lastD)
  BY <1>3, CutParts
<1>10. Holds(lastN, all, C \cap Ending(key)) /\ EndsDescend(lastN)
  BY <1>3, CutParts
<1>. HIDE DEF before, lastD, lastN
<1>11. root.nsa = before /\ root.ded = lastD /\ root.ned = lastN
  BY <1>1, <1>2
<1>12. Sides(root, all, C \cap Ending(key), D \cap Ending(key))
  BY <1>7, <1>8, <1>9, <1>10, <1>11 DEF Sides
<1>. QED
  BY <1>12 DEF root

\* The lists of the forest-point that a merge makes.
LEMMA MergedPointLists ==
  ASSUME NEW left \in PointRecord, NEW right \in PointRecord, NEW node \in NodeRecord, NEW key \in Int
  PROVE  LET point == MergedPoint(node, left, right, key)
             kept == {i \in DOMAIN left.nsa : ~EndsBefore(key, left.nsa[i])}
             dll == SubSeq(left.ded, 1, UpperBoundEnd(left.ded, key) - 1)
             nll == SubSeq(left.ned, 1, UpperBoundEnd(left.ned, key) - 1)
         IN /\ point.nsa = ElementsAt(left.nsa, kept) \o Reverse(dll) \o right.nsa
            /\ point.ded = right.ded
            /\ point.ned = MergeThreeWay(nll, dll, right.ned)
<1>. DEFINE M == MergedMaxList(node, left, right, key)
            P == [M EXCEPT !.left = Tree(left.replacement), !.right = Null, !.height = left.height + 1]
            kept == {i \in DOMAIN left.nsa : ~EndsBefore(key, left.nsa[i])}
            dll == SubSeq(left.ded, 1, UpperBoundEnd(left.ded, key) - 1)
            nll == SubSeq(left.ned, 1, UpperBoundEnd(left.ned, key) - 1)
            all == ElementsAt(left.nsa, kept) \o Reverse(dll) \o right.nsa
            most == MergeThreeWay(nll, dll, right.ned)
            Max3(x, y, z) == [node EXCEPT !.nsa = x, !.ded = y, !.ned = z]
<1>1. M = Max3(all, right.ded, most)
  BY DEF MergedMaxList, Selected
<1>2. ASSUME NEW x, NEW y, NEW z
      PROVE  /\ Max3(x, y, z).nsa = x /\ Max3(x, y, z).ded = y /\ Max3(x, y, z).ned = z
             /\ DOMAIN Max3(x, y, z) = DOMAIN node
  BY DEF NodeRecord
<1>3. {"left", "right", "height", "nsa", "ded", "ned"} \subseteq DOMAIN node
  BY DEF NodeRecord
<1>4. MergedPoint(node, left, right, key) = AsPoint(P, right.replacement)
  BY DEF MergedPoint
<1>. HIDE DEF Max3, all, most
<1>5. M.nsa = all /\ M.ded = right.ded /\ M.ned = most /\ DOMAIN M = DOMAIN node
  BY <1>1, <1>2
<1>. HIDE DEF M
<1>6. P.nsa = all /\ P.ded = right.ded /\ P.ned = most
  BY <1>3, <1>5
<1>. HIDE DEF P
<1>7. /\ AsPoint(P, right.replacement).nsa = P.nsa /\ AsPoint(P, right.replacement).ded = P.ded
      /\ AsPoint(P, right.replacement).ned = P.ned
  BY DEF AsPoint
<1>. QED
  BY <1>4, <1>6, <1>7 DEF all, most

\* The lists of a merged forest-point hold what starts before its key and is active there.
LEMMA MergedPointSides ==
  ASSUME NEW left \in PointRecord, NEW right \in PointRecord, NEW node \in NodeRecord, NEW key \in Int,
         NEW all, Len(all) \in Nat, NEW low \in Int, NEW mid \in Int,
         Sides(left, all, Crossing(low, left.nkey), Starting(left.dkey)),
         Sides(right, all, Crossing(mid, key), Starting(right.dkey)),
         low <= left.nkey, left.nkey <= left.dkey, mid = left.dkey + 1, mid <= key,
         \A e \in Event : Occurrences(all, e) # 0 /\ left.nkey <= e.start /\ e.start <= left.dkey
                            => e.start = left.dkey
  PROVE  Sides(MergedPoint(node, left, right, key), all, Crossing(low, key), Starting(right.dkey))
<1>. DEFINE point == MergedPoint(node, left, right, key)
            kept == {i \in DOMAIN left.nsa : ~EndsBefore(key, left.nsa[i])}
            after == ElementsAt(left.nsa, kept)
            dll == SubSeq(left.ded, 1, UpperBoundEnd(left.ded, key) - 1)
            nll == SubSeq(left.ned, 1, UpperBoundEnd(left.ned, key) - 1)
            A == Crossing(low, left.nkey) \cap Lasting(key)
            B == Starting(left.dkey) \cap Lasting(key)
            C == Crossing(mid, key)
<1>1. /\ point.nsa = after \o Reverse(dll) \o right.nsa
      /\ point.ded = right.ded
      /\ point.ned = MergeThreeWay(nll, dll, right.ned)
  BY MergedPointLists
<1>. HIDE DEF point
<1>2. /\ Ordered(left.nsa) /\ EndsDescend(left.ded) /\ EndsDescend(left.ned)
      /\ Holds(left.nsa, all, Crossing(low, left.nkey)) /\ Holds(left.ned, all, Crossing(low, left.nkey))
      /\ Holds(left.ded, all, Starting(left.dkey))
  BY DEF Sides
<1>3. /\ Ordered(right.nsa) /\ EndsDescend(right.ded) /\ EndsDescend(right.ned)
      /\ Holds(right.nsa, all, C) /\ Holds(right.ned, all, C)
      /\ Holds(right.ded, all, Starting(right.dkey))
  BY DEF Sides
<1>4. Holds(after, all, A) /\ Ordered(after)
  <2>1. left.nsa \in Seq(Event) /\ DOMAIN left.nsa = 1..Len(left.nsa)
    BY <1>2 DEF Holds
  <2>2. kept = {i \in DOMAIN left.nsa : left.nsa[i] \in Lasting(key)}
    <3>1. \A i \in DOMAIN left.nsa : left.nsa[i] \in Event
      BY <2>1
    <3>2. \A e \in Event : ~EndsBefore(key, e) <=> e \in Lasting(key)
      BY EventTimes DEF EndsBefore, Lasting
    <3>. QED
      BY <3>1, <3>2
  <2>3. kept \in SUBSET (1..Len(left.nsa))
    BY <2>1
  <2>. HIDE DEF kept
  <2>. QED
    BY <1>2, <2>1, <2>2, <2>3, HoldsKept, OrderedKept
<1>5. /\ Crossing(low, left.nkey) \in SUBSET Event /\ Starting(left.dkey) \in SUBSET Event
      /\ C \in SUBSET Event
  BY DEF Crossing, Starting
<1>6. Holds(dll, all, B) /\ EndsDescend(dll) /\ Holds(nll, all, A) /\ EndsDescend(nll)
  BY <1>2, <1>5, CutParts
<1>7. /\ \A e \in A : e \in Event /\ e.start \in Int /\ low <= e.start /\ e.start < left.nkey /\ key <= e.end
      /\ \A e \in B : e \in Event /\ e.start \in Int /\ e.start = left.dkey /\ key <= e.end
      /\ \A e \in C : e \in Event /\ e.start \in Int /\ mid <= e.start /\ e.start < key /\ key <= e.end
  BY EventTimes DEF Crossing, Starting, Lasting
<1>8. left.nkey \in Int /\ left.dkey \in Int
  BY DEF PointRecord
<1>9. A \cap B = {} /\ A \cap C = {} /\ B \cap C = {} /\ (A \cup B) \cap C = {}
  <2>1. \A e \in A, d \in B : e.start < d.start
    BY <1>7, <1>8
  <2>2. \A e \in A, d \in C : e.start < d.start
    BY <1>7, <1>8
  <2>3. \A e \in B, d \in C : e.start < d.start
    BY <1>7, <1>8
  <2>4. \A e \in Event : ~(e.start < e.start)
    BY EventTimes
  <2>. HIDE DEF A, B, C
  <2>. QED
    BY <1>7, <2>1, <2>2, <2>3, <2>4
<1>10. \A e \in Event : /\ e \in A \cup B \cup C => e \in Crossing(low, key)
                        /\ e \in Crossing(low, key) /\ Occurrences(all, e) # 0 => e \in A \cup B \cup C
  <2>1. ASSUME NEW e \in Event, e \in A \cup B \cup C PROVE e \in Crossing(low, key)
    <3>1. low <= e.start /\ e.start < key /\ key <= e.end
      BY <1>7, <1>8, <2>1
    <3>. QED
      BY <3>1 DEF Crossing
  <2>2. ASSUME NEW e \in Event, e \in Crossing(low, key), Occurrences(all, e) # 0
        PROVE  e \in A \cup B \cup C
    <3>1. low <= e.start /\ e.start < key /\ key <= e.end /\ e.start \in Int
      BY <2>2, EventTimes DEF Crossing
    <3>2. CASE e.start < left.nkey
      <4>1. left.nkey <= key
        BY <1>8, EventTimes
      <4>2. left.nkey <= e.end
        BY <1>8, <3>1, <4>1, EventTimes
      <4>3. e \in Crossing(low, left.nkey)
        BY <3>1, <3>2, <4>2 DEF Crossing
      <4>4. e \in Lasting(key)
        BY <3>1 DEF Lasting
      <4>. QED
        BY <4>3, <4>4
    <3>3. CASE left.nkey <= e.start /\ e.start <= left.dkey
      <4>1. e.start = left.dkey
        BY <2>2, <3>3
      <4>. QED
        BY <3>1, <4>1 DEF Starting, Lasting
    <3>4. CASE left.dkey < e.start
      <4>1. mid <= e.start
        BY <1>8, <3>1, <3>4
      <4>. QED
        BY <3>1, <4>1 DEF Crossing
    <3>. QED
      BY <1>8, <3>1, <3>2, <3>3, <3>4
  <2>. QED
    BY <2>1, <2>2
<1>. HIDE DEF A, B, C, after, dll, nll
<1>11. Holds(point.ned, all, Crossing(low, key)) /\ EndsDescend(point.ned)
  <2>1. Holds(point.ned, all, A \cup B \cup C) /\ EndsDescend(point.ned)
    BY <1>1, <1>3, <1>6, <1>9, HoldsMerged
  <2>. QED
    BY <1>10, <2>1, HoldsSame
<1>12. Holds(Reverse(dll), all, B) /\ Ordered(Reverse(dll))
  <2>1. dll \in Seq(Event)
    BY <1>6 DEF Holds
  <2>2. \A i \in 1..Len(dll) : dll[i].start = left.dkey
    BY <1>6, <1>7, HoldsMember
  <2>3. \A i, j \in 1..Len(dll) : dll[i].start = dll[j].start
    BY <2>2
  <2>. QED
    BY <1>6, <2>1, <2>3, HoldsBackwards, OneStartBackwards
<1>. DEFINE rev == Reverse(dll)
<1>. HIDE DEF rev
<1>13. Holds(after \o rev, all, A \cup B) /\ Ordered(after \o rev)
  <2>1. Holds(rev, all, B) /\ Ordered(rev)
    BY <1>12 DEF rev
  <2>2. after \in Seq(Event) /\ rev \in Seq(Event)
    BY <1>4, <2>1 DEF Holds
  <2>3. ASSUME NEW i \in 1..Len(after), NEW j \in 1..Len(rev) PROVE after[i].start < rev[j].start
    <3>1. after[i] \in A /\ rev[j] \in B
      BY <1>4, <2>1, HoldsMember
    <3>. QED
      BY <1>7, <1>8, <3>1
  <2>. QED
    BY <1>4, <1>9, <2>1, <2>2, <2>3, HoldsBoth, OrderedBoth
<1>14. Holds((after \o rev) \o right.nsa, all, A \cup B \cup C) /\ Ordered((after \o rev) \o right.nsa)
  <2>. DEFINE s == after \o rev
              t == right.nsa
  <2>. HIDE DEF s, t
  <2>1. Holds(s, all, A \cup B) /\ Ordered(s) /\ Holds(t, all, C) /\ Ordered(t)
    BY <1>3, <1>13 DEF s, t
  <2>2. s \in Seq(Event) /\ t \in Seq(Event)
    BY <2>1 DEF Holds
  <2>3. ASSUME NEW i \in 1..Len(s), NEW j \in 1..Len(t) PROVE s[i].start < t[j].start
    <3>1. s[i] \in A \cup B /\ t[j] \in C
      BY <2>1, HoldsMember
    <3>. QED
      BY <1>7, <1>8, <3>1
  <2>4. Holds(s \o t, all, (A \cup B) \cup C) /\ Ordered(s \o t)
    BY <1>9, <2>1, <2>2, <2>3, HoldsBoth, OrderedBoth
  <2>. QED
    BY <2>4 DEF s, t
<1>15. Holds(point.nsa, all, Crossing(low, key)) /\ Ordered(point.nsa)
  <2>1. point.nsa = (after \o rev) \o right.nsa
    BY <1>1 DEF rev
  <2>. QED
    BY <1>10, <1>14, <2>1, HoldsSame
<1>16. Sides(point, all, Crossing(low, key), Starting(right.dkey))
  BY <1>1, <1>3, <1>11, <1>15 DEF Sides
<1>. QED
  BY <1>16 DEF point

---------------------------------------------------------------------------------
(* What all lists hold, in every forest. *)

\* The events that nodes have.
Indexed(f) == SubSeq(f.events, 1, f.tail - 1)

\* A forest-point has, of the events that start in its tree, those active at its
\* navigation key, and those that start at its data key.
PointHolds(f, i) ==
  LET p == f.index[i]
  IN Sides(p, Indexed(f), Crossing(f.nodes[Under(f, i - 1) + 1].nkey, p.nkey), Starting(p.dkey))

\* A node of a tree has, of the events that start in its subtree, the same, but without
\* those that last until the subtree's intervals are over: nodes further up have them.
NodeHolds(f, j) ==
  LET n == f.nodes[j]
      w == Leaves[n.height] - 1
      gone == Ending(f.nodes[j + w].dkey + 1)
  IN Sides(n, Indexed(f), Crossing(f.nodes[j - w].nkey, n.nkey) \cap gone, Starting(n.dkey) \cap gone)
ListsHold(f) ==
  /\ \A i \in 1..Len(f.index) : PointHolds(f, i)
  /\ \A j \in 1..Len(f.nodes) :
       IF j \in Settled(f) THEN NodeHolds(f, j)
       ELSE f.nodes[j].nsa = <<>> /\ f.nodes[j].ded = <<>> /\ f.nodes[j].ned = <<>>

\* The nodes cut the event list where their keys say.
CutsAt(f, j) ==
  \A p \in 1..Len(f.events) :
    /\ p < f.nodes[j].dataBegin => f.events[p].start < f.nodes[j].nkey
    /\ f.nodes[j].dataBegin <= p /\ p < f.nodes[j].dataEnd => f.events[p].start = f.nodes[j].dkey
    /\ f.nodes[j].dataEnd <= p => f.nodes[j].dkey < f.events[p].start
CutOK(f) ==
  /\ \A j \in 1..Len(f.nodes) : CutsAt(f, j)
  /\ Len(f.nodes) > 0 => f.nodes[Len(f.nodes)].dataEnd = f.tail

\* Keys go up from node to node.
LEMMA KeysUp ==
  ASSUME NEW f, Shape(f), NEW i \in 1..Len(f.nodes), NEW j \in 1..Len(f.nodes), i <= j
  PROVE  /\ f.nodes[i].nkey \in Int /\ f.nodes[i].dkey \in Int
         /\ f.nodes[i].nkey <= f.nodes[i].dkey
         /\ f.nodes[j].nkey \in Int /\ f.nodes[j].dkey \in Int
         /\ f.nodes[i].nkey <= f.nodes[j].nkey
         /\ i < j => f.nodes[i].dkey < f.nodes[j].nkey
<1>1. PICK n \in Nat : n = Len(f.nodes)
  <2>1. Len(f.nodes) \in Nat
    BY UnderNat
  <2>. QED
    BY <2>1
<1>2. \A k \in 1..n : /\ f.nodes[k].nkey \in Int /\ f.nodes[k].dkey \in Int
                      /\ f.nodes[k].nkey <= f.nodes[k].dkey
                      /\ k + 1 <= n => f.nodes[k + 1].nkey = f.nodes[k].dkey + 1
  BY <1>1, Keys DEF Shape, KeysOK
<1>. DEFINE Up(d) == i + d <= n => /\ f.nodes[i].nkey <= f.nodes[i + d].nkey
                                   /\ 0 < d => f.nodes[i].dkey < f.nodes[i + d].nkey
            S == {d \in Nat : Up(d)}
<1>3. 0 \in S
  <2>1. i + 0 = i /\ i \in 1..n
    BY <1>1
  <2>. QED
    BY <1>2, <2>1
<1>4. ASSUME NEW d \in S PROVE d + 1 \in S
  <2>1. ASSUME i + (d + 1) <= n PROVE Up(d + 1)
    <3>1. PICK k \in 1..n : k = i + d /\ k + 1 = i + (d + 1) /\ k + 1 \in 1..n /\ i \in 1..n
      BY <1>1, <2>1
    <3>2. f.nodes[i].nkey <= f.nodes[k].nkey /\ (0 < d => f.nodes[i].dkey < f.nodes[k].nkey)
      BY <3>1
    <3>3. d = 0 => k = i
      BY <3>1
    <3>4. f.nodes[i].dkey < f.nodes[k + 1].nkey
      <4>1. PICK x \in Int, y \in Int, z \in Int, u \in Int :
              x = f.nodes[i].dkey /\ y = f.nodes[k].nkey /\ z = f.nodes[k].dkey /\ u = f.nodes[k + 1].nkey
        BY <1>2, <3>1
      <4>2. u = z + 1 /\ y <= z
        BY <1>2, <3>1, <4>1
      <4>3. CASE d = 0
        BY <3>3, <4>1, <4>2, <4>3
      <4>4. CASE d # 0
        <5>1. x < y
          BY <3>2, <4>1, <4>4
        <5>. QED
          BY <4>1, <4>2, <5>1
      <4>. QED
        BY <4>3, <4>4
    <3>5. f.nodes[i].nkey <= f.nodes[k + 1].nkey
      BY <1>2, <3>1, <3>4
    <3>. QED
      BY <3>1, <3>4, <3>5
  <2>2. Up(d + 1)
    BY <2>1
  <2>. HIDE DEF Up
  <2>. QED
    BY <2>2
<1>5. S = Nat
  <2>1. S \in SUBSET Nat
    OBVIOUS
  <2>. HIDE DEF S
  <2>. QED
    BY <1>3, <1>4, <2>1, NatAll
<1>6. PICK d \in Nat : j = i + d /\ i + d <= n /\ (i < j <=> 0 < d)
  <2>1. j - i \in Nat /\ j = i + (j - i) /\ i + (j - i) <= n /\ (i < j <=> 0 < j - i)
    BY <1>1
  <2>. QED
    BY <2>1
<1>7. Up(d)
  <2>1. d \in S
    <3>. HIDE DEF S
    <3>. QED
      BY <1>5
  <2>. QED
    BY <2>1
<1>. QED
  BY <1>1, <1>2, <1>6, <1>7

\* The tree of a forest-point starts at a node that is there.
LEMMA UnderNext ==
  ASSUME NEW f, Shape(f), NEW i \in 1..Len(f.index)
  PROVE  Under(f, i - 1) + 1 \in 1..Len(f.nodes)
<1>1. PICK b \in Nat, m \in Nat : b = Len(f.nodes) /\ m = Len(f.index)
  <2>1. Len(f.nodes) \in Nat /\ Len(f.index) \in Nat
    BY UnderNat
  <2>. QED
    BY <2>1
<1>2. i \in 1..m /\ i - 1 \in 0..m /\ i \in 0..m
  BY <1>1
<1>3. PICK u \in 0..b, v \in 0..b : u = Under(f, i - 1) /\ v = Under(f, i)
  BY <1>1, <1>2, UnderNat
<1>4. Under(f, i) = Under(f, i - 1) + Leaves[f.index[i].height]
  BY DEF Shape, Counted
<1>5. PICK k \in Nat : k = Leaves[f.index[i].height] /\ k > 0
  <2>1. f.index[i].height \in Nat
    BY UnderNat
  <2>2. Leaves[f.index[i].height] \in Nat /\ Leaves[f.index[i].height] > 0
    BY <2>1, LeavesDouble
  <2>. QED
    BY <2>2
<1>6. u + 1 \in 1..b
  BY <1>3, <1>4, <1>5
<1>. QED
  BY <1>1, <1>3, <1>6

\* The subtree of a node of a tree is made of nodes that are there.
LEMMA SettledReach ==
  ASSUME NEW f, Shape(f), NEW j \in Settled(f)
  PROVE  LET w == Leaves[f.nodes[j].height] - 1
         IN /\ j \in 1..Len(f.nodes) /\ f.nodes[j].height \in Nat /\ w \in Nat
            /\ j - w \in 1..Len(f.nodes) /\ j + w \in 1..Len(f.nodes)
<1>1. PICK n \in Nat, m \in Nat : n = Len(f.nodes) /\ m = Len(f.index)
  <2>1. Len(f.nodes) \in Nat /\ Len(f.index) \in Nat
    BY UnderNat
  <2>. QED
    BY <2>1
<1>2. j \in 1..n /\ j \in Nat /\ \A i \in 1..m : f.index[i].replacement # j
  BY <1>1 DEF Settled
<1>3. PICK i \in 1..m : Under(f, i - 1) < j /\ j <= Under(f, i)
  BY <1>1, <1>2, Covered
<1>4. PICK lo \in 0..n, hi \in 0..n : lo = Under(f, i - 1) /\ hi = Under(f, i)
  <2>1. i - 1 \in 0..m /\ i \in 0..m
    BY <1>1
  <2>. QED
    BY <1>1, <2>1, UnderNat
<1>5. j < Under(f, i)
  <2>1. Under(f, i) # j
    BY <1>1, <1>2, UnderNat
  <2>. QED
    BY <1>2, <1>3, <1>4, <2>1
<1>6. TreeNodeOK(f.nodes, lo, j, hi, f.index[i].height)
  BY <1>1, <1>2, <1>3, <1>4, <1>5 DEF Shape, TreesOK
<1>7. PICK h \in Nat : h = f.nodes[j].height
  BY <1>1, <1>2, Keys
<1>8. PICK k \in Nat : k = Leaves[h] /\ k > 0
  <2>1. Leaves[h] \in Nat /\ Leaves[h] > 0
    BY LeavesDouble
  <2>. QED
    BY <2>1
<1>9. lo <= j - k /\ j + k <= hi
  BY <1>6, <1>7, <1>8 DEF TreeNodeOK
<1>10. k - 1 \in Nat /\ j - (k - 1) \in 1..n /\ j + (k - 1) \in 1..n
  BY <1>2, <1>4, <1>8, <1>9
<1>. QED
  BY <1>1, <1>2, <1>7, <1>8, <1>10

\* No indexed event starts between the two keys of a node.
LEMMA NoneBetween ==
  ASSUME NEW f, Shape(f), CutOK(f), f.tail \in 1..(Len(f.events) + 1),
         NEW j \in 1..Len(f.nodes), NEW e \in Event, Occurrences(Indexed(f), e) # 0,
         f.nodes[j].nkey <= e.start, e.start <= f.nodes[j].dkey
  PROVE  e.start = f.nodes[j].dkey
<1>1. f.events \in Seq(Event) /\ f.nodes[j] \in NodeRecord
  BY DEF Shape, Typed
<1>2. PICK l \in Nat, t \in Nat : l = Len(f.events) /\ t = f.tail /\ t \in 1..(l + 1)
  BY <1>1
<1>3. Len(Indexed(f)) = t - 1 /\ \A p \in 1..(t - 1) : Indexed(f)[p] = f.events[p] /\ p \in 1..l
  <2>1. t - 1 \in 0..l
    BY <1>2
  <2>. QED
    BY <1>1, <1>2, <2>1, TwoParts DEF Indexed
<1>4. PICK p \in 1..(t - 1) : Indexed(f)[p] = e
  <2>1. Len(Indexed(f)) \in Nat
    BY <1>2, <1>3
  <2>. QED
    BY <1>3, <2>1, OccNat
<1>5. p \in 1..l /\ f.events[p] = e /\ p \in Int
  BY <1>3, <1>4
<1>6. CutsAt(f, j)
  BY DEF CutOK
<1>7. PICK b \in Int, d \in Int, x \in Int, y \in Int, s \in Int :
        /\ b = f.nodes[j].dataBegin /\ d = f.nodes[j].dataEnd
        /\ x = f.nodes[j].nkey /\ y = f.nodes[j].dkey /\ s = e.start
  <2>1. /\ f.nodes[j].dataBegin \in Int /\ f.nodes[j].dataEnd \in Int
        /\ f.nodes[j].nkey \in Int /\ f.nodes[j].dkey \in Int
    BY <1>1 DEF NodeRecord
  <2>2. e.start \in Int
    BY EventTimes
  <2>. QED
    BY <2>1, <2>2
<1>8. (p < b => s < x) /\ (b <= p /\ p < d => s = y) /\ (d <= p => y < s)
  BY <1>2, <1>5, <1>6, <1>7 DEF CutsAt
<1>9. x <= s /\ s <= y
  BY <1>7
<1>10. s = y
  <2>1. ~(p < b)
    BY <1>8, <1>9
  <2>2. ~(d <= p)
    BY <1>8, <1>9
  <2>. QED
    BY <1>5, <1>8, <2>1, <2>2
<1>. QED
  BY <1>7, <1>10

\* Where the trees of the last two forest-points lie, when they have one height.
LEMMA MergePlaces ==
  ASSUME NEW f, Shape(f), LastTwoLevel(f)
  PROVE  \E m \in Nat, a \in Nat, h \in Nat, k \in Nat :
           /\ m = Len(f.index) /\ m >= 2 /\ a = Under(f, m - 2) /\ k = Leaves[h] /\ k > 0
           /\ f.index[m - 1] \in PointRecord /\ f.index[m] \in PointRecord
           /\ f.index[m - 1].height = h /\ f.index[m].height = h
           /\ f.index[m - 1].replacement = a + k /\ f.index[m].replacement = (a + k) + k
           /\ Len(f.nodes) = (a + k) + k
<1>1. PICK m \in Nat, n \in Nat : m = Len(f.index) /\ n = Len(f.nodes)
  <2>1. Len(f.index) \in Nat /\ Len(f.nodes) \in Nat
    BY UnderNat
  <2>. QED
    BY <2>1
<1>2. m >= 2 /\ f.index[m - 1].height = f.index[m].height
  BY <1>1 DEF LastTwoLevel
<1>3. m - 1 \in 1..m /\ m \in 1..m /\ (m - 1) - 1 = m - 2 /\ m - 2 \in 0..m /\ m # 0 /\ m - 1 # 0
  BY <1>2
<1>4. f.index[m - 1] \in PointRecord /\ f.index[m] \in PointRecord
  BY <1>1, <1>3, UnderNat
<1>5. PICK h \in Nat, a \in Nat : h = f.index[m].height /\ a = Under(f, m - 2)
  <2>1. f.index[m].height \in Nat /\ Under(f, m - 2) \in 0..n
    BY <1>1, <1>3, UnderNat
  <2>. QED
    BY <1>1, <2>1
<1>6. PICK k \in Nat : k = Leaves[h] /\ k > 0
  <2>1. Leaves[h] \in Nat /\ Leaves[h] > 0
    BY LeavesDouble
  <2>. QED
    BY <2>1
<1>7. Counted(f)
  BY DEF Shape
<1>8. Under(f, m - 1) = a + k
  BY <1>1, <1>2, <1>3, <1>5, <1>6, <1>7 DEF Counted
<1>9. Under(f, m) = (a + k) + k /\ Under(f, m) = n
  BY <1>1, <1>3, <1>5, <1>6, <1>7, <1>8 DEF Counted
<1>10. f.index[m - 1].replacement = a + k /\ f.index[m].replacement = (a + k) + k
  BY <1>3, <1>8, <1>9 DEF Under
<1>11. /\ m = Len(f.index) /\ m >= 2 /\ a = Under(f, m - 2) /\ k = Leaves[h] /\ k > 0
       /\ f.index[m - 1] \in PointRecord /\ f.index[m] \in PointRecord
       /\ f.index[m - 1].height = h /\ f.index[m].height = h
       /\ f.index[m - 1].replacement = a + k /\ f.index[m].replacement = (a + k) + k
       /\ Len(f.nodes) = (a + k) + k
  <2>1. f.index[m - 1].height = h /\ f.index[m].height = h
    BY <1>2, <1>5
  <2>2. Len(f.nodes) = (a + k) + k
    BY <1>1, <1>9
  <2>. QED
    BY <1>1, <1>2, <1>4, <1>5, <1>6, <1>10, <2>1, <2>2
<1>. QED
  BY <1>11

\* The lists of a node depend on it, on the indexed events, and on the keys of its subtree.
LEMMA NodeHoldsKept ==
  ASSUME NEW f, NEW g, NEW j, NodeHolds(f, j), Indexed(g) = Indexed(f), g.nodes[j] = f.nodes[j],
         LET w == Leaves[f.nodes[j].height] - 1
         IN g.nodes[j - w].nkey = f.nodes[j - w].nkey /\ g.nodes[j + w].dkey = f.nodes[j + w].dkey
  PROVE  NodeHolds(g, j)
BY DEF NodeHolds

\* Merging two forest-points hands their events to the new tree and the new forest-point.
LEMMA MergeHolds ==
  ASSUME NEW f, Shape(f), LastTwoLevel(f), CutOK(f), f.tail \in 1..(Len(f.events) + 1), ListsHold(f)
  PROVE  ListsHold(MergeForestPoints(f))
<1>1. PICK m \in Nat, a \in Nat, h \in Nat, k \in Nat :
        /\ m = Len(f.index) /\ m >= 2 /\ a = Under(f, m - 2) /\ k = Leaves[h] /\ k > 0
        /\ f.index[m - 1] \in PointRecord /\ f.index[m] \in PointRecord
        /\ f.index[m - 1].height = h /\ f.index[m].height = h
        /\ f.index[m - 1].replacement = a + k /\ f.index[m].replacement = (a + k) + k
        /\ Len(f.nodes) = (a + k) + k
  BY MergePlaces
<1>2. PICK c \in Nat, b \in Nat : c = a + k /\ b = c + k
  OBVIOUS
<1>3. PICK left \in PointRecord, right \in PointRecord : left = f.index[m - 1] /\ right = f.index[m]
  BY <1>1
<1>4. left.height = h /\ left.replacement = c /\ right.replacement = b /\ Len(f.nodes) = b
  BY <1>1, <1>2, <1>3
<1>5. /\ m - 1 \in 1..m /\ m \in 1..m /\ (m - 1) - 1 = m - 2 /\ m - 1 # 0
      /\ a + 1 \in 1..b /\ c \in 1..b /\ b \in 1..b /\ c + 1 \in 1..b /\ b - 1 \in 1..b
      /\ a + 1 <= c /\ c < b /\ c + 1 <= b /\ c < c + 1
      /\ c - (k - 1) = a + 1 /\ c + (k - 1) = b - 1 /\ (b - 1) + 1 = b /\ b # c
  <2>1. m - 1 \in 1..m /\ m \in 1..m /\ (m - 1) - 1 = m - 2 /\ m - 1 # 0
    BY <1>1
  <2>2. k > 0
    BY <1>1
  <2>3. a + 1 \in 1..b /\ c \in 1..b /\ b \in 1..b /\ c + 1 \in 1..b /\ b - 1 \in 1..b
    BY <1>2, <2>2
  <2>4. /\ a + 1 <= c /\ c < b /\ c + 1 <= b /\ c < c + 1
        /\ c - (k - 1) = a + 1 /\ c + (k - 1) = b - 1 /\ (b - 1) + 1 = b /\ b # c
    BY <1>2, <2>2
  <2>. QED
    BY <2>1, <2>3, <2>4
<1>6. /\ f.nodes[c] \in NodeRecord /\ f.nodes[b] \in NodeRecord /\ f.nodes[b].nkey \in Int
  <2>1. f.nodes \in Seq(NodeRecord)
    BY DEF Shape, Typed
  <2>2. c \in 1..Len(f.nodes) /\ b \in 1..Len(f.nodes)
    BY <1>4, <1>5
  <2>3. f.nodes[c] \in NodeRecord /\ f.nodes[b] \in NodeRecord
    BY <2>1, <2>2
  <2>. QED
    BY <2>3 DEF NodeRecord
<1>a. m \in Nat /\ m >= 2 /\ m = Len(f.index)
  BY <1>1
<1>b. m = 2 \/ m - 2 \in 1..(m - 2)
  <2>1. ASSUME NEW n \in Nat, n >= 2 PROVE n = 2 \/ n - 2 \in 1..(n - 2)
    BY <2>1
  <2>. QED
    BY <1>a, <2>1
<1>. DEFINE g == MergeForestPoints(f)
            all == Indexed(f)
            key == f.nodes[b].nkey
            low == f.nodes[a + 1].nkey
            mid == f.nodes[c + 1].nkey
            root == MergedRoot(f.nodes[c], left, right, key)
            point == MergedPoint(f.nodes[b], left, right, key)
<1>7. /\ g.events = f.events /\ g.tail = f.tail
      /\ Len(g.index) = m - 1 /\ Len(g.nodes) = b
      /\ \A i \in 1..(m - 2) : g.index[i] = f.index[i]
      /\ \A j \in 1..b : j # c => g.nodes[j] = f.nodes[j]
      /\ g.nodes[c] = root /\ g.index[m - 1] = point
  <2>1. Typed(f) /\ \A i \in 1..Len(f.index) : f.index[i].replacement \in 1..Len(f.nodes)
    BY DEF Shape, PointOK
  <2>. QED
    BY <1>1, <1>3, <1>4, <2>1, MergeParts
<1>8. /\ root.height = h /\ root.nkey = f.nodes[c].nkey /\ root.dkey = f.nodes[c].dkey
  BY <1>4, <1>6, MergedRootFields
<1>18. PICK x \in NodeRecord, y \in NodeRecord : x = f.nodes[c] /\ y = f.nodes[b]
  BY <1>6
<1>9. /\ point.replacement = b /\ point.nkey = key /\ point.dkey = f.nodes[b].dkey
  <2>1. PICK kk \in Int : kk = key
    BY <1>6
  <2>. DEFINE p == MergedPoint(y, left, right, kk)
  <2>2. p.replacement = right.replacement /\ p.nkey = y.nkey /\ p.dkey = y.dkey
    BY MergedPointFields
  <2>3. point = p
    BY <1>18, <2>1
  <2>. HIDE DEF p, point
  <2>. QED
    BY <1>4, <1>18, <2>1, <2>2, <2>3
<1>. HIDE DEF g
<1>10. Indexed(g) = all /\ Len(all) \in Nat
  <2>1. all \in Seq(Event)
    <3>1. f.events \in Seq(Event)
      BY DEF Shape, Typed
    <3>2. f.tail - 1 \in 0..Len(f.events)
      OBVIOUS
    <3>. QED
      BY <3>1, <3>2, TwoParts DEF Indexed
  <2>. QED
    BY <1>7, <2>1 DEF Indexed
\* the keys of the two trees
<1>11. /\ left.nkey = f.nodes[c].nkey /\ left.dkey = f.nodes[c].dkey
       /\ right.nkey = key /\ right.dkey = f.nodes[b].dkey
  <2>1. PointOK(f, m - 1) /\ PointOK(f, m)
    BY <1>1, <1>5 DEF Shape
  <2>. QED
    BY <1>3, <1>4, <2>1 DEF PointOK
<1>12. /\ low \in Int /\ mid \in Int /\ key \in Int /\ low <= left.nkey /\ left.nkey <= left.dkey
       /\ mid = left.dkey + 1 /\ mid <= key
  <2>1. low \in Int /\ low <= f.nodes[c].nkey /\ f.nodes[c].nkey <= f.nodes[c].dkey
    BY <1>4, <1>5, KeysUp
  <2>2. mid \in Int /\ mid <= key /\ key \in Int
    BY <1>4, <1>5, KeysUp
  <2>3. mid = f.nodes[c].dkey + 1
    BY <1>4, <1>5, Keys
  <2>. QED
    BY <1>11, <2>1, <2>2, <2>3
<1>13. f.nodes[b - 1].dkey + 1 = key
  BY <1>4, <1>5, Keys
<1>14. Under(f, m - 1) = c /\ Under(f, (m - 1) - 1) = a
  BY <1>1, <1>2, <1>5 DEF Under
<1>15. Sides(left, all, Crossing(low, left.nkey), Starting(left.dkey))
  <2>1. PointHolds(f, m - 1)
    BY <1>1, <1>5 DEF ListsHold
  <2>. QED
    BY <1>3, <1>14, <2>1 DEF PointHolds
<1>16. Sides(right, all, Crossing(mid, key), Starting(right.dkey))
  <2>1. PointHolds(f, m)
    BY <1>1, <1>5 DEF ListsHold
  <2>. QED
    BY <1>3, <1>11, <1>14, <2>1 DEF PointHolds
<1>17. \A e \in Event : Occurrences(all, e) # 0 /\ left.nkey <= e.start /\ e.start <= left.dkey
                          => e.start = left.dkey
  BY <1>4, <1>5, <1>11, NoneBetween
<1>19. Sides(root, all, Crossing(low, left.nkey) \cap Ending(key), Starting(left.dkey) \cap Ending(key))
  <2>1. Crossing(low, left.nkey) \in SUBSET Event /\ Starting(left.dkey) \in SUBSET Event
    BY DEF Crossing, Starting
  <2>2. PICK kk \in Int : kk = key
    BY <1>12
  <2>3. Sides(MergedRoot(x, left, right, kk), all, Crossing(low, left.nkey) \cap Ending(kk),
              Starting(left.dkey) \cap Ending(kk))
    BY <1>15, <2>1, MergedRootSides
  <2>. QED
    BY <1>18, <2>2, <2>3
<1>20. Sides(point, all, Crossing(low, key), Starting(right.dkey))
  <2>1. PICK kk \in Int, ll \in Int, mm \in Int : kk = key /\ ll = low /\ mm = mid
    BY <1>12
  <2>. HIDE DEF key, low, mid, all
  <2>2. Sides(MergedPoint(y, left, right, kk), all, Crossing(ll, kk), Starting(right.dkey))
    BY <1>10, <1>12, <1>15, <1>16, <1>17, <2>1, MergedPointSides
  <2>. QED
    BY <1>18, <2>1, <2>2
<1>. HIDE DEF root, point
\* the lists of the forest-points
<1>21. ASSUME NEW i \in 1..(m - 1) PROVE PointHolds(g, i)
  <2>1. CASE i = m - 1
    <3>1. Under(g, i - 1) = a
      <4>1. i - 1 = m - 2 /\ (m - 2 = 0 \/ m - 2 \in 1..(m - 2))
        <5>1. i - 1 = m - 2
          BY <1>5, <2>1
        <5>2. m = 2 => m - 2 = 0
          OBVIOUS
        <5>. QED
          BY <1>b, <5>1, <5>2
      <4>. QED
        BY <1>1, <1>7, <4>1 DEF Under
    <3>2. g.nodes[a + 1].nkey = low
      BY <1>5, <1>7, <1>8
    <3>. QED
      BY <1>7, <1>9, <1>10, <1>11, <1>20, <2>1, <3>1, <3>2 DEF PointHolds
  <2>2. CASE i # m - 1
    <3>1. i \in 1..(m - 2) /\ i \in 1..m /\ (i - 1 = 0 \/ i - 1 \in 1..(m - 2)) /\ i - 1 \in 0..m
      BY <1>a, <2>2
    <3>2. Under(g, i - 1) = Under(f, i - 1) /\ g.index[i] = f.index[i]
      BY <1>7, <3>1 DEF Under
    <3>3. Under(f, i - 1) + 1 \in 1..b
      BY <1>1, <1>4, <3>1, UnderNext
    <3>4. g.nodes[Under(f, i - 1) + 1].nkey = f.nodes[Under(f, i - 1) + 1].nkey
      BY <1>7, <1>8, <3>3
    <3>5. PointHolds(f, i)
      BY <1>1, <3>1 DEF ListsHold
    <3>. QED
      BY <1>10, <3>2, <3>4, <3>5 DEF PointHolds
  <2>. QED
    BY <2>1, <2>2
\* the lists of the nodes
<1>22. \A j \in 1..b : g.nodes[j].nkey = f.nodes[j].nkey /\ g.nodes[j].dkey = f.nodes[j].dkey
  BY <1>7, <1>8
<1>23. \A j \in 1..b : j # c => (j \in Settled(g) <=> j \in Settled(f))
  <2>1. ASSUME NEW j \in 1..b, j # c
        PROVE  (\A i \in 1..(m - 1) : g.index[i].replacement # j) <=> (\A i \in 1..m : f.index[i].replacement # j)
    <3>1. \A i \in 1..m : i \in 1..(m - 2) \/ i = m - 1 \/ i = m
      BY <1>a
    <3>2. \A i \in 1..(m - 1) : i \in 1..(m - 2) \/ i = m - 1
      BY <1>a
    <3>3. f.index[m - 1].replacement = c /\ f.index[m].replacement = b
      BY <1>1, <1>2
    <3>4. g.index[m - 1].replacement = b
      BY <1>7, <1>9
    <3>5. \A i \in 1..(m - 2) : i \in 1..m /\ i \in 1..(m - 1)
      BY <1>a
    <3>6. \A i \in 1..(m - 2) : g.index[i].replacement = f.index[i].replacement
      BY <1>7
    <3>7. ASSUME \A i \in 1..(m - 1) : g.index[i].replacement # j
          PROVE  \A i \in 1..m : f.index[i].replacement # j
      <4>1. b # j
        BY <1>5, <3>4, <3>7
      <4>2. \A i \in 1..(m - 2) : f.index[i].replacement # j
        BY <3>5, <3>6, <3>7
      <4>. QED
        BY <2>1, <3>1, <3>3, <4>1, <4>2
    <3>8. ASSUME \A i \in 1..m : f.index[i].replacement # j
          PROVE  \A i \in 1..(m - 1) : g.index[i].replacement # j
      <4>1. b # j
        BY <1>5, <3>3, <3>8
      <4>2. \A i \in 1..(m - 2) : g.index[i].replacement # j
        BY <3>5, <3>6, <3>8
      <4>. QED
        BY <3>2, <3>4, <4>1, <4>2
    <3>. QED
      BY <3>7, <3>8
  <2>. QED
    BY <1>a, <1>4, <1>7, <2>1 DEF Settled
<1>24. ASSUME NEW j \in 1..b
       PROVE  IF j \in Settled(g) THEN NodeHolds(g, j)
              ELSE g.nodes[j].nsa = <<>> /\ g.nodes[j].ded = <<>> /\ g.nodes[j].ned = <<>>
  <2>1. CASE j = c
    <3>1. j \in Settled(g)
      <4>1. ASSUME NEW i \in 1..(m - 1) PROVE g.index[i].replacement # c
        <5>1. CASE i = m - 1
          BY <1>5, <1>7, <1>9, <5>1
        <5>2. CASE i # m - 1
          <6>1. i \in 1..(m - 2) /\ i \in 1..m /\ i < m - 1
            BY <1>a, <5>2
          <6>2. f.index[i].replacement < f.index[m - 1].replacement
            BY <1>1, <1>5, <6>1 DEF Shape, Counted
          <6>3. f.index[m - 1].replacement = c
            BY <1>1, <1>2
          <6>. QED
            BY <1>7, <6>1, <6>2, <6>3
        <5>. QED
          BY <5>1, <5>2
      <4>. QED
        BY <1>7, <2>1, <4>1 DEF Settled
    <3>2. NodeHolds(g, c)
      <4>1. Leaves[g.nodes[c].height] - 1 = k - 1 /\ g.nodes[c].nkey = left.nkey /\ g.nodes[c].dkey = left.dkey
        BY <1>1, <1>7, <1>8, <1>11
      <4>2. g.nodes[c - (k - 1)].nkey = low /\ g.nodes[c + (k - 1)].dkey + 1 = key
        BY <1>5, <1>13, <1>22
      <4>. QED
        BY <1>7, <1>10, <1>19, <4>1, <4>2 DEF NodeHolds
    <3>. QED
      BY <2>1, <3>1, <3>2
  <2>2. CASE j # c
    <3>1. g.nodes[j] = f.nodes[j] /\ (j \in Settled(g) <=> j \in Settled(f))
      BY <1>7, <1>23, <2>2
    <3>2. IF j \in Settled(f) THEN NodeHolds(f, j)
          ELSE f.nodes[j].nsa = <<>> /\ f.nodes[j].ded = <<>> /\ f.nodes[j].ned = <<>>
      BY <1>4 DEF ListsHold
    <3>3. CASE j \in Settled(f)
      <4>1. LET w == Leaves[f.nodes[j].height] - 1 IN j - w \in 1..b /\ j + w \in 1..b
        BY <1>4, <3>3, SettledReach
      <4>2. LET w == Leaves[f.nodes[j].height] - 1
            IN g.nodes[j - w].nkey = f.nodes[j - w].nkey /\ g.nodes[j + w].dkey = f.nodes[j + w].dkey
        BY <1>22, <4>1
      <4>3. NodeHolds(f, j)
        BY <3>2, <3>3
      <4>4. NodeHolds(g, j)
        BY <1>10, <3>1, <4>2, <4>3, NodeHoldsKept
      <4>. QED
        BY <3>1, <3>3, <4>4
    <3>4. CASE j \notin Settled(f)
      BY <3>1, <3>2, <3>4
    <3>. QED
      BY <3>3, <3>4
  <2>. QED
    BY <2>1, <2>2
<1>25. ListsHold(g)
  BY <1>7, <1>21, <1>24 DEF ListsHold
<1>. QED
  BY <1>25 DEF g

\* The same data is cut in the same places.
LEMMA CutKept ==
  ASSUME NEW f, NEW g, SameData(f, g), CutOK(f), Len(f.nodes) \in Nat
  PROVE  CutOK(g) /\ Indexed(g) = Indexed(f)
<1>1. /\ g.events = f.events /\ g.tail = f.tail /\ Len(g.nodes) = Len(f.nodes)
      /\ \A j \in 1..Len(f.nodes) :
           /\ g.nodes[j].nkey = f.nodes[j].nkey /\ g.nodes[j].dkey = f.nodes[j].dkey
           /\ g.nodes[j].dataBegin = f.nodes[j].dataBegin /\ g.nodes[j].dataEnd = f.nodes[j].dataEnd
  BY DEF SameData
<1>2. \A j \in 1..Len(f.nodes) : CutsAt(g, j)
  BY <1>1 DEF CutOK, CutsAt
<1>3. Len(f.nodes) > 0 => g.nodes[Len(f.nodes)].dataEnd = f.tail
  <2>1. Len(f.nodes) > 0 => Len(f.nodes) \in 1..Len(f.nodes)
    OBVIOUS
  <2>. QED
    BY <1>1, <2>1 DEF CutOK
<1>. QED
  BY <1>1, <1>2, <1>3 DEF CutOK, Indexed

\* The loop of maintain_index hands the events on.
LEMMA MergesHold ==
  ASSUME NEW f, Shape(f), CutOK(f), f.tail \in 1..(Len(f.events) + 1), ListsHold(f)
  PROVE  ListsHold(Merges(f)[Len(f.index)])
<1>0. PICK n \in Nat : n = Len(f.index)
  <2>1. Len(f.index) \in Nat
    BY UnderNat
  <2>. QED
    BY <2>1
<1>. DEFINE w == Merges(f)
            Good(g) == /\ Shape(g) /\ CutOK(g) /\ g.tail \in 1..(Len(g.events) + 1)
                       /\ ListsHold(g)
            S == {k \in Nat : k <= n => Good(w[k])}
<1>1. w[0] = f /\ \A k \in Nat : k < n => w[k + 1] = MergeLastTwo(w[k])
  BY <1>0, MergesSteps
<1>. HIDE DEF w
<1>2. 0 \in S
  <2>1. Good(f)
    OBVIOUS
  <2>. HIDE DEF Good
  <2>. QED
    BY <1>1, <2>1
<1>3. ASSUME NEW g, Good(g) PROVE Good(MergeLastTwo(g))
  <2>. DEFINE h == MergeForestPoints(g)
  <2>1. CASE LastTwoLevel(g)
    <3>1. MergeLastTwo(g) = h
      BY <2>1 DEF MergeLastTwo
    <3>2. Shape(h) /\ SameData(g, h)
      BY <1>3, <2>1, MergeShape, MergeData
    <3>3. ListsHold(h)
      BY <1>3, <2>1, MergeHolds
    <3>4. Len(g.nodes) \in Nat
      BY <1>3, UnderNat
    <3>. HIDE DEF h
    <3>5. CutOK(h)
      BY <1>3, <3>2, <3>4, CutKept
    <3>6. h.tail \in 1..(Len(h.events) + 1)
      BY <1>3, <3>2 DEF SameData
    <3>. QED
      BY <3>1, <3>2, <3>3, <3>5, <3>6
  <2>2. CASE ~LastTwoLevel(g)
    <3>1. MergeLastTwo(g) = g
      BY <2>2 DEF MergeLastTwo
    <3>. QED
      BY <1>3, <3>1
  <2>. QED
    BY <2>1, <2>2
<1>. HIDE DEF Good
<1>4. ASSUME NEW k \in S PROVE k + 1 \in S
  <2>1. k \in Nat /\ (k <= n => Good(w[k])) /\ k + 1 \in Nat
    OBVIOUS
  <2>2. ASSUME k + 1 <= n PROVE Good(w[k + 1])
    <3>1. k <= n /\ k < n
      BY <1>0, <2>1, <2>2
    <3>. QED
      BY <1>1, <1>3, <2>1, <3>1
  <2>. QED
    BY <2>1, <2>2
<1>5. S = Nat
  <2>1. S \in SUBSET Nat
    OBVIOUS
  <2>. HIDE DEF S
  <2>. QED
    BY <1>2, <1>4, <2>1, NatAll
<1>6. Good(w[n])
  <2>1. n \in S
    <3>. HIDE DEF S
    <3>. QED
      BY <1>5
  <2>. QED
    BY <2>1
<1>. QED
  BY <1>0, <1>6 DEF Good, w

\* Linking forest-points moves no event.
LEMMA RelinkHolds ==
  ASSUME NEW f, Shape(f), ListsHold(f)
  PROVE  ListsHold(Relink(f))
<1>1. PICK n \in Nat : n = Len(f.index)
  <2>1. Len(f.index) \in Nat
    BY UnderNat
  <2>. QED
    BY <2>1
<1>2. CASE n < 2
  <2>1. Relink(f) = f
    BY <1>1, <1>2 DEF Relink
  <2>. QED
    BY <2>1
<1>3. CASE n >= 2
  <2>. DEFINE P == [f.index[n - 1] EXCEPT !.right = Point(n)]
              I == [f.index EXCEPT ![n - 1] = P]
              g == Relink(f)
  <2>1. n - 1 \in 1..n
    BY <1>3
  <2>2. g = [f EXCEPT !.index = I]
    BY <1>1, <1>3 DEF Relink
  <2>3. f.index \in Seq(PointRecord) /\ f.index[n - 1] \in PointRecord
    BY <1>1, <2>1 DEF Shape, Typed
  <2>4. Point(n) \in Pointer
    BY PointerFacts
  <2>5. /\ P \in PointRecord
        /\ P.nkey = f.index[n - 1].nkey /\ P.dkey = f.index[n - 1].dkey
        /\ P.nsa = f.index[n - 1].nsa /\ P.ded = f.index[n - 1].ded /\ P.ned = f.index[n - 1].ned
        /\ P.replacement = f.index[n - 1].replacement
    <3>1. PICK p \in PointRecord, x \in Pointer : p = f.index[n - 1] /\ x = Point(n)
      BY <2>3, <2>4
    <3>2. /\ [p EXCEPT !.right = x] \in PointRecord
          /\ [p EXCEPT !.right = x].nkey = p.nkey /\ [p EXCEPT !.right = x].dkey = p.dkey
          /\ [p EXCEPT !.right = x].nsa = p.nsa /\ [p EXCEPT !.right = x].ded = p.ded
          /\ [p EXCEPT !.right = x].ned = p.ned
          /\ [p EXCEPT !.right = x].replacement = p.replacement
      BY DEF PointRecord
    <3>. QED
      BY <3>1, <3>2
  <2>. HIDE DEF P
  <2>6. /\ Len(I) = n /\ I[n - 1] = P /\ \A i \in 1..n : i # n - 1 => I[i] = f.index[i]
    BY <1>1, <2>1, <2>3, <2>5, WriteOne
  <2>. HIDE DEF I
  <2>7. g.index = I /\ g.nodes = f.nodes /\ g.events = f.events /\ g.tail = f.tail
    BY <2>2, <2>6 DEF Shape, Typed
  <2>. HIDE DEF g
  <2>8. \A i \in 1..n :
          /\ g.index[i].nkey = f.index[i].nkey /\ g.index[i].dkey = f.index[i].dkey
          /\ g.index[i].nsa = f.index[i].nsa /\ g.index[i].ded = f.index[i].ded
          /\ g.index[i].ned = f.index[i].ned
          /\ g.index[i].replacement = f.index[i].replacement
    BY <2>5, <2>6, <2>7
  <2>9. Len(g.index) = n /\ Indexed(g) = Indexed(f)
    BY <2>6, <2>7 DEF Indexed
  <2>10. ASSUME NEW i \in 1..n PROVE PointHolds(g, i)
    <3>1. i - 1 = 0 \/ i - 1 \in 1..n
      BY <1>1
    <3>2. Under(g, i - 1) = Under(f, i - 1)
      BY <2>8, <3>1 DEF Under
    <3>3. PointHolds(f, i)
      BY <1>1 DEF ListsHold
    <3>. QED
      BY <2>7, <2>8, <2>9, <3>2, <3>3 DEF PointHolds, Sides
  <2>11. Settled(g) = Settled(f)
    BY <1>1, <2>7, <2>8, <2>9 DEF Settled
  <2>12. ASSUME NEW j, NodeHolds(f, j) PROVE NodeHolds(g, j)
    BY <2>7, <2>9, <2>12 DEF NodeHolds
  <2>13. ListsHold(g)
    BY <2>7, <2>9, <2>10, <2>11, <2>12 DEF ListsHold
  <2>. QED
    BY <2>13 DEF g
<1>. QED
  BY <1>2, <1>3

\* maintain_index hands the events on (stab_forest.hpp:588-609).
LEMMA MaintainHolds ==
  ASSUME NEW f, Shape(f), CutOK(f), f.tail \in 1..(Len(f.events) + 1), ListsHold(f)
  PROVE  ListsHold(MaintainIndex(f)) /\ CutOK(MaintainIndex(f))
<1>. DEFINE w == Merges(f)[Len(f.index)]
<1>1. Shape(w) /\ ListsHold(w)
  BY MergesShape, MergesHold
<1>. HIDE DEF w
<1>2. ListsHold(Relink(w))
  BY <1>1, RelinkHolds
<1>3. ListsHold(MaintainIndex(f))
  BY <1>2 DEF MaintainIndex, w
<1>4. SameData(f, MaintainIndex(f)) /\ Len(f.nodes) \in Nat
  BY MaintainShape, UnderNat
<1>. QED
  BY <1>3, <1>4, CutKept

\* The lists of a new leaf: the tail's events, all of which start at its data key.
LEMMA LeafLists ==
  ASSUME NEW f, Shape(f)
  PROVE  LET g == BuildLeaf(f)
             n == Len(f.nodes)
             m == Len(f.index)
         IN /\ g.nodes[n + 1].nsa = <<>> /\ g.nodes[n + 1].ded = <<>> /\ g.nodes[n + 1].ned = <<>>
            /\ g.index[m + 1].nsa = <<>> /\ g.index[m + 1].ned = <<>>
            /\ g.index[m + 1].ded = Reverse(EventTail(f))
<1>1. /\ f.nodes \in Seq(NodeRecord) /\ f.index \in Seq(PointRecord)
      /\ DOMAIN f = {"events", "nodes", "index", "tail", "minKey"}
  BY DEF Shape, Typed
<1>. DEFINE key == f.events[f.tail].start
            leaf == [nkey |-> IF f.index = <<>> THEN key ELSE Last(f.index).dkey + 1,
                     dkey |-> key, left |-> Null, right |-> Null, height |-> 0,
                     dataBegin |-> f.tail, dataEnd |-> Len(f.events) + 1,
                     nsa |-> <<>>, ded |-> <<>>, ned |-> <<>>]
            last == Reverse(EventTail(f))
            full == [leaf EXCEPT !.ded = last]
            point == AsPoint(full, Len(f.nodes) + 1)
            N == Append(f.nodes, leaf)
            I == Append(f.index, point)
            g == BuildLeaf(f)
<1>2. g = [f EXCEPT !.nodes = N, !.index = I, !.tail = Len(f.events) + 1]
  BY DEF BuildLeaf
<1>. HIDE DEF last
<1>3. /\ leaf.nsa = <<>> /\ leaf.ded = <<>> /\ leaf.ned = <<>>
      /\ full.nsa = <<>> /\ full.ded = last /\ full.ned = <<>>
  OBVIOUS
<1>. HIDE DEF leaf, full
<1>4. point.nsa = <<>> /\ point.ned = <<>> /\ point.ded = last
  BY <1>3 DEF AsPoint
<1>. HIDE DEF point
<1>5. N[Len(f.nodes) + 1] = leaf /\ I[Len(f.index) + 1] = point
  BY <1>1
<1>. HIDE DEF N, I
<1>6. g.nodes = N /\ g.index = I
  BY <1>1, <1>2
<1>. HIDE DEF g
<1>. QED
  BY <1>3, <1>4, <1>5, <1>6 DEF g, last

\* Events of another start behind the list change nothing.
LEMMA SidesMore ==
  ASSUME NEW n, NEW all \in Seq(Event), NEW t \in Seq(Event), NEW C, NEW D, Sides(n, all, C, D),
         NEW key, \A i \in 1..Len(t) : t[i].start = key,
         \A e \in Event : e \in C \/ e \in D => e.start # key
  PROVE  Sides(n, all \o t, C, D)
<1>1. ASSUME NEW s, NEW E, Holds(s, all, E), \A e \in Event : e \in E => e.start # key
      PROVE  Holds(s, all \o t, E)
  <2>1. ASSUME NEW e \in Event, e \in E PROVE Occurrences(all \o t, e) = Occurrences(all, e)
    <3>1. e.start # key
      BY <1>1, <2>1
    <3>2. Occurrences(t, e) = 0
      <4>1. Len(t) \in Nat /\ \A i \in 1..Len(t) : t[i] # e
        BY <3>1
      <4>. QED
        BY <4>1, OccNat
    <3>3. Occurrences(all, e) \in Nat
      <4>1. Len(all) \in Nat
        OBVIOUS
      <4>. QED
        BY <4>1, OccNat
    <3>4. Occurrences(all \o t, e) = Occurrences(all, e) + Occurrences(t, e)
      BY OccBoth
    <3>. QED
      BY <3>2, <3>3, <3>4
  <2>. QED
    BY <1>1, <2>1 DEF Holds
<1>2. /\ Holds(n.nsa, all, C) /\ Holds(n.ned, all, C) /\ Holds(n.ded, all, D)
  BY DEF Sides
<1>3. Holds(n.nsa, all \o t, C) /\ Holds(n.ned, all \o t, C)
  BY <1>1, <1>2
<1>4. Holds(n.ded, all \o t, D)
  BY <1>1, <1>2
<1>. QED
  BY <1>3, <1>4 DEF Sides

\* The events of one start, at the end of a list that has no others of that start.
LEMMA TailHolds ==
  ASSUME NEW all \in Seq(Event), NEW t \in Seq(Event), NEW key \in Int, Ordered(t),
         \A i \in 1..Len(t) : t[i].start = key,
         \A e \in Event : Occurrences(all, e) # 0 => e.start < key
  PROVE  Holds(Reverse(t), all \o t, Starting(key)) /\ EndsDescend(Reverse(t))
<1>1. Reverse(t) \in Seq(Event)
  BY Backwards
<1>2. EndsDescend(Reverse(t))
  <2>1. \A i, j \in 1..Len(t) : t[i].start = t[j].start
    OBVIOUS
  <2>. QED
    BY <2>1, OneStartBackwards
<1>3. ASSUME NEW e \in Event
      PROVE  Occurrences(Reverse(t), e) = IF e \in Starting(key) THEN Occurrences(all \o t, e) ELSE 0
  <2>1. Occurrences(Reverse(t), e) = Occurrences(t, e)
    BY OccBackwards
  <2>2. Occurrences(all \o t, e) = Occurrences(all, e) + Occurrences(t, e)
    BY OccBoth
  <2>3. Len(t) \in Nat /\ Len(all) \in Nat
    OBVIOUS
  <2>4. Occurrences(t, e) \in Nat /\ Occurrences(all, e) \in Nat
    BY <2>3, OccNat
  <2>5. CASE e.start = key
    <3>1. Occurrences(all, e) = 0
      <4>1. ~(e.start < key)
        BY <2>5
      <4>. QED
        BY <4>1
    <3>. QED
      BY <2>1, <2>2, <2>4, <2>5, <3>1 DEF Starting
  <2>6. CASE e.start # key
    <3>1. \A i \in 1..Len(t) : t[i] # e
      BY <2>6
    <3>2. Occurrences(t, e) = 0
      BY <2>3, <3>1, OccNat
    <3>. QED
      BY <2>1, <2>6, <3>2 DEF Starting
  <2>. QED
    BY <2>5, <2>6
<1>. QED
  BY <1>1, <1>2, <1>3 DEF Holds

\* No indexed event starts behind the last node's data key.
LEMMA IndexedBefore ==
  ASSUME NEW f, Shape(f), CutOK(f), f.tail \in 1..(Len(f.events) + 1),
         Len(f.nodes) = 0 => f.tail = 1, NEW p \in 1..(f.tail - 1)
  PROVE  /\ Len(f.nodes) \in 1..Len(f.nodes) /\ p \in 1..Len(f.events)
         /\ f.events[p].start <= f.nodes[Len(f.nodes)].dkey
<1>1. PICK n \in Nat, l \in Nat, t \in Nat :
        n = Len(f.nodes) /\ l = Len(f.events) /\ t = f.tail /\ t \in 1..(l + 1)
  <2>1. Len(f.nodes) \in Nat /\ Len(f.events) \in Nat
    BY UnderNat DEF Shape, Typed
  <2>. QED
    BY <2>1
<1>2. p \in 1..l /\ p < t /\ t # 1
  BY <1>1
<1>3. n \in 1..n /\ n > 0
  BY <1>1, <1>2
<1>4. CutsAt(f, n) /\ f.nodes[n].dataEnd = t
  BY <1>1, <1>3 DEF CutOK
<1>5. f.nodes[n].nkey \in Int /\ f.nodes[n].dkey \in Int /\ f.nodes[n].nkey <= f.nodes[n].dkey
  BY <1>1, <1>3, KeysUp
<1>6. f.events[p].start \in Int
  <2>1. f.events \in Seq(Event)
    BY DEF Shape, Typed
  <2>2. f.events[p] \in Event
    BY <1>1, <1>2, <2>1
  <2>. QED
    BY <2>2, EventTimes
<1>7. f.nodes[n].dataBegin \in Int
  <2>1. f.nodes[n] \in NodeRecord
    BY <1>1, <1>3 DEF Shape, Typed
  <2>. QED
    BY <2>1 DEF NodeRecord
<1>8. PICK b \in Int : b = f.nodes[n].dataBegin
  BY <1>7
<1>9. (p < b => f.events[p].start < f.nodes[n].nkey) /\ (b <= p => f.events[p].start = f.nodes[n].dkey)
  BY <1>1, <1>2, <1>4, <1>8 DEF CutsAt
<1>10. p < b \/ b <= p
  BY <1>2
<1>11. f.events[p].start <= f.nodes[n].dkey
  BY <1>5, <1>6, <1>9, <1>10
<1>. QED
  BY <1>1, <1>2, <1>3, <1>11

\* A new leaf takes the events of the tail.
LEMMA LeafHolds ==
  ASSUME NEW f, Shape(f), EventsOK(f), Len(f.events) > 0, CutOK(f), ListsHold(f)
  PROVE  ListsHold(BuildLeaf(f)) /\ CutOK(BuildLeaf(f))
<1>1. PICK n \in Nat, m \in Nat, l \in Nat, t \in Nat :
        n = Len(f.nodes) /\ m = Len(f.index) /\ l = Len(f.events) /\ t = f.tail
  <2>1. Len(f.nodes) \in Nat /\ Len(f.index) \in Nat /\ Len(f.events) \in Nat /\ f.tail \in Nat
    BY UnderNat DEF Shape, Typed
  <2>. QED
    BY <2>1
<1>2. t \in 1..l /\ t - 1 \in 0..l /\ (t - 1) + 1 = t /\ t \in 1..(l + 1) /\ l \in 0..l
  <2>1. t \in 1..l
    BY <1>1 DEF EventsOK
  <2>. QED
    BY <2>1
<1>3. f.events \in Seq(Event) /\ Ordered(f.events) /\ \A p \in 1..l : f.events[p] \in Event
  BY <1>1 DEF Shape, Typed, EventsOK
<1>4. PICK key \in Int : key = f.events[t].start
  BY <1>2, <1>3, EventTimes
<1>. DEFINE g == BuildLeaf(f)
            all == Indexed(f)
            tail == EventTail(f)
<1>5. /\ g.events = f.events /\ g.tail = l + 1
      /\ Len(g.nodes) = n + 1 /\ \A j \in 1..n : g.nodes[j] = f.nodes[j]
      /\ Len(g.index) = m + 1 /\ \A i \in 1..m : g.index[i] = f.index[i]
      /\ g.nodes[n + 1].nkey = (IF n = 0 THEN key ELSE f.nodes[n].dkey + 1)
      /\ g.nodes[n + 1].dkey = key
      /\ g.nodes[n + 1].dataBegin = t /\ g.nodes[n + 1].dataEnd = l + 1
      /\ g.index[m + 1].nkey = g.nodes[n + 1].nkey /\ g.index[m + 1].dkey = key
      /\ g.index[m + 1].replacement = n + 1
  BY <1>1, <1>4, LeafParts
<1>6. /\ g.nodes[n + 1].nsa = <<>> /\ g.nodes[n + 1].ded = <<>> /\ g.nodes[n + 1].ned = <<>>
      /\ g.index[m + 1].nsa = <<>> /\ g.index[m + 1].ned = <<>>
      /\ g.index[m + 1].ded = Reverse(tail)
  BY <1>1, LeafLists
<1>. HIDE DEF g
\* the indexed events, and the tail behind them
<1>7. all = SubSeq(f.events, 1, t - 1) /\ tail = SubSeq(f.events, t, l)
  BY <1>1 DEF Indexed, EventTail
<1>8. /\ all \in Seq(Event) /\ tail \in Seq(Event) /\ Len(all) = t - 1 /\ Len(tail) = l - (t - 1)
      /\ \A i \in 1..(t - 1) : all[i] = f.events[i]
      /\ \A i \in 1..(l - (t - 1)) : tail[i] = f.events[(t - 1) + i]
      /\ f.events = all \o tail
  <2>1. PICK k \in 0..l : k = t - 1
    BY <1>2
  <2>2. all = SubSeq(f.events, 1, k) /\ tail = SubSeq(f.events, k + 1, l)
    BY <1>2, <1>7, <2>1
  <2>. HIDE DEF all, tail
  <2>3. /\ all \in Seq(Event) /\ tail \in Seq(Event) /\ Len(all) = k /\ Len(tail) = l - k
        /\ \A i \in 1..k : all[i] = f.events[i]
        /\ \A i \in 1..(l - k) : tail[i] = f.events[k + i]
        /\ f.events = all \o tail
    BY <1>1, <1>3, <2>2, TwoParts
  <2>. QED
    BY <2>1, <2>3
<1>9. Ordered(tail)
  BY <1>1, <1>2, <1>3, <1>7, OrderedPart
<1>10. Indexed(g) = all \o tail
  <2>1. Indexed(g) = SubSeq(f.events, 1, l)
    <3>1. (l + 1) - 1 = l
      OBVIOUS
    <3>. QED
      BY <1>5, <3>1 DEF Indexed
  <2>2. SubSeq(f.events, 1, l) = f.events
    BY <1>1, <1>3
  <2>. HIDE DEF all, tail
  <2>. QED
    BY <1>8, <2>1, <2>2
<1>. HIDE DEF all, tail
<1>11. \A i \in 1..Len(tail) : tail[i].start = key
  <2>1. ASSUME NEW i \in 1..(l - (t - 1)) PROVE f.events[(t - 1) + i].start = key
    <3>1. PICK p \in 1..l : p = (t - 1) + i /\ t <= p
      BY <1>2
    <3>2. f.events[p].start = f.events[t].start
      BY <1>1, <3>1 DEF EventsOK
    <3>. QED
      BY <1>4, <3>1, <3>2
  <2>. QED
    BY <1>8, <2>1
<1>12. \A j \in 1..n : /\ f.nodes[j].nkey \in Int /\ f.nodes[j].dkey \in Int
                       /\ f.nodes[j].nkey <= f.nodes[j].dkey /\ f.nodes[j].dkey < key
  <2>1. ASSUME NEW j \in 1..n
        PROVE  /\ f.nodes[j].nkey \in Int /\ f.nodes[j].dkey \in Int
               /\ f.nodes[j].nkey <= f.nodes[j].dkey /\ f.nodes[j].dkey < key
    <3>1. n \in 1..n /\ j <= n /\ n > 0
      BY <1>1
    <3>2. f.nodes[n].dkey < key
      BY <1>1, <1>4, <3>1 DEF EventsOK
    <3>3. /\ f.nodes[j].nkey \in Int /\ f.nodes[j].dkey \in Int /\ f.nodes[j].nkey <= f.nodes[j].dkey
          /\ f.nodes[n].nkey \in Int /\ f.nodes[n].dkey \in Int
          /\ j < n => f.nodes[j].dkey < f.nodes[n].nkey
      BY <1>1, <3>1, KeysUp
    <3>4. f.nodes[n].nkey <= f.nodes[n].dkey
      BY <1>1, <3>1, KeysUp
    <3>5. f.nodes[j].dkey < key
      <4>1. CASE j = n
        BY <3>2, <4>1
      <4>2. CASE j # n
        <5>1. j < n
          BY <3>1, <4>2
        <5>. QED
          BY <3>2, <3>3, <3>4, <5>1
      <4>. QED
        BY <4>1, <4>2
    <3>. QED
      BY <3>3, <3>5
  <2>. QED
    BY <2>1
<1>13. \A p \in 1..(t - 1) : n \in 1..n /\ f.events[p].start <= f.nodes[n].dkey
  <2>1. Len(f.nodes) = 0 => f.tail = 1
    BY DEF EventsOK
  <2>2. f.tail \in 1..(Len(f.events) + 1)
    BY <1>1, <1>2
  <2>. QED
    BY <1>1, <2>1, <2>2, IndexedBefore
<1>14. \A e \in Event : Occurrences(all, e) # 0 => e.start < key
  <2>1. ASSUME NEW e \in Event, Occurrences(all, e) # 0 PROVE e.start < key
    <3>1. Len(all) \in Nat
      BY <1>2, <1>8
    <3>2. PICK p \in 1..(t - 1) : all[p] = e
      BY <1>8, <2>1, <3>1, OccNat
    <3>3. e.start <= f.nodes[n].dkey /\ n \in 1..n
      BY <1>8, <1>13, <3>2
    <3>. QED
      BY <1>12, <3>3, EventTimes
  <2>. QED
    BY <2>1
\* the forest-points
<1>15. ASSUME NEW i \in 1..(m + 1) PROVE PointHolds(g, i)
  <2>1. CASE i = m + 1
    <3>1. Under(g, i - 1) = n
      <4>1. i - 1 = m /\ (m = 0 \/ m \in 1..m)
        BY <2>1
      <4>2. Under(g, m) = Under(f, m)
        BY <1>5, <4>1 DEF Under
      <4>3. Under(f, m) = n
        BY <1>1 DEF Shape, Counted
      <4>. QED
        BY <4>1, <4>2, <4>3
    <3>. DEFINE low == g.nodes[n + 1].nkey
    <3>2. Crossing(low, low) = {}
      <4>1. low \in Int
        <5>1. n = 0 \/ n \in 1..n
          OBVIOUS
        <5>. QED
          BY <1>5, <1>12, <5>1
      <4>2. \A e \in Event : ~(low <= e.start /\ e.start < low)
        BY <4>1, EventTimes
      <4>. QED
        BY <4>2 DEF Crossing
    <3>3. Holds(<<>>, all \o tail, {})
      BY HoldsNone
    <3>4. Holds(Reverse(tail), all \o tail, Starting(key)) /\ EndsDescend(Reverse(tail))
      BY <1>8, <1>9, <1>11, <1>14, TailHolds
    <3>5. Ordered(<<>>) /\ EndsDescend(<<>>)
      BY DEF Ordered, EndsDescend
    <3>6. g.index[m + 1].nkey = low /\ g.index[m + 1].dkey = key
      BY <1>5
    <3>. HIDE DEF low
    <3>7. Sides(g.index[m + 1], all \o tail, Crossing(low, low), Starting(key))
      BY <1>6, <3>2, <3>3, <3>4, <3>5 DEF Sides
    <3>. QED
      BY <1>10, <2>1, <3>1, <3>6, <3>7 DEF PointHolds, low
  <2>2. CASE i # m + 1
    <3>1. i \in 1..m /\ (i - 1 = 0 \/ i - 1 \in 1..m)
      BY <2>2
    <3>2. Under(g, i - 1) = Under(f, i - 1) /\ g.index[i] = f.index[i]
      BY <1>5, <3>1 DEF Under
    <3>3. g.nodes[Under(f, i - 1) + 1] = f.nodes[Under(f, i - 1) + 1]
      BY <1>1, <1>5, <3>1, UnderNext
    <3>. DEFINE low == f.nodes[Under(f, i - 1) + 1].nkey
    <3>4. Sides(f.index[i], all, Crossing(low, f.index[i].nkey), Starting(f.index[i].dkey))
      BY <1>1, <3>1 DEF ListsHold, PointHolds, all
    <3>5. PICK x \in Int, y \in Int : x = f.index[i].nkey /\ y = f.index[i].dkey /\ x <= y /\ y < key
      <4>1. PointOK(f, i)
        BY <1>1, <3>1 DEF Shape
      <4>2. PICK j \in 1..n : j = f.index[i].replacement
        BY <1>1, <4>1 DEF PointOK
      <4>3. f.index[i].nkey = f.nodes[j].nkey /\ f.index[i].dkey = f.nodes[j].dkey
        BY <4>1, <4>2 DEF PointOK
      <4>. QED
        BY <1>12, <4>3
    <3>6. \A e \in Event : e \in Crossing(low, x) \/ e \in Starting(y) => e.start # key
      BY <3>5, EventTimes DEF Crossing, Starting
    <3>. HIDE DEF low
    <3>7. Sides(f.index[i], all \o tail, Crossing(low, x), Starting(y))
      BY <1>8, <1>11, <3>4, <3>5, <3>6, SidesMore
    <3>. QED
      BY <1>10, <3>2, <3>3, <3>5, <3>7 DEF PointHolds, low
  <2>. QED
    BY <2>1, <2>2
\* the nodes
<1>16. ASSUME NEW j \in 1..n
       PROVE  j \in Settled(g) <=> j \in Settled(f)
  <2>1. \A i \in 1..(m + 1) : i \in 1..m \/ i = m + 1
    OBVIOUS
  <2>2. \A i \in 1..m : i \in 1..(m + 1)
    OBVIOUS
  <2>3. n + 1 # j /\ j \in 1..(n + 1)
    OBVIOUS
  <2>. QED
    BY <1>1, <1>5, <2>1, <2>2, <2>3 DEF Settled
<1>17. ASSUME NEW j \in 1..(n + 1)
       PROVE  IF j \in Settled(g) THEN NodeHolds(g, j)
              ELSE g.nodes[j].nsa = <<>> /\ g.nodes[j].ded = <<>> /\ g.nodes[j].ned = <<>>
  <2>1. CASE j = n + 1
    <3>1. m + 1 \in 1..(m + 1)
      OBVIOUS
    <3>2. j \notin Settled(g)
      BY <1>5, <2>1, <3>1 DEF Settled
    <3>. QED
      BY <1>6, <2>1, <3>2
  <2>2. CASE j # n + 1
    <3>1. j \in 1..n
      BY <2>2
    <3>2. g.nodes[j] = f.nodes[j] /\ (j \in Settled(g) <=> j \in Settled(f))
      BY <1>5, <1>16, <3>1
    <3>3. IF j \in Settled(f) THEN NodeHolds(f, j)
          ELSE f.nodes[j].nsa = <<>> /\ f.nodes[j].ded = <<>> /\ f.nodes[j].ned = <<>>
      BY <1>1, <3>1 DEF ListsHold
    <3>4. CASE j \in Settled(f)
      <4>. DEFINE w == Leaves[f.nodes[j].height] - 1
                  low == f.nodes[j - w].nkey
                  gone == Ending(f.nodes[j + w].dkey + 1)
      <4>1. j - w \in 1..n /\ j + w \in 1..n
        BY <1>1, <3>4, SettledReach
      <4>2. g.nodes[j - w] = f.nodes[j - w] /\ g.nodes[j + w] = f.nodes[j + w]
        BY <1>5, <4>1
      <4>3. PICK x \in Int, y \in Int : x = f.nodes[j].nkey /\ y = f.nodes[j].dkey /\ x <= y /\ y < key
        BY <1>12, <3>1
      <4>4. Sides(f.nodes[j], all, Crossing(low, x) \cap gone, Starting(y) \cap gone)
        BY <3>3, <3>4, <4>3 DEF NodeHolds, all
      <4>5. \A e \in Event : e \in Crossing(low, x) \cap gone \/ e \in Starting(y) \cap gone => e.start # key
        BY <4>3, EventTimes DEF Crossing, Starting
      <4>. HIDE DEF low, gone
      <4>6. Sides(f.nodes[j], all \o tail, Crossing(low, x) \cap gone, Starting(y) \cap gone)
        BY <1>8, <1>11, <4>4, <4>5, SidesMore
      <4>7. NodeHolds(g, j)
        BY <1>10, <3>2, <4>2, <4>3, <4>6 DEF NodeHolds, low, gone
      <4>. QED
        BY <3>2, <3>4, <4>7
    <3>5. CASE j \notin Settled(f)
      BY <3>2, <3>3, <3>5
    <3>. QED
      BY <3>4, <3>5
  <2>. QED
    BY <2>1, <2>2
<1>18. ListsHold(g)
  BY <1>5, <1>15, <1>17 DEF ListsHold
\* the cuts
<1>19. ASSUME NEW j \in 1..(n + 1) PROVE CutsAt(g, j)
  <2>1. CASE j = n + 1
    <3>1. ASSUME NEW p \in 1..l, p < t PROVE f.events[p].start < g.nodes[n + 1].nkey
      <4>1. p \in 1..(t - 1)
        BY <1>2, <3>1
      <4>2. n \in 1..n /\ f.events[p].start <= f.nodes[n].dkey /\ n # 0
        BY <1>13, <4>1
      <4>3. f.events[p].start \in Int /\ f.nodes[n].dkey \in Int
        BY <1>3, <1>12, <4>2, EventTimes
      <4>. QED
        BY <1>5, <4>2, <4>3
    <3>2. ASSUME NEW p \in 1..l, t <= p PROVE f.events[p].start = key
      BY <1>1, <1>4, <3>2 DEF EventsOK
    <3>3. \A p \in 1..l : ~(l + 1 <= p)
      OBVIOUS
    <3>. QED
      BY <1>1, <1>5, <2>1, <3>1, <3>2, <3>3 DEF CutsAt
  <2>2. CASE j # n + 1
    <3>1. j \in 1..n
      BY <2>2
    <3>2. CutsAt(f, j)
      BY <1>1, <3>1 DEF CutOK
    <3>. QED
      BY <1>5, <3>1, <3>2 DEF CutsAt
  <2>. QED
    BY <2>1, <2>2
<1>20. CutOK(g)
  BY <1>5, <1>19 DEF CutOK
<1>. QED
  BY <1>18, <1>20 DEF g

\* An event more in the tail, which starts after every node.
LEMMA MoreHolds ==
  ASSUME NEW g, Shape(g), CutOK(g), ListsHold(g), g.tail \in 1..(Len(g.events) + 1), NEW e \in Event,
         NEW z, z = [g EXCEPT !.events = Append(g.events, e)], EventsOK(z)
  PROVE  ListsHold(z) /\ CutOK(z)
<1>1. PICK n \in Nat, l \in Nat, t \in Nat :
        n = Len(g.nodes) /\ l = Len(g.events) /\ t = g.tail /\ t \in 1..(l + 1)
  <2>1. Len(g.nodes) \in Nat /\ Len(g.events) \in Nat
    BY UnderNat DEF Shape, Typed
  <2>. QED
    BY <2>1
<1>2. g.events \in Seq(Event)
  BY DEF Shape, Typed
<1>. DEFINE s == Append(g.events, e)
<1>3. s \in Seq(Event) /\ Len(s) = l + 1 /\ s[l + 1] = e /\ \A p \in 1..l : s[p] = g.events[p]
  BY <1>1, <1>2
<1>4. z.events = s /\ z.nodes = g.nodes /\ z.index = g.index /\ z.tail = t
  BY <1>1 DEF Shape, Typed
<1>5. Indexed(z) = Indexed(g)
  <2>1. SubSeq(s, 1, t - 1) = SubSeq(g.events, 1, t - 1)
    <3>1. PICK k \in Nat : k = t - 1 /\ k \in 0..l /\ k \in 0..(l + 1)
      BY <1>1
    <3>. HIDE DEF s
    <3>2. /\ Len(SubSeq(s, 1, k)) = k /\ SubSeq(s, 1, k) \in Seq(Event)
          /\ \A i \in 1..k : SubSeq(s, 1, k)[i] = s[i]
      <4>1. k \in 0..Len(s)
        BY <1>3, <3>1
      <4>. QED
        BY <1>3, <4>1, TwoParts
    <3>3. /\ Len(SubSeq(g.events, 1, k)) = k /\ SubSeq(g.events, 1, k) \in Seq(Event)
          /\ \A i \in 1..k : SubSeq(g.events, 1, k)[i] = g.events[i]
      BY <1>1, <1>2, <3>1, TwoParts
    <3>4. \A i \in 1..k : i \in 1..l
      BY <3>1
    <3>5. SubSeq(s, 1, k) = SubSeq(g.events, 1, k)
      BY <1>3, <3>2, <3>3, <3>4
    <3>. QED
      BY <3>1, <3>5
  <2>. QED
    BY <1>1, <1>4, <2>1 DEF Indexed
<1>. HIDE DEF s
<1>6. ListsHold(z)
  <2>1. \A i : Under(z, i) = Under(g, i)
    BY <1>4 DEF Under
  <2>2. \A i \in 1..Len(g.index) : PointHolds(z, i)
    BY <1>4, <1>5, <2>1 DEF ListsHold, PointHolds
  <2>3. Settled(z) = Settled(g)
    BY <1>4 DEF Settled
  <2>4. \A j : NodeHolds(g, j) => NodeHolds(z, j)
    BY <1>4, <1>5 DEF NodeHolds
  <2>. QED
    BY <1>4, <2>2, <2>3, <2>4 DEF ListsHold
<1>7. ASSUME NEW j \in 1..n PROVE CutsAt(z, j)
  <2>1. CutsAt(g, j)
    BY <1>1 DEF CutOK
  <2>2. n \in 1..n /\ n > 0 /\ j <= n
    BY <1>1
  <2>3. PICK b \in Int, d \in Int, x \in Int, y \in Int :
          /\ b = g.nodes[j].dataBegin /\ d = g.nodes[j].dataEnd /\ b < d /\ d <= t
          /\ x = g.nodes[j].nkey /\ y = g.nodes[j].dkey
    <3>1. g.nodes[j].dataBegin \in Int /\ g.nodes[j].dataEnd \in Int
      <4>1. g.nodes[j] \in NodeRecord
        BY <1>1 DEF Shape, Typed
      <4>. QED
        BY <4>1 DEF NodeRecord
    <3>2. g.nodes[j].nkey \in Int /\ g.nodes[j].dkey \in Int
      BY <1>1, KeysUp
    <3>3. g.nodes[j].dataBegin < g.nodes[j].dataEnd /\ g.nodes[j].dataEnd <= t
      BY <1>1 DEF Shape, KeysOK
    <3>. QED
      BY <3>1, <3>2, <3>3
  <2>4. y < e.start
    <3>1. y <= g.nodes[n].dkey /\ g.nodes[n].dkey \in Int
      <4>1. /\ g.nodes[j].dkey \in Int /\ g.nodes[n].nkey \in Int /\ g.nodes[n].dkey \in Int
            /\ j < n => g.nodes[j].dkey < g.nodes[n].nkey
        BY <1>1, <2>2, KeysUp
      <4>2. g.nodes[n].nkey <= g.nodes[n].dkey
        BY <1>1, <2>2, KeysUp
      <4>3. CASE j = n
        BY <2>3, <4>1, <4>3
      <4>4. CASE j # n
        <5>1. j < n
          BY <2>2, <4>4
        <5>. QED
          BY <2>3, <4>1, <4>2, <5>1
      <4>. QED
        BY <4>3, <4>4
    <3>2. g.nodes[n].dkey < s[t].start
      BY <1>1, <1>4, <2>2 DEF EventsOK
    <3>3. s[t].start = s[l + 1].start
      <4>1. l + 1 \in 1..(l + 1) /\ t <= l + 1
        BY <1>1
      <4>. QED
        BY <1>3, <1>4, <4>1 DEF EventsOK
    <3>4. e.start \in Int
      BY EventTimes
    <3>. QED
      BY <1>3, <2>3, <3>1, <3>2, <3>3, <3>4
  <2>5. ASSUME NEW p \in 1..(l + 1)
        PROVE  /\ p < b => s[p].start < x
               /\ b <= p /\ p < d => s[p].start = y
               /\ d <= p => y < s[p].start
    <3>1. CASE p = l + 1
      <4>1. ~(p < b) /\ ~(p < d)
        BY <1>1, <2>3, <3>1
      <4>. QED
        BY <1>3, <2>4, <3>1, <4>1
    <3>2. CASE p # l + 1
      <4>1. p \in 1..l
        BY <3>2
      <4>. QED
        BY <1>1, <1>3, <2>1, <2>3, <4>1 DEF CutsAt
    <3>. QED
      BY <3>1, <3>2
  <2>. QED
    BY <1>3, <1>4, <2>3, <2>5 DEF CutsAt
<1>8. CutOK(z)
  BY <1>1, <1>4, <1>7 DEF CutOK
<1>. QED
  BY <1>6, <1>8

\* append_event keeps what the lists hold (stab_forest.hpp:542-554).
LEMMA AppendHolds ==
  ASSUME NEW f, ForestInv(f), ListsHold(f), CutOK(f), NEW e \in Event,
         f.events # <<>> => AtOrBefore(Last(f.events), e)
  PROVE  ListsHold(AppendEvent(f, e)) /\ CutOK(AppendEvent(f, e))
<1>. DEFINE z == AppendEvent(f, e)
<1>1. ForestInv(z)
  BY AppendKeeps
<1>2. Shape(f) /\ EventsOK(f) /\ f.events \in Seq(Event) /\ Len(f.events) \in Nat
  BY DEF ForestInv, Shape, Typed
<1>3. f.tail \in 1..(Len(f.events) + 1)
  BY <1>2 DEF EventsOK
<1>4. CASE f.events = <<>>
  <2>1. z = [f EXCEPT !.events = <<e>>, !.minKey = e.start]
    BY <1>4 DEF AppendEvent
  <2>2. z.nodes = f.nodes /\ z.index = f.index
    BY <1>2, <2>1 DEF Shape, Typed
  <2>3. Len(f.nodes) = 0 /\ Len(f.index) = 0
    <3>1. Len(f.events) = 0
      BY <1>4
    <3>2. Len(f.nodes) \in Nat /\ ~(Len(f.nodes) > 0)
      BY <1>2, <3>1, UnderNat DEF EventsOK
    <3>. QED
      BY <1>2, <3>2, UnderNat
  <2>4. \A j \in 1..0 : FALSE
    OBVIOUS
  <2>. HIDE DEF z
  <2>5. ListsHold(z) /\ CutOK(z)
    BY <2>2, <2>3, <2>4 DEF ListsHold, CutOK
  <2>. QED
    BY <2>5 DEF z
<1>5. CASE f.events # <<>> /\ e.start = Last(f.events).start
  <2>1. z = [f EXCEPT !.events = Append(f.events, e)]
    BY <1>5 DEF AppendEvent
  <2>2. EventsOK(z)
    BY <1>1 DEF ForestInv
  <2>. HIDE DEF z
  <2>3. ListsHold(z) /\ CutOK(z)
    BY <1>2, <1>3, <2>1, <2>2, MoreHolds
  <2>. QED
    BY <2>3 DEF z
<1>6. CASE f.events # <<>> /\ e.start # Last(f.events).start
  <2>. DEFINE p == BuildLeaf(f)
              g == MaintainIndex(p)
  <2>1. z = [g EXCEPT !.events = Append(g.events, e)]
    BY <1>6 DEF AppendEvent
  <2>2. Len(f.events) > 0
    BY <1>2, <1>6
  <2>3. Shape(p) /\ p.events = f.events /\ p.tail = Len(f.events) + 1
    BY <1>2, <2>2, LeafShape DEF ForestInv
  <2>4. ListsHold(p) /\ CutOK(p)
    BY <1>2, <2>2, LeafHolds
  <2>. HIDE DEF p
  <2>5. p.tail \in 1..(Len(p.events) + 1)
    BY <1>2, <2>3
  <2>6. Shape(g) /\ SameData(p, g) /\ ListsHold(g) /\ CutOK(g)
    BY <2>3, <2>4, <2>5, MaintainShape, MaintainHolds
  <2>. HIDE DEF g
  <2>7. g.tail \in 1..(Len(g.events) + 1)
    BY <2>5, <2>6 DEF SameData
  <2>8. EventsOK(z)
    BY <1>1 DEF ForestInv
  <2>. HIDE DEF z
  <2>9. ListsHold(z) /\ CutOK(z)
    BY <2>1, <2>6, <2>7, <2>8, MoreHolds
  <2>. QED
    BY <2>9 DEF z
<1>. QED
  BY <1>4, <1>5, <1>6

\* What the lists hold, and where the nodes cut the event list.
ContentInv(f) == ForestInv(f) /\ ListsHold(f) /\ CutOK(f)

\* The empty forest has it so, ...
LEMMA EmptyContent ==
  ASSUME NEW f, f = EmptyForest
  PROVE  ContentInv(f)
<1>1. ForestInv(f)
  BY EmptyShape
<1>2. Len(f.nodes) = 0 /\ Len(f.index) = 0
  BY DEF EmptyForest
<1>3. \A j \in 1..0 : FALSE
  OBVIOUS
<1>. QED
  BY <1>1, <1>2, <1>3 DEF ContentInv, ListsHold, CutOK

\* ... append_event keeps it so, and appends.
LEMMA AppendContent ==
  ASSUME NEW f, ContentInv(f), NEW e \in Event, f.events # <<>> => AtOrBefore(Last(f.events), e)
  PROVE  ContentInv(AppendEvent(f, e)) /\ AppendEvent(f, e).events = Append(f.events, e)
<1>1. ForestInv(f) /\ ListsHold(f) /\ CutOK(f)
  BY DEF ContentInv
<1>2. ContentInv(AppendEvent(f, e))
  BY <1>1, AppendKeeps, AppendHolds DEF ContentInv
<1>. DEFINE z == AppendEvent(f, e)
            s == Append(f.events, e)
<1>3. Shape(f) /\ EventsOK(f) /\ f.events \in Seq(Event)
  BY <1>1 DEF ForestInv, Shape, Typed
<1>4. f = [events |-> f.events, nodes |-> f.nodes, index |-> f.index, tail |-> f.tail, minKey |-> f.minKey]
  BY <1>3 DEF Shape, Typed
<1>5. CASE f.events = <<>>
  <2>1. z = [f EXCEPT !.events = <<e>>, !.minKey = e.start]
    BY <1>5 DEF AppendEvent
  <2>2. z.events = <<e>>
    BY <1>4, <2>1
  <2>3. s = <<e>>
    BY <1>5
  <2>. QED
    BY <1>2, <2>2, <2>3
<1>6. CASE f.events # <<>> /\ e.start = Last(f.events).start
  <2>1. z = [f EXCEPT !.events = s]
    BY <1>6 DEF AppendEvent
  <2>2. z.events = s
    BY <1>4, <2>1
  <2>. QED
    BY <1>2, <2>2
<1>7. CASE f.events # <<>> /\ e.start # Last(f.events).start
  <2>. DEFINE p == BuildLeaf(f)
              g == MaintainIndex(p)
  <2>1. z = [g EXCEPT !.events = Append(g.events, e)]
    BY <1>7 DEF AppendEvent
  <2>2. Len(f.events) > 0
    BY <1>3, <1>7
  <2>3. Shape(p) /\ p.events = f.events
    BY <1>1, <1>3, <2>2, LeafShape DEF ForestInv
  <2>. HIDE DEF p
  <2>4. Shape(g) /\ g.events = f.events
    BY <2>3, MaintainShape DEF SameData
  <2>. HIDE DEF g
  <2>5. g = [events |-> g.events, nodes |-> g.nodes, index |-> g.index, tail |-> g.tail, minKey |-> g.minKey]
    BY <2>4 DEF Shape, Typed
  <2>6. z.events = s
    BY <2>1, <2>4, <2>5
  <2>. QED
    BY <1>2, <2>6
<1>. QED
  BY <1>5, <1>6, <1>7

\* In every state each node and forest-point has the events its place in the trees calls
\* for, however the appends have merged them (build_leaf, merge_forest_points).
THEOREM ForestContentHolds == Spec => []ContentInv(forest)
<1>1. Init => ContentInv(forest)
  BY EmptyContent DEF Init
<1>2. ContentInv(forest) /\ [Next]_forest => ContentInv(forest)'
  <2>. SUFFICES ASSUME ContentInv(forest), [Next]_forest PROVE ContentInv(forest)'
    OBVIOUS
  <2>1. CASE forest' = forest
    BY <2>1 DEF ContentInv
  <2>2. ASSUME NEW e \in Event, Append_event(e) PROVE ContentInv(forest)'
    <3>1. forest' = AppendEvent(forest, e) /\ (forest.events # <<>> => AtOrBefore(Last(forest.events), e))
      BY <2>2 DEF Append_event
    <3>2. ContentInv(AppendEvent(forest, e))
      BY <3>1, AppendContent
    <3>. QED
      BY <3>1, <3>2 DEF ContentInv
  <2>. QED
    BY <2>1, <2>2 DEF Next
<1>. QED
  BY <1>1, <1>2, PTL DEF Spec

\* A list that holds no events has none.
LEMMA SidesMembers ==
  ASSUME NEW n, NEW all, NEW low, NEW x, NEW y, NEW C, NEW D, Sides(n, all, C, D),
         C \in SUBSET Crossing(low, x), D \in SUBSET Starting(y)
  PROVE  /\ Ordered(n.nsa) /\ EndsDescend(n.ded) /\ EndsDescend(n.ned)
         /\ \A e \in ToSet(n.ded) : e.start = y
         /\ \A e \in ToSet(n.ned) : e.start < x /\ x <= e.end
<1>1. Holds(n.ded, all, D) /\ Holds(n.ned, all, C)
  BY DEF Sides
<1>2. n.ded \in Seq(Event) /\ n.ned \in Seq(Event)
  BY <1>1 DEF Holds
<1>3. ASSUME NEW e \in ToSet(n.ded) PROVE e.start = y
  <2>1. PICK i \in 1..Len(n.ded) : n.ded[i] = e
    BY <1>2 DEF ToSet
  <2>2. e \in D
    BY <1>1, <2>1, HoldsMember
  <2>. QED
    BY <2>2 DEF Starting
<1>4. ASSUME NEW e \in ToSet(n.ned) PROVE e.start < x /\ x <= e.end
  <2>1. PICK i \in 1..Len(n.ned) : n.ned[i] = e
    BY <1>2 DEF ToSet
  <2>2. e \in C
    BY <1>1, <2>1, HoldsMember
  <2>. QED
    BY <2>2 DEF Crossing
<1>. QED
  BY <1>3, <1>4 DEF Sides

\* The lists of every node and forest-point are in the orders that copy_start_asc and
\* copy_end_dec stop early in, and hold only events of its keys.
THEOREM ForestListsOrdered == Spec => []ListsOrdered
<1>1. ContentInv(forest) => ListsOrdered
  <2>. SUFFICES ASSUME ContentInv(forest) PROVE ListsOrdered
    OBVIOUS
  <2>1. Shape(forest) /\ ListsHold(forest)
    BY DEF ContentInv, ForestInv
  <2>2. forest.nodes \in Seq(NodeRecord) /\ forest.index \in Seq(PointRecord)
    BY <2>1 DEF Shape, Typed
  <2>. DEFINE Good(n) == /\ Ordered(n.nsa) /\ EndsDescend(n.ded) /\ EndsDescend(n.ned)
                         /\ \A e \in ToSet(n.ded) : e.start = n.dkey
                         /\ \A e \in ToSet(n.ned) : e.start < n.nkey /\ n.nkey <= e.end
  <2>3. ASSUME NEW i \in 1..Len(forest.index) PROVE Good(forest.index[i])
    <3>1. PointHolds(forest, i)
      BY <2>1 DEF ListsHold
    <3>. QED
      BY <3>1, SidesMembers DEF PointHolds
  <2>4. ASSUME NEW j \in 1..Len(forest.nodes) PROVE Good(forest.nodes[j])
    <3>1. CASE j \in Settled(forest)
      <4>1. NodeHolds(forest, j)
        BY <2>1, <3>1 DEF ListsHold
      <4>. DEFINE n == forest.nodes[j]
                  w == Leaves[n.height] - 1
                  gone == Ending(forest.nodes[j + w].dkey + 1)
                  C == Crossing(forest.nodes[j - w].nkey, n.nkey) \cap gone
                  D == Starting(n.dkey) \cap gone
      <4>2. Sides(n, Indexed(forest), C, D)
        BY <4>1 DEF NodeHolds
      <4>3. C \in SUBSET Crossing(forest.nodes[j - w].nkey, n.nkey) /\ D \in SUBSET Starting(n.dkey)
        OBVIOUS
      <4>4. PICK low, x, y : low = forest.nodes[j - w].nkey /\ x = n.nkey /\ y = n.dkey
        OBVIOUS
      <4>5. C \in SUBSET Crossing(low, x) /\ D \in SUBSET Starting(y)
        BY <4>3, <4>4
      <4>. HIDE DEF C, D, n
      <4>6. /\ Ordered(n.nsa) /\ EndsDescend(n.ded) /\ EndsDescend(n.ned)
            /\ \A e \in ToSet(n.ded) : e.start = y
            /\ \A e \in ToSet(n.ned) : e.start < x /\ x <= e.end
        BY <4>2, <4>5, SidesMembers
      <4>. QED
        BY <4>4, <4>6 DEF n
    <3>2. CASE j \notin Settled(forest)
      <4>1. forest.nodes[j].nsa = <<>> /\ forest.nodes[j].ded = <<>> /\ forest.nodes[j].ned = <<>>
        BY <2>1, <3>2 DEF ListsHold
      <4>2. Ordered(<<>>) /\ EndsDescend(<<>>) /\ ToSet(<<>>) = {}
        BY DEF Ordered, EndsDescend, ToSet
      <4>. QED
        BY <4>1, <4>2
    <3>. QED
      BY <3>1, <3>2
  <2>5. ASSUME NEW n \in Nodes \cup Points PROVE Good(n)
    <3>1. (\E j \in 1..Len(forest.nodes) : n = forest.nodes[j]) \/ (\E i \in 1..Len(forest.index) : n = forest.index[i])
      BY <2>2 DEF Nodes, Points, ToSet
    <3>. QED
      BY <2>3, <2>4, <3>1
  <2>. QED
    BY <2>5 DEF ListsOrdered
<1>. QED
  BY <1>1, ForestContentHolds, PTL
=================================================================================
