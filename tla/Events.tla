--------------------------------- MODULE Events ---------------------------------
(***************************************************************************)
(* Events, their orders, and the list helpers of skipjoin: interval.hpp,   *)
(* the copy_* functions of stab_forest.hpp and algorithm.hpp.  A position  *)
(* in a list of n events is in 1..n+1, n+1 being end().                    *)
(***************************************************************************)
EXTENDS Integers, SequencesExt

CONSTANTS MaxTime,   \* the largest timestamp the model uses
          Event      \* the events, pairs of timestamps

Timestamp == 0..MaxTime

ASSUME EventAssumption ==
  /\ MaxTime \in Nat
  /\ Event \subseteq {e \in [start : Timestamp, end : Timestamp] : e.start <= e.end}

\* The order event lists are in: lexicographic on (start, end).
AtOrBefore(a, b) == a.start < b.start \/ (a.start = b.start /\ a.end <= b.end)
Ordered(s) == \A i, j \in DOMAIN s : i < j => AtOrBefore(s[i], s[j])
EndsDescend(s) == \A i, j \in DOMAIN s : i < j => s[i].end >= s[j].end

Occurrences(s, e) == Cardinality({i \in 1..Len(s) : s[i] = e})

ActiveAt(e, v) == e.start <= v /\ v <= e.end
Overlaps(a, b) == a.start <= b.end /\ b.start <= a.end

\* The bag of the pairs of events of two lists at a set of pairs of positions.
PairBag(l, r, positions) ==
  LET pairAt(p) == <<l[p[1]], r[p[2]]>>
  IN [pair \in {pairAt(p) : p \in positions} |->
        Cardinality({p \in positions : pairAt(p) = pair})]

\* The overlapping pairs of two lists with one of the first i events or of the first j.
Due(l, r, i, j) ==
  PairBag(l, r, {p \in (DOMAIN l) \X (DOMAIN r) :
                   Overlaps(l[p[1]], r[p[2]]) /\ (p[1] <= i \/ p[2] <= j)})

\* The elements of s at the positions kept, and those that Test holds for, in their order.
ElementsAt(s, kept) ==
  [n \in 1..Cardinality(kept) |->
     s[CHOOSE i \in kept : Cardinality({k \in kept : k < i}) = n - 1]]
Selected(s, Test(_)) == ElementsAt(s, {i \in DOMAIN s : Test(s[i])})

\* The first position from i on whose element fails Test, or end().
Skip(s, i, Test(_)) ==
  LET p == SelectInSubSeq(s, i, Len(s), LAMBDA e : ~Test(e))
  IN IF p = 0 THEN Len(s) + 1 ELSE p

\* copy_start_asc from position i of a list in ascending start order: what it
\* copies and the position it returns.  since is the optional mstart (0 if absent).
CopyStartAsc(s, i, v, since) ==
  LET first == Skip(s, i, LAMBDA e : e.start < since)
      next  == Skip(s, first, LAMBDA e : e.start <= v)
  IN [out |-> SubSeq(s, first, next - 1), next |-> next]

\* copy_end_dec on a list in descending end order.
CopyEndDec(s, v, since) ==
  Selected(SubSeq(s, 1, Skip(s, 1, LAMBDA e : e.end >= v) - 1),
           LAMBDA e : since <= e.start)

\* Mutant: std::lower_bound, which drops an event that ends at v.
LowerBoundEnd(s, v) == Skip(s, 1, LAMBDA e : e.end > v)

\* std::upper_bound with end_compare(greater): the position of the first event that
\* ends before v, in a list in descending end order.
UpperBoundEnd(s, v) == Skip(s, 1, LAMBDA e : e.end >= v)

\* std::merge with the same comparison: on equal ends a goes first.
MergesEnds(a, b) ==
  LET rest[at \in (1..(Len(a) + 1)) \X (1..(Len(b) + 1))] ==
        LET i == at[1]
            j == at[2]
        IN IF i > Len(a) THEN SubSeq(b, j, Len(b))
           ELSE IF j > Len(b) THEN SubSeq(a, i, Len(a))
           ELSE IF b[j].end > a[i].end THEN <<b[j]>> \o rest[<<i, j + 1>>]
           ELSE <<a[i]>> \o rest[<<i + 1, j>>]
  IN rest
MergeEnds(a, b) == MergesEnds(a, b)[<<1, 1>>]

\* Mutants: the third list forgotten; the lists one behind the other.
WithoutThird(a, b, c) == MergeEnds(a, b)
Unmerged(a, b, c) == a \o b \o c

\* merge_three_way with end_compare(greater): one loop while all three lists have
\* events, then std::merge of the two that are left.
MergesThreeWay(a, b, c) ==
  LET rest[at \in (1..(Len(a) + 1)) \X (1..(Len(b) + 1)) \X (1..(Len(c) + 1))] ==
        LET i == at[1]
            j == at[2]
            k == at[3]
            ra == SubSeq(a, i, Len(a))
            rb == SubSeq(b, j, Len(b))
            rc == SubSeq(c, k, Len(c))
        IN IF i > Len(a) THEN MergeEnds(rb, rc)
           ELSE IF j > Len(b) THEN MergeEnds(ra, rc)
           ELSE IF k > Len(c) THEN MergeEnds(ra, rb)
           ELSE IF b[j].end > a[i].end
           THEN IF c[k].end > b[j].end
                THEN <<c[k]>> \o rest[<<i, j, k + 1>>]
                ELSE <<b[j]>> \o rest[<<i, j + 1, k>>]
           ELSE IF c[k].end > a[i].end
                THEN <<c[k]>> \o rest[<<i, j, k + 1>>]
                ELSE <<a[i]>> \o rest[<<i + 1, j, k>>]
  IN rest
MergeThreeWay(a, b, c) == MergesThreeWay(a, b, c)[<<1, 1, 1>>]
=================================================================================
