-------------------------------- MODULE MedianOps --------------------------------
(***************************************************************************)
(* The pure part of FindMedian (pmergejoin.h): the sentinel-extended       *)
(* element access, the three comparisons of one probe, and the whole       *)
(* search as a function.  Spans are sequences; positions are 0-based, as   *)
(* in the code, and Compare is std::less, as MergeJoin.cpp instantiates it.*)
(***************************************************************************)
EXTENDS Integers, Sequences, FiniteSets

CONSTANTS
  MinT,   \* MIN<T>() : INT_MIN in the build
  MaxT    \* MAX<T>() : INT_MAX in the build

ASSUME SentinelAssumption == MinT \in Int /\ MaxT \in Int /\ MinT < MaxT

\* A sorted span, as every caller of FindMedian passes.
SortedSpan(s) == \A i, j \in 1..Len(s) : i <= j => s[i] <= s[j]

\* left[lidx] of the lambda less_than: an absent index (std::nullopt, here any
\* negative position) reads as MIN<T>(), one past the end as MAX<T>().
At(s, i) ==
  IF i < 0 THEN MinT ELSE IF i >= Len(s) THEN MaxT ELSE s[i + 1]

\* Mutant: the rank rounded up.
HalfRoundsUp(x, y) == (Len(x) + Len(y) + 1) \div 2

\* e_val, the rank of the element searched for.
Half(x, y) == (Len(x) + Len(y)) \div 2

\* Mutant: the test for "too large" made at e_m_1 instead of e_m.
TooLargeAtEM1(x, y, i) == At(y, Half(x, y) - i - 1) < At(x, i)

\* The three tests of a probe at position i of x, in the order of the code.
TooSmall(x, y, i)  == At(x, i) < At(y, Half(x, y) - i - 1)
TooLarge(x, y, i)  == At(y, Half(x, y) - i) < At(x, i)
Separates(x, y, i) == /\ At(y, Half(x, y) - i - 1) < At(x, i)
                      /\ At(x, i) < At(y, Half(x, y) - i)

\* One while loop of FindMedian, as a function of the range <<begin, end>>.
ProbeLoop(x, y) ==
  LET n == Len(x) + Len(y)
      loop[range \in (0..n) \X (0..n)] ==
        LET b   == range[1]
            e   == range[2]
            mid == (b + e) \div 2
        IN IF b >= e                    THEN [tag |-> "absent", val |-> MinT]
           ELSE IF TooSmall(x, y, mid)  THEN loop[<<mid + 1, e>>]
           ELSE IF TooLarge(x, y, mid)  THEN loop[<<b, mid>>]
           ELSE IF Separates(x, y, mid) THEN [tag |-> "returned", val |-> At(x, mid)]
           ELSE                              [tag |-> "tie", val |-> MinT]
  IN loop

Probe(x, y) == ProbeLoop(x, y)[<<0, Len(x) + Len(y)>>]

\* FindMedian: search m1, then m2; a tie throws in the first loop and spins in
\* the second, which has no else branch.
FindMedian(m1, m2) ==
  LET first  == Probe(m1, m2)
      second == Probe(m2, m1)
      threw  == [tag |-> "threw", val |-> MinT]
  IN CASE first.tag = "returned" -> first
       [] first.tag = "tie"      -> threw
       [] OTHER -> CASE second.tag = "returned" -> second
                     [] second.tag = "tie"      -> [tag |-> "spins", val |-> MinT]
                     [] OTHER                   -> threw

\* std::distance(begin, std::lower_bound(begin, end, v, cmp)) on a sorted span.
LowerBound(s, v) == Cardinality({k \in 1..Len(s) : s[k] < v})

---------------------------------------------------------------------------------
(* What is searched for. *)

\* v is the element of rank floor(n/2) of the union: some split of both spans
\* puts exactly that many elements, none above v, on the left of v.
IsMedian(x, y, v) ==
  \E i \in 0..Len(x), j \in 0..Len(y) :
    /\ i + j = (Len(x) + Len(y)) \div 2
    /\ \A k \in 1..Len(x) : IF k <= i THEN x[k] <= v ELSE v <= x[k]
    /\ \A k \in 1..Len(y) : IF k <= j THEN y[k] <= v ELSE v <= y[k]
    /\ (i < Len(x) /\ x[i + 1] = v) \/ (j < Len(y) /\ y[j + 1] = v)

\* The inputs FindMedian can answer: something to search, no value in both
\* spans, and no value equal to one of the sentinels MIN<T>() and MAX<T>().
Searchable(x, y) ==
  /\ Len(x) + Len(y) > 0
  /\ \A i \in 1..Len(x) : MinT < x[i] /\ x[i] < MaxT
  /\ \A j \in 1..Len(y) : MinT < y[j] /\ y[j] < MaxT
  /\ \A i \in 1..Len(x), j \in 1..Len(y) : x[i] # y[j]

\* All positions of x below b hold values too small to be the median, all
\* positions from e on values too large.
Narrowed(x, y, b, e) ==
  /\ \A i \in 0..(b - 1) : TooSmall(x, y, i)
  /\ \A i \in e..(Len(x) + Len(y) - 1) : TooLarge(x, y, i)
=================================================================================
