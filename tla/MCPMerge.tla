-------------------------------- MODULE MCPMerge --------------------------------
EXTENDS PMerge

CONSTANTS MaxSize, Workers

\* The values 1 .. z dealt to the two vectors in every way, and threads enough: the
\* code only compares, so every call with z distinct values behaves like one of these.
Deal(z) == {<<SetToSortSeq(S, <), SetToSortSeq((1..z) \ S, <)>> : S \in SUBSET (1..z)}
DistinctCalls ==
  {<<d[1], d[2], n, 15>> : d \in UNION {Deal(z) : z \in 0..MaxSize}, n \in Workers}

\* Every pair of sorted vectors of fewer values, repeated and sentinel values included,
\* and so few threads that starting one may fail.
Spans == {s \in BoundedSeq({MinT, 1, 2, MaxT}, MaxSize - 1) : SortedSpan(s)}
RepeatingCalls ==
  {<<p[1], p[2], n, 7>> : p \in {q \in Spans \X Spans : Len(q[1]) + Len(q[2]) < MaxSize},
                          n \in Workers \ {4}}

AllCalls == DistinctCalls \cup RepeatingCalls
=================================================================================
