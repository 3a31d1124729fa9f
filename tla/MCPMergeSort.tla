------------------------------ MODULE MCPMergeSort ------------------------------
EXTENDS PMergeSort

CONSTANTS MaxSize, Workers

\* The values 1 .. z in order, reversed, and odd before even: std::sort makes one
\* sorted job of any order, so only which values share a job matters.
Ascends(z) == [i \in 1..z |-> i]
Descends(z) == [i \in 1..z |-> z + 1 - i]
OddFirst(z) == [i \in 1..z |-> IF 2 * i - 1 <= z THEN 2 * i - 1 ELSE 2 * (z + 1 - i)]

LongCalls ==
  UNION {{Ascends(z), Descends(z), OddFirst(z)} \X Workers : z \in 0..MaxSize}
=================================================================================
