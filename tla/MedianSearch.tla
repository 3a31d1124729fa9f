------------------------------ MODULE MedianSearch ------------------------------
(***************************************************************************)
(* FindMedian (pmergejoin.h) as the loop the code runs: one action per     *)
(* branch of one iteration.  pass = 1 searches the median in m1, pass = 2  *)
(* in m2.                                                                  *)
(***************************************************************************)
EXTENDS MedianOps

CONSTANT Inputs   \* the pairs <<m1, m2>> of sorted spans the search is called on

ASSUME InputAssumption ==
  \A in \in Inputs :
    /\ in \in Seq(MinT..MaxT) \X Seq(MinT..MaxT)
    /\ SortedSpan(in[1])
    /\ SortedSpan(in[2])

VARIABLES
  m1, m2,      \* the two spans
  pass,        \* which of the two while loops runs
  begin, end,  \* the loop variables
  result       \* tag "searching", "returned" (with the value) or "threw"

searchVars == <<m1, m2, pass, begin, end, result>>

X == IF pass = 1 THEN m1 ELSE m2
Y == IF pass = 1 THEN m2 ELSE m1

\* Mutant: the midpoint rounded up.
MidRoundsUp == (begin + end + 1) \div 2
Mid == (begin + end) \div 2

SearchInit ==
  /\ \E in \in Inputs : m1 = in[1] /\ m2 = in[2]
  /\ pass = 1
  /\ begin = 0
  /\ end = Len(m1) + Len(m2)
  /\ result = [tag |-> "searching", val |-> MinT]

Probing == result.tag = "searching" /\ begin < end

StepRight ==
  /\ Probing
  /\ TooSmall(X, Y, Mid)
  /\ begin' = Mid + 1
  /\ UNCHANGED <<m1, m2, pass, end, result>>

\* Mutant: end = mid - 1, as if end were the last position.
StepLeftPastMid ==
  /\ Probing
  /\ ~TooSmall(X, Y, Mid)
  /\ TooLarge(X, Y, Mid)
  /\ end' = IF Mid > begin THEN Mid - 1 ELSE Mid
  /\ UNCHANGED <<m1, m2, pass, begin, result>>

StepLeft ==
  /\ Probing
  /\ ~TooSmall(X, Y, Mid)
  /\ TooLarge(X, Y, Mid)
  /\ end' = Mid
  /\ UNCHANGED <<m1, m2, pass, begin, result>>

Return ==
  /\ Probing
  /\ ~TooSmall(X, Y, Mid)
  /\ ~TooLarge(X, Y, Mid)
  /\ Separates(X, Y, Mid)
  /\ result' = [tag |-> "returned", val |-> At(X, Mid)]
  /\ UNCHANGED <<m1, m2, pass, begin, end>>

\* Neither smaller, larger nor separating: the first loop throws ...
ThrowTie ==
  /\ Probing
  /\ pass = 1
  /\ ~TooSmall(X, Y, Mid)
  /\ ~TooLarge(X, Y, Mid)
  /\ ~Separates(X, Y, Mid)
  /\ result' = [tag |-> "threw", val |-> MinT]
  /\ UNCHANGED <<m1, m2, pass, begin, end>>

\* ... and the second iterates again with nothing changed.
Spin ==
  /\ Probing
  /\ pass = 2
  /\ ~TooSmall(X, Y, Mid)
  /\ ~TooLarge(X, Y, Mid)
  /\ ~Separates(X, Y, Mid)
  /\ UNCHANGED searchVars

SecondPass ==
  /\ result.tag = "searching"
  /\ begin >= end
  /\ pass = 1
  /\ pass' = 2
  /\ begin' = 0
  /\ end' = Len(m1) + Len(m2)
  /\ UNCHANGED <<m1, m2, result>>

ThrowAbsent ==
  /\ result.tag = "searching"
  /\ begin >= end
  /\ pass = 2
  /\ result' = [tag |-> "threw", val |-> MinT]
  /\ UNCHANGED <<m1, m2, pass, begin, end>>

SearchNext ==
  \/ StepRight \/ StepLeft \/ Return \/ ThrowTie \/ Spin
  \/ SecondPass \/ ThrowAbsent

SearchSpec == SearchInit /\ [][SearchNext]_searchVars
FairSearch == SearchSpec /\ WF_searchVars(SearchNext)

---------------------------------------------------------------------------------
\* Types: begin and end stay inside 0 .. m1.size() + m2.size(), in that order, and
\* the spans stay the sorted ones the caller passed (pmergejoin.h:76-126).
LoopTypeOK ==
  /\ m1 \in Seq(MinT..MaxT) /\ SortedSpan(m1)
  /\ m2 \in Seq(MinT..MaxT) /\ SortedSpan(m2)
  /\ pass \in {1, 2}
  /\ begin \in 0..(Len(m1) + Len(m2))
  /\ end \in 0..(Len(m1) + Len(m2))
  /\ begin <= end
  /\ result \in [tag : {"searching", "returned", "threw"}, val : MinT..MaxT]

\* Whatever the spans hold, ties and sentinel values included, a value that is
\* returned is the median of their union (pmergejoin.h:95, 122).
ReturnsMedian ==
  result.tag = "returned" => IsMedian(m1, m2, result.val)

\* Neither the tie branch nor the end of the second loop throws on spans the
\* search can answer (pmergejoin.h:97, 126).
ThrowsOnlyUnsearchable ==
  result.tag = "threw" => ~Searchable(m1, m2)

\* The function FindMedian of MedianOps, which the merge threads call, is what
\* the loops compute.
AgreesWithFindMedian ==
  result.tag # "searching" => result = FindMedian(m1, m2)

\* On spans it can answer, the search always returns: neither loop runs for ever
\* (pmergejoin.h:81-99, 106-124).
SearchReturns == Searchable(m1, m2) ~> (result.tag = "returned")

\* The inductive invariant of the two loops: the probed positions outside
\* begin .. end are excluded for the reason the branch gave, and the second loop
\* only runs once the first has excluded every position of m1.
SearchInv ==
  /\ LoopTypeOK
  /\ Narrowed(X, Y, begin, end)
  /\ pass = 2 => \E b \in 0..(Len(m1) + Len(m2)) : Narrowed(m1, m2, b, b)
  /\ ReturnsMedian
  /\ ThrowsOnlyUnsearchable
=================================================================================
