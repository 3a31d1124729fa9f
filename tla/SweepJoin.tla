-------------------------------- MODULE SweepJoin -------------------------------
(***************************************************************************)
(* What both temporal joins are (temporal_join.hpp:119-191): a loop over   *)
(* two event lists with a place in each, which goes on with the one of the *)
(* two current events that starts first, the left one of two that start    *)
(* together, and ends at the end of one list.                              *)
(***************************************************************************)
EXTENDS EventLists

VARIABLES lit, rit,   \* the places
          pairs       \* what is written to output

joinVars == <<left, right, lit, rit, pairs>>

Running(i, j) == i <= Len(left) /\ j <= Len(right)

\* Mutant: the events compared by their ends.
EndsFirst(i, j) == left[i].end <= right[j].end

LeftFirst(i, j) == left[i].start <= right[j].start
=================================================================================
