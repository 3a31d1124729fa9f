------------------------------- MODULE MCMeasures -------------------------------
(* The lists of distinct events that a few events make, in order, and lists in which *)
(* an event is repeated.                                                             *)
EXTENDS Measures

ev(s, e) == [start |-> s, end |-> e]
Ascending == <<ev(0, 3), ev(1, 3), ev(2, 2), ev(2, 4), ev(3, 3), ev(4, 4)>>

Distinct == {SelectSeq(Ascending, LAMBDA e : e \in S) : S \in SUBSET ToSet(Ascending)}
Repeating == {s \in BoundedSeq({ev(0, 3), ev(2, 2), ev(2, 4)}, 3) : Ordered(s)}

\* Windows that overlap with one behind them that is far ahead.
OverlapThenFar == <<ev(0, 0), ev(0, 1), ev(4, 4)>>

AllEvents == ToSet(Ascending) \cup ToSet(OverlapThenFar)
OrderedLists == Distinct \cup Repeating \cup {OverlapThenFar}
Forests == [s \in OrderedLists |-> ForestOf(s)]
=================================================================================
