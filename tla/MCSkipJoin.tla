------------------------------- MODULE MCSkipJoin --------------------------------
(* The lists of distinct events that a few events make, in order. *)
EXTENDS SkipJoin

ev(s, e) == [start |-> s, end |-> e]
Ascending == <<ev(0, 0), ev(0, 3), ev(1, 3), ev(2, 2), ev(2, 4), ev(3, 3), ev(4, 4)>>
AllEvents == ToSet(Ascending)

OrderedLists == {SelectSeq(Ascending, LAMBDA e : e \in S) : S \in SUBSET AllEvents}
Forests == [s \in OrderedLists |-> ForestOf(s)]
==================================================================================
