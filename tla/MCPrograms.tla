------------------------------- MODULE MCPrograms -------------------------------
(* Data files of two kinds: lists of up to three events as tool_split would write     *)
(* them, and up to four texts that are numbers, or too big, or not numbers.           *)
EXTENDS Programs

ev(s, e) == [start |-> s, end |-> e]
EventFiles == {Written(s) : s \in BoundedSeq({ev(0, 3), ev(1, 1), ev(2, 15), ev(12, 4)}, 3)
                                    \cup [1..4 -> {ev(0, 3), ev(1, 1)}]}
Texts == {<<7>>, <<0, 1, 5>>, <<1, 6>>, <<2, 0>>, <<Other>>}
TextFiles == BoundedSeq(Texts, 3) \cup [1..4 -> {<<7>>, <<1, 5>>, <<1, 6>>}]

\* A file that cannot be read, and one with events that no other has.
OtherFiles == {<<<<Other>>, <<7>>>>, Written(<<ev(5, 6), ev(4, 4), ev(7, 7)>>)}

AllDataFiles == EventFiles \cup TextFiles
SplitSizes == {Invalid, 3, 15}
UnassignedEvents == {ev(9, 9)}
=================================================================================
