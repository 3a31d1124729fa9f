----------------------------- MODULE MCMedianSearch -----------------------------
EXTENDS MedianSearch, SequencesExt

CONSTANT MaxLen
Spans == {s \in BoundedSeq(MinT..MaxT, MaxLen) : SortedSpan(s)}
AllInputs == Spans \X Spans
=================================================================================
