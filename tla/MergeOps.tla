-------------------------------- MODULE MergeOps --------------------------------
(***************************************************************************)
(* What the callers of PMerge (pmergejoin.h) rely on: the merged vector,   *)
(* and the arithmetic of the split loop that decides whether the last      *)
(* piece handed to a worker is empty.                                      *)
(***************************************************************************)
EXTENDS Integers, Sequences, FiniteSets

\* The elements that come before s[j]: those below it, and its equals in front of it.
Preceding(s, j) == {k \in 1..Len(s) : s[k] < s[j] \/ (s[k] = s[j] /\ k < j)}

\* The elements of s in order: std::sort, and the merge of l and r.
Sorted(s) ==
  [i \in 1..Len(s) |-> s[CHOOSE j \in 1..Len(s) : Cardinality(Preceding(s, j)) = i - 1]]
Merged(l, r) == Sorted(l \o r)

Distinct(s) == \A i, j \in 1..Len(s) : s[i] = s[j] => i = j

\* The split loop cuts behind its last element, so the piece pushed after the loop
\* is (0, 0), which HighPref_Merge has no case for.
LastPieceEmpty(z, n) ==
  LET loop[at \in (0..(z - 1)) \X (Nat \ {0})] ==
        LET count == at[1]
            idx   == at[2]
            cuts  == count = (idx * z) \div n
        IN IF count = z - 1 THEN cuts
           ELSE loop[<<count + 1, IF cuts THEN idx + 1 ELSE idx>>]
  IN loop[<<0, 1>>]

\* What a call of PMerge comes to on distinct values with threads enough.
MergeOutcome(l, r, n) ==
  CASE l = <<>> -> [tag |-> "done", val |-> r]
    [] r = <<>> -> [tag |-> "done", val |-> l]
    [] l # <<>> /\ r # <<>> /\ LastPieceEmpty(Len(l) + Len(r), n) ->
         [tag |-> "aborted", val |-> <<>>]
    [] OTHER -> [tag |-> "done", val |-> Merged(l, r)]
=================================================================================
