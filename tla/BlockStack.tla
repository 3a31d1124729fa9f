------------------------------- MODULE BlockStack -------------------------------
(***************************************************************************)
(* What block_lists are to their owners: sequences of values that grow and *)
(* shrink at the back, change owners by a swap, which a move is too, and   *)
(* end with all their values.                                              *)
(***************************************************************************)
EXTENDS SequencesExt

CONSTANTS Value, List

VARIABLE values

Init == values = [l \in List |-> <<>>]
Emplace_back(l) == \E v \in Value : values' = [values EXCEPT ![l] = Append(@, v)]
Pop_back(l) == values[l] # <<>> /\ values' = [values EXCEPT ![l] = Front(@)]
Swap(l, m) == values' = [values EXCEPT ![l] = values[m], ![m] = values[l]]
Destroy(l) == values' = [values EXCEPT ![l] = <<>>]

Next ==
  \/ \E l \in List : Emplace_back(l) \/ Pop_back(l) \/ Destroy(l)
  \/ \E l, m \in List : Swap(l, m)
Spec == Init /\ [][Next]_values
=================================================================================
