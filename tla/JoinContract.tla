------------------------------ MODULE JoinContract ------------------------------
(***************************************************************************)
(* What a temporal join by sweep promises, whichever way it moves: as it   *)
(* passes events of the two lists it has written, at each moment, exactly  *)
(* the overlapping pairs with an event it has passed, each once.           *)
(***************************************************************************)
EXTENDS Events

VARIABLES left, right,          \* the two event lists
          passedL, passedR,     \* how many of their events are passed
          written               \* the bag of pairs written to output

vars == <<left, right, passedL, passedR, written>>

Init ==
  /\ left \in Seq(Event) /\ Ordered(left)
  /\ right \in Seq(Event) /\ Ordered(right)
  /\ passedL = 0 /\ passedR = 0
  /\ written = EmptyBag

Pass ==
  /\ passedL' \in passedL..Len(left) /\ passedR' \in passedR..Len(right)
  /\ written' = Due(left, right, passedL', passedR')
  /\ UNCHANGED <<left, right>>

Spec == Init /\ [][Pass]_vars
=================================================================================
