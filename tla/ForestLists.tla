------------------------------ MODULE ForestLists -------------------------------
(***************************************************************************)
(* The stab forests over the event lists.  The table is a constant because *)
(* a forest is built once and then only read.                              *)
(***************************************************************************)
EXTENDS ForwardOps, EventLists

CONSTANT ForestTable   \* of each list the forest that its appends build

ASSUME ForestAssumption == ForestTable = [s \in Lists |-> ForestOf(s)]
=================================================================================
