------------------------------- MODULE EventLists ------------------------------
(***************************************************************************)
(* The event lists that joins and queries run over: in (start, end) order, *)
(* as append_event asks for (stab_forest.hpp:250-253).                     *)
(***************************************************************************)
EXTENDS Events

CONSTANT Lists

ASSUME ListsAssumption == Lists \subseteq {s \in Seq(Event) : Ordered(s)}

VARIABLES left, right   \* the two data sets
=================================================================================
