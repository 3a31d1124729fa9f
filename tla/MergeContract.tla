------------------------------ MODULE MergeContract ------------------------------
(***************************************************************************)
(* What PMerge (pmergejoin.h) promises PMergeSort, its only caller: in one *)
(* step, the merged vector, or the end of the process when the arithmetic  *)
(* of the split loop leaves the last worker nothing.  Repeated values,     *)
(* sentinels or too few threads may end the process as well.               *)
(***************************************************************************)
EXTENDS MergeOps

CONSTANT Calls   \* the calls <<lhs, rhs, n_workers, max_threads>>

VARIABLES call, ordinary, state, result

vars == <<call, ordinary, state, result>>

Init == /\ call \in Calls
        /\ ordinary \in BOOLEAN
        /\ state = "running"
        /\ result = <<>>

Answer == LET outcome == MergeOutcome(call[1], call[2], call[3]) IN
  /\ state = "running"
  /\ state' = outcome.tag
  /\ result' = outcome.val
  /\ UNCHANGED <<call, ordinary>>

Fail == /\ state = "running"
        /\ ~ordinary
        /\ state' = "aborted"
        /\ UNCHANGED <<call, ordinary, result>>

Safety == Init /\ [][Answer \/ Fail]_vars

\* Only an ordinary call is sure to be answered.
Answers == WF_vars(ordinary /\ Answer)

Spec == Safety /\ Answers
=================================================================================
