------------------------------- MODULE StabForward ------------------------------
(***************************************************************************)
(* A stab_forward helper on a stab forest: the forest is filled, the       *)
(* helper made, and from then on the caller moves it an event at a time or *)
(* stabs ahead ("repeated stab and scan operations (on increasing          *)
(* start-times)", stab_forest.hpp:287).                                    *)
(***************************************************************************)
EXTENDS StabForest, ForwardOps

VARIABLES helper,   \* NoHelper while the forest is being filled
          stab      \* the last stab_forward: the position it began at and its value

fvars == <<forest, helper, stab>>

NoHelper == [it |-> 0]
NoStab == [from |-> 0, value |-> 0]

FInit == Init /\ helper = NoHelper /\ stab = NoStab

\* A helper is valid only while nothing more is appended.
Fill(e) == helper = NoHelper /\ Append_event(e) /\ UNCHANGED <<helper, stab>>

Stab_forward_search(policy) ==
  /\ helper = NoHelper
  /\ helper' = NewHelper(forest, policy)
  /\ UNCHANGED <<forest, stab>>

AtEnd == helper.it > Len(forest.events)

Increment ==
  /\ helper # NoHelper /\ ~AtEnd
  /\ helper' = [helper EXCEPT !.it = @ + 1]
  /\ UNCHANGED <<forest, stab>>

\* The caller's side of stab_forward: "the iterator currently points to the first event
\* with the start-time of the current event", values go up past the events already passed,
\* and the index policy reads the current event, so there must be one.
MayStab(v) ==
  /\ helper.it > 1 =>
       /\ v > forest.events[helper.it - 1].start
       /\ ~AtEnd => CurrentStart(forest, helper) # forest.events[helper.it - 1].start
  /\ AtEnd => helper.policy # "index"

Stab_forward(v) ==
  /\ helper # NoHelper /\ MayStab(v)
  /\ helper' = StabForwardOp(forest, helper, v)
  /\ stab' = [from |-> helper.it, value |-> v]
  /\ UNCHANGED forest

FNext ==
  \/ \E e \in Event : Fill(e)
  \/ \E policy \in Policies : Stab_forward_search(policy)
  \/ Increment
  \/ \E v \in Timestamp : Stab_forward(v)

FSpec == FInit /\ [][FNext]_fvars

---------------------------------------------------------------------------------
\* The events a stab from position i at v should write: those at i or later active at v.
Expected(i, v) == Selected(SubSeq(forest.events, i, Len(forest.events)),
                           LAMBDA e : ActiveAt(e, v))

\* A stab writes no event twice, none that is not active at its value, and none the
\* helper had passed when the call began: what the lists remember of earlier stabs
\* (visited_nodes, start_asc_it) never brings an event back.
WritesOnlyExpected ==
  helper # NoHelper /\ stab # NoStab =>
    \A e \in Event :
      Occurrences(helper.out, e) <= Occurrences(Expected(stab.from, stab.value), e)

\* A stab may lose an event only where it starts exactly when the current event did.
LosesOnlyCurrentStart ==
  helper # NoHelper /\ stab # NoStab =>
    \A e \in Event :
      Occurrences(helper.out, e) # Occurrences(Expected(stab.from, stab.value), e)
        => e.start = forest.events[stab.from].start

\* A stab leaves the helper at the first event that starts after its value, wherever it
\* looked: in the trees, after them or in the list.
StopsAfterValue ==
  [][\A v \in Timestamp : Stab_forward(v) =>
       helper'.it = Skip(forest.events, 1, LAMBDA e : e.start <= v)]_fvars
=================================================================================
