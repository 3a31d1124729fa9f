-------------------------------- MODULE SkipJoin --------------------------------
(***************************************************************************)
(* forward_skip_join (temporal_join.hpp:154-191): the sweep over two stab  *)
(* forests that, when the current event of one list ends before the other  *)
(* list's begins, jumps there with stab_forward instead of stepping.       *)
(* The places lit and rit are helpers; pairs is a sequence.                *)
(***************************************************************************)
EXTENDS SweepJoin, ForestLists

VARIABLES policy_l, policy_r   \* the jump policies the two helpers are made with

policies == <<policy_l, policy_r>>
skipVars == <<left, right, policy_l, policy_r, lit, rit, pairs>>

SkipInit ==
  /\ left \in Lists /\ right \in Lists
  /\ policy_l \in Policies /\ policy_r \in Policies
  /\ lit = NewHelper(ForestTable[left], policy_l)
  /\ rit = NewHelper(ForestTable[right], policy_r)
  /\ pairs = <<>>

L == left[lit.it]
R == right[rit.it]
Skipping == Running(lit.it, rit.it)

\* push_back of each event of es in turn: joined with the list s from position i on, while
\* its events start no later than this one ends.
Partners(e, s, i) == SubSeq(s, i, Skip(s, i, LAMBDA x : x.start <= e.end) - 1)
JoinedLeft(es) ==
  FlattenSeq([n \in DOMAIN es |->
    LET found == Partners(es[n], right, rit.it)
    IN [k \in DOMAIN found |-> <<es[n], found[k]>>]])
JoinedRight(es) ==
  FlattenSeq([n \in DOMAIN es |->
    LET found == Partners(es[n], left, lit.it)
    IN [k \in DOMAIN found |-> <<found[k], es[n]>>]])

\* Mutant: the comparison the wrong way round.
EndsBy(e, v) == e.end <= v

\* Whether the earlier of the two current events reaches the later one; if not, jump.
Reaches(e, v) == v <= e.end

StepLeft ==
  /\ Skipping /\ LeftFirst(lit.it, rit.it) /\ Reaches(L, R.start)
  /\ pairs' = pairs \o JoinedLeft(<<L>>)
  /\ lit' = [lit EXCEPT !.it = @ + 1]
  /\ UNCHANGED <<left, right, policies, rit>>

JumpLeft ==
  /\ Skipping /\ LeftFirst(lit.it, rit.it) /\ ~Reaches(L, R.start)
  /\ lit' = StabForwardOp(ForestTable[left], lit, R.start)
  /\ pairs' = pairs \o JoinedLeft(lit'.out)
  /\ UNCHANGED <<left, right, policies, rit>>

StepRight ==
  /\ Skipping /\ ~LeftFirst(lit.it, rit.it) /\ Reaches(R, L.start)
  /\ pairs' = pairs \o JoinedRight(<<R>>)
  /\ rit' = [rit EXCEPT !.it = @ + 1]
  /\ UNCHANGED <<left, right, policies, lit>>

JumpRight ==
  /\ Skipping /\ ~LeftFirst(lit.it, rit.it) /\ ~Reaches(R, L.start)
  /\ rit' = StabForwardOp(ForestTable[right], rit, L.start)
  /\ pairs' = pairs \o JoinedRight(rit'.out)
  /\ UNCHANGED <<left, right, policies, lit>>

SkipNext == StepLeft \/ JumpLeft \/ StepRight \/ JumpRight
SkipSpec == SkipInit /\ [][SkipNext]_skipVars

---------------------------------------------------------------------------------
\* Whatever the policy, no pair is written that does not overlap or was written before.
OnlyOverlaps == ToBag(pairs) \sqsubseteq Due(left, right, lit.it - 1, rit.it - 1)

\* A jump from the first event of its start.
FirstOfStart(s, h) == h.it > 1 => s[h.it - 1].start # s[h.it].start
JumpAllowed ==
  /\ JumpLeft => FirstOfStart(left, lit)
  /\ JumpRight => FirstOfStart(right, rit)

\* The joins that lose no pair: both sides scan, or starts are distinct.
DistinctStarts(s) == \A i, j \in DOMAIN s : i # j => s[i].start # s[j].start
Lossless ==
  \/ policy_l = "list" /\ policy_r = "list"
  \/ DistinctStarts(left) /\ DistinctStarts(right)

\* "Standard sweep-based forward-scan join with skipping" (temporal_join.hpp:151): when the
\* sweep has ended every overlapping pair is written.
Complete ==
  ~Skipping => ToBag(pairs) = Due(left, right, Len(left), Len(right))
=================================================================================
