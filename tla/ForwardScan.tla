------------------------------- MODULE ForwardScan ------------------------------
(***************************************************************************)
(* forward_scan (temporal_join.hpp:125-149): the sweep that advances one   *)
(* event at a time and joins each with the start of what lies ahead in the *)
(* other list.  pairs holds the positions of the events of each pair       *)
(* written.                                                                *)
(***************************************************************************)
EXTENDS SweepJoin

ScanInit ==
  /\ left \in Lists /\ right \in Lists
  /\ lit = 1 /\ rit = 1
  /\ pairs = {}

\* Mutant: from the start of the list.
FromFirst(s, i, v) == {k \in DOMAIN s : \A m \in 1..k : s[m].start <= v}

\* stab_result_join::push_back: the positions from i on, up to the first event that
\* starts after v.
UpTo(s, i, v) == {k \in i..Len(s) : \A m \in i..k : s[m].start <= v}

LeftPairs == {lit} \X UpTo(right, rit, left[lit].end)
RightPairs == UpTo(left, lit, right[rit].end) \X {rit}

JoinLeft ==
  /\ Running(lit, rit) /\ LeftFirst(lit, rit)
  /\ pairs' = pairs \cup LeftPairs
  /\ lit' = lit + 1
  /\ UNCHANGED <<left, right, rit>>

JoinRight ==
  /\ Running(lit, rit) /\ ~LeftFirst(lit, rit)
  /\ pairs' = pairs \cup RightPairs
  /\ rit' = rit + 1
  /\ UNCHANGED <<left, right, lit>>

ScanNext == JoinLeft \/ JoinRight
ScanSpec == ScanInit /\ [][ScanNext]_joinVars

---------------------------------------------------------------------------------
Matching(i, j) == Overlaps(left[i], right[j])

ScanTypeOK ==
  /\ left \in Lists /\ right \in Lists
  /\ lit \in 1..(Len(left) + 1) /\ rit \in 1..(Len(right) + 1)
  /\ pairs \subseteq (DOMAIN left) \X (DOMAIN right)

\* At each moment the pairs written are those that overlap and have an event passed:
\* stopping the scan of the other list early loses none, starting it at the current
\* position loses none either.
WritesPassed ==
  pairs = {p \in (DOMAIN left) \X (DOMAIN right) :
             Matching(p[1], p[2]) /\ (p[1] < lit \/ p[2] < rit)}

\* When the scan stops, at the end of one list, what is left of the other has no pair.
AllWritten ==
  ~Running(lit, rit) => pairs = {p \in (DOMAIN left) \X (DOMAIN right) : Matching(p[1], p[2])}

\* No pair is written twice: what a step writes was not written before.
WritesOnce ==
  [][(JoinLeft => LeftPairs \cap pairs = {}) /\ (JoinRight => RightPairs \cap pairs = {})]_joinVars

Contract == INSTANCE JoinContract
              WITH passedL <- lit - 1, passedR <- rit - 1,
                   written <- PairBag(left, right, pairs)
\* The sweep keeps the promise of every temporal join, step by step.
ImplementsJoin == Contract!Spec
=================================================================================
