-------------------------------- MODULE Measures --------------------------------
(***************************************************************************)
(* What a measurement runs on its two data sets (measure_join.hpp, and run *)
(* in measure_part_join.cpp and measure_window.cpp): one of the two joins, *)
(* or the query with the second data set for its windows.                  *)
(***************************************************************************)
EXTENDS ForwardScan, SkipJoin, MultiWindow

VARIABLE measure   \* what is run on the data sets left and right

joining == <<policies, lit, rit, pairs>>
querying == <<policy, it, wit, scanning, output>>
mvars == <<measure, left, right, policies, lit, rit, pairs, policy, it, wit, scanning, output>>

NoPolicies == policy_l = "none" /\ policy_r = "none"
NoJoin == NoPolicies /\ lit = 0 /\ rit = 0 /\ pairs = {}
NoQuery == policy = "none" /\ it = 0 /\ wit = 0 /\ scanning = FALSE /\ output = <<>>

MInit ==
  \/ measure = "forward_scan" /\ ScanInit /\ NoPolicies /\ NoQuery
  \/ measure = "forward_skip_join" /\ SkipInit /\ NoQuery
  \/ measure = "multi_window" /\ QueryInit /\ NoJoin

Measure_forward_scan ==
  measure = "forward_scan" /\ ScanNext /\ UNCHANGED <<measure, policies, querying>>
Measure_forward_skip_join ==
  measure = "forward_skip_join" /\ SkipNext /\ UNCHANGED <<measure, querying>>
Measure_multi_window ==
  measure = "multi_window" /\ QueryNext /\ UNCHANGED <<measure, joining>>

MNext == Measure_forward_scan \/ Measure_forward_skip_join \/ Measure_multi_window
MSpec == MInit /\ [][MNext]_mvars

---------------------------------------------------------------------------------
\* At each moment forward_scan has written the pairs that overlap and have an event passed:
\* stopping the scan of the other list early loses none.
ScanExact == measure = "forward_scan" => WritesPassed

\* forward_scan writes no pair twice.
ScanOnce ==
  [][measure = "forward_scan" =>
       /\ JoinLeft => LeftPairs \cap pairs = {}
       /\ JoinRight => RightPairs \cap pairs = {}]_mvars

\* Of which joins every temporal join's promise is asked: forward_scan always, and
\* forward_skip_join when both sides scan or, whatever the policies, starts are distinct.
Scans == measure = "forward_scan"
SkipsLossless == measure = "forward_skip_join" /\ Lossless

Promise == INSTANCE JoinContract
  WITH passedL <- IF Scans THEN lit - 1 ELSE IF SkipsLossless THEN lit.it - 1 ELSE 0,
       passedR <- IF Scans THEN rit - 1 ELSE IF SkipsLossless THEN rit.it - 1 ELSE 0,
       written <- IF Scans THEN PairBag(left, right, pairs)
                  ELSE IF SkipsLossless THEN ToBag(pairs) ELSE EmptyBag

\* Both joins keep the promise of every temporal join, step by step: a jump may pass many
\* events, and a pair is lost only where an event shares its start with another of its list.
JoinsKeepPromise == Promise!Spec

\* Whatever the policies, forward_skip_join writes no pair that does not overlap and none
\* twice.
WritesOnlyOverlaps == measure = "forward_skip_join" => OnlyOverlaps

\* "the iterator currently points to the first event with the start-time of the current
\* event" (stab_forest.hpp:809-811): the join never jumps from the second of two events
\* with one start.
JumpsFromFirst == [][measure = "forward_skip_join" => JumpAllowed]_mvars

\* With the list policy the query has, between two windows, written what the windows so
\* far ask for, overlapping ones too.
ExactSoFar == measure = "multi_window" => AnswersSoFar

\* The query writes no event twice and none outside the windows: whatever the policy over
\* windows that follow each other, and over any windows, as measure_window has them, with the
\* check policy that it uses.
WritesWindowsOnly == measure = "multi_window" => WindowsOnly

\* Over windows that follow each other, every stab of the query is one that stab_forward
\* allows (stab_forest.hpp:809-811).  Over any windows so is every one that the check policy
\* answers from the index: a window that starts before the events passed is too near for it.
StabsAhead ==
  [][measure = "multi_window" => StabAllowed]_mvars
=================================================================================
