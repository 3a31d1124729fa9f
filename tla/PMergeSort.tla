------------------------------- MODULE PMergeSort -------------------------------
(***************************************************************************)
(* PMergeSort (pmergejoin.h): the split into sorted jobs and the rounds of *)
(* pairwise merges.  PMerge is what MergeContract says of it, which PMerge *)
(* is shown to implement for the values that reach it here.                *)
(***************************************************************************)
EXTENDS MergeOps, SequencesExt

CONSTANT Calls   \* the arguments <<arr, n_worker>>

ASSUME CallAssumption ==
  \A c \in Calls : /\ c \in Seq(Int) \X (Nat \ {0})
                   /\ Distinct(c[1])

VARIABLES
  input,       \* arr as it was passed
  arr,
  n_worker,
  pc,          \* "split", "rounds", "merging", "done", or "aborted" for std::terminate
  jobs, res,   \* the two lists of sorted vectors
  count,       \* the split loop
  idx          \* the merge loop

vars == <<input, arr, n_worker, pc, jobs, res, count, idx>>

Init ==
  /\ \E c \in Calls : input = c[1] /\ arr = c[1] /\ n_worker = c[2]
  /\ pc = IF arr = <<>> THEN "done" ELSE "split"
  /\ jobs = <<>> /\ res = <<>>
  /\ count = 0 /\ idx = 0

jobs_each_thread == Len(arr) \div n_worker

\* Position behind the job: the last one takes the remainder.
JobEnd == IF count = n_worker - 1 THEN Len(arr) ELSE (count + 1) * jobs_each_thread

SplitJob ==
  /\ pc = "split"
  /\ count < n_worker
  /\ jobs' = Append(jobs, Sorted(SubSeq(arr, count * jobs_each_thread + 1, JobEnd)))
  /\ count' = count + 1
  /\ UNCHANGED <<input, arr, n_worker, pc, res, idx>>

SplitEnd ==
  /\ pc = "split"
  /\ count = n_worker
  /\ pc' = "rounds"
  /\ UNCHANGED <<input, arr, n_worker, jobs, res, count, idx>>

\* while (jobs.size() >= 2)
Round ==
  /\ pc = "rounds"
  /\ Len(jobs) >= 2
  /\ idx' = 0
  /\ pc' = "merging"
  /\ UNCHANGED <<input, arr, n_worker, jobs, res, count>>

\* for (idx = 0; idx < jobs.size(); idx += 2), jobs.size() falling by two each time
Merges == pc = "merging" /\ idx < Len(jobs)

\* Mutant: the merged jobs stay in the list.
WithoutFirst == SubSeq(jobs, 2, Len(jobs))

\* jobs.erase(begin, begin + 2)
WithoutFrontTwo == SubSeq(jobs, 3, Len(jobs))

MergeFrontTwo ==
  /\ Merges
  /\ LET outcome == MergeOutcome(jobs[1], jobs[2], n_worker) IN
       IF outcome.tag = "aborted"
       THEN pc' = "aborted" /\ UNCHANGED <<jobs, res, idx>>
       ELSE /\ res' = Append(res, outcome.val)
            /\ jobs' = WithoutFrontTwo
            /\ idx' = idx + 2
            /\ UNCHANGED pc
  /\ UNCHANGED <<input, arr, n_worker, count>>

\* Mutant: the odd job forgotten.
NoCarry == res

\* The front of what the loop left over goes to the next round.
Carried == IF jobs = <<>> THEN res ELSE Append(res, jobs[1])

RoundEnd ==
  /\ pc = "merging"
  /\ ~Merges
  /\ jobs' = Carried   \* swap
  /\ res' = <<>>       \* clear
  /\ pc' = "rounds"
  /\ UNCHANGED <<input, arr, n_worker, count, idx>>

Finish ==
  /\ pc = "rounds"
  /\ Len(jobs) < 2
  /\ arr' = jobs[1]
  /\ pc' = "done"
  /\ UNCHANGED <<input, n_worker, jobs, res, count, idx>>

Over == pc \in {"done", "aborted"} /\ UNCHANGED vars

Next == SplitJob \/ SplitEnd \/ Round \/ MergeFrontTwo \/ RoundEnd \/ Finish \/ Over

Spec == Init /\ [][Next]_vars
FairSpec == Spec /\ WF_vars(Next)

---------------------------------------------------------------------------------
\* Types, and the sizes the list operations rely on: two jobs to merge whenever the
\* loop body runs, one left to return (pmergejoin.h:303-316).
TypeOK ==
  /\ <<input, n_worker>> \in Calls
  /\ arr \in Seq(Int)
  /\ pc \in {"split", "rounds", "merging", "done", "aborted"}
  /\ jobs \in Seq(Seq(Int)) /\ res \in Seq(Seq(Int))
  /\ count \in 0..n_worker /\ idx \in Nat
  /\ Merges => Len(jobs) >= 2
  /\ pc = "rounds" => Len(jobs) >= 1

Held == jobs \o res
Values(vectors) == UNION {ToSet(v) : v \in ToSet(vectors)}
Ascending(s) == \A i \in 1..(Len(s) - 1) : s[i] < s[i + 1]

\* Every vector in either list is sorted, and no value of the input is in two
\* places: a lost job is lost, never merged twice (pmergejoin.h:302-314).
SortedAndApart ==
  /\ Values(Held) \subseteq ToSet(input)
  /\ \A i \in 1..Len(Held) : Ascending(Held[i])
  /\ \A i, j \in 1..Len(Held) : i # j => ToSet(Held[i]) \cap ToSet(Held[j]) = {}
  /\ pc = "done" => Ascending(arr) /\ ToSet(arr) \subseteq ToSet(input)

\* The worker counts whose rounds merge or carry every job.
Lossless == {1, 2, 3, 5}

\* With 1, 2, 3 or 5 workers no value is lost on the way, and what is returned is
\* the sorted input (pmergejoin.h:302-316).
NothingLost ==
  n_worker \in Lossless =>
    /\ pc \in {"rounds", "merging"} => Values(Held) = ToSet(input)
    /\ pc = "done" => arr = Sorted(input)

\* The rounds end, whatever they lose: fewer jobs after each (pmergejoin.h:302-314).
Ends == <>(pc \in {"done", "aborted"})

\* The design document merges or carries every list of a round: "while |X| >= 2 do
\* choose and remove the first two lists", "add X[0] to Y if |X| = 1"
\* (requirement/nwang.pdf, page 1).
ReturnsEveryValue == pc = "done" => arr = Sorted(input)
=================================================================================
