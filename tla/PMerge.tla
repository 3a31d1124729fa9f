--------------------------------- MODULE PMerge ---------------------------------
(***************************************************************************)
(* One call of PMerge (pmergejoin.h): the split loop of the calling        *)
(* thread, the workers it starts, and the tree of threads HighPref_Merge   *)
(* grows under each worker.  A thread is named by its path: <<k>> is the   *)
(* k-th worker, Append(t, 0) and Append(t, 1) the lthread and rthread of t.*)
(* Threads share lhs and rhs, which nobody writes during the call, and     *)
(* res; one action is one stretch of a thread's code up to its next access *)
(* to res, thread creation or join.                                        *)
(***************************************************************************)
EXTENDS MedianOps, MergeOps, SequencesExt

CONSTANTS
  Calls,     \* the calls <<lhs, rhs, n_workers, max_threads>>
  Unwritten  \* an element of res no thread has written: T()

ASSUME CallAssumption ==
  /\ \A c \in Calls :
       /\ c \in Seq(MinT..MaxT) \X Seq(MinT..MaxT) \X (Nat \ {0}) \X Nat
       /\ SortedSpan(c[1])
       /\ SortedSpan(c[2])
  /\ Unwritten \notin MinT..MaxT

VARIABLES
  lhs, rhs, n_workers,  \* the arguments
  max_threads,          \* how many threads the process may have before std::thread throws
  pc,                   \* the calling thread: "called", "split", "spawn", "join",
                        \* "done", or "aborted" for std::terminate
  count, idx,           \* the split loop
  left_idx, right_idx,
  left_pieces, right_pieces,
  started, joined,      \* workers started and joined so far
  threads,              \* [path -> thread]
  res

args == <<lhs, rhs, n_workers, max_threads>>
split == <<count, idx, left_idx, right_idx, left_pieces, right_pieces>>
vars == <<args, pc, split, started, joined, threads, res>>

z_val == Len(lhs) + Len(rhs)

Init ==
  /\ \E c \in Calls : lhs = c[1] /\ rhs = c[2] /\ n_workers = c[3] /\ max_threads = c[4]
  /\ pc = "called"
  /\ count = 0 /\ idx = 1 /\ left_idx = 0 /\ right_idx = 0
  /\ left_pieces = <<0>> /\ right_pieces = <<0>>
  /\ started = 0 /\ joined = 0
  /\ threads = [t \in {} |-> {}]
  /\ res = <<>>

---------------------------------------------------------------------------------
(* The calling thread. *)

ReturnOtherSide ==
  /\ pc = "called"
  /\ lhs = <<>> \/ rhs = <<>>
  /\ res' = IF lhs = <<>> THEN rhs ELSE lhs
  /\ pc' = "done"
  /\ UNCHANGED <<args, split, started, joined, threads>>

Enter ==
  /\ pc = "called"
  /\ lhs # <<>> /\ rhs # <<>>
  /\ pc' = "split"
  /\ UNCHANGED <<args, split, started, joined, threads, res>>

\* Mutant: the comparison the wrong way round.
TakesLarger ==
  /\ left_idx < Len(lhs)
  /\ \/ right_idx >= Len(rhs)
     \/ rhs[right_idx + 1] < lhs[left_idx + 1]

TakesLeft ==
  /\ left_idx < Len(lhs)
  /\ \/ right_idx >= Len(rhs)
     \/ lhs[left_idx + 1] < rhs[right_idx + 1]

\* Mutant: the cut one element early, before the step that reaches it.
CutsEarly == count + 1 = (idx * z_val) \div n_workers

\* A piece ends here.
Cuts == count = (idx * z_val) \div n_workers

SplitStep ==
  /\ pc = "split"
  /\ count < z_val
  /\ left_idx' = IF TakesLeft THEN left_idx + 1 ELSE left_idx
  /\ right_idx' = IF TakesLeft THEN right_idx ELSE right_idx + 1
  /\ IF Cuts
     THEN /\ left_pieces' = Append(left_pieces, left_idx')
          /\ right_pieces' = Append(right_pieces, right_idx')
          /\ idx' = idx + 1
     ELSE UNCHANGED <<left_pieces, right_pieces, idx>>
  /\ count' = count + 1
  /\ UNCHANGED <<args, pc, started, joined, threads, res>>

SplitEnd ==
  /\ pc = "split"
  /\ count >= z_val
  /\ left_pieces' = Append(left_pieces, left_idx)
  /\ right_pieces' = Append(right_pieces, right_idx)
  /\ res' = [k \in 1..z_val |-> Unwritten]
  /\ pc' = "spawn"
  /\ UNCHANGED <<args, count, idx, left_idx, right_idx,
                 started, joined, threads>>

\* A thread running HighPref_Merge on l_range and r_range, writing from at on.
Thread(l_range, r_range, at) ==
  [l |-> l_range, r |-> r_range, idx |-> at, pc |-> "entry", ldist |-> 0, rdist |-> 0]

\* Mutant: the end of the piece in place of its size.
PieceToEnd(pieces, k) == <<pieces[k], pieces[k + 1]>>

\* The k-th piece, as the range <<first, second>> HighPref_Merge receives.
Piece(pieces, k) == <<pieces[k], pieces[k + 1] - pieces[k]>>

Worker(k) == Thread(Piece(left_pieces, k), Piece(right_pieces, k),
                    left_pieces[k] + right_pieces[k])

Live == {t \in DOMAIN threads : threads[t].pc # "exited"}

\* std::thread throws system_error: the exception leaves a thread function or
\* unwinds past threads still joinable, and either way std::terminate ends it all.
ThreadsExhausted == Cardinality(Live) + 1 >= max_threads

\* The threads some, and thread at t.
WithThread(some, t, thread) ==
  [u \in DOMAIN some \cup {t} |-> IF u = t THEN thread ELSE some[u]]

SpawnWorker ==
  /\ pc = "spawn"
  /\ started < Len(left_pieces) - 1
  /\ ~ThreadsExhausted
  /\ threads' = WithThread(threads, <<started + 1>>, Worker(started + 1))
  /\ started' = started + 1
  /\ UNCHANGED <<args, pc, split, joined, res>>

SpawnEnd ==
  /\ pc = "spawn"
  /\ started = Len(left_pieces) - 1
  /\ pc' = "join"
  /\ UNCHANGED <<args, split, started, joined, threads, res>>

\* Mutant: the thread joined is the same one every time.
JoinWorkerAgain ==
  /\ pc = "join"
  /\ joined < started
  /\ threads[<<joined + 1>>].pc = "exited"
  /\ UNCHANGED vars

JoinWorker ==
  /\ pc = "join"
  /\ joined < started
  /\ threads[<<joined + 1>>].pc = "exited"
  /\ joined' = joined + 1
  /\ UNCHANGED <<args, pc, split, started, threads, res>>

\* Mutant: the join loop gone.
ReturnUnjoined ==
  /\ pc = "join"
  /\ pc' = "done"
  /\ UNCHANGED <<args, split, started, joined, threads, res>>

Return ==
  /\ pc = "join"
  /\ joined = started
  /\ pc' = "done"
  /\ UNCHANGED <<args, split, started, joined, threads, res>>

Abort == /\ pc' = "aborted"
         /\ UNCHANGED <<args, split, started, joined, threads, res>>

SpawnWorkerFails ==
  /\ pc = "spawn"
  /\ started < Len(left_pieces) - 1
  /\ ThreadsExhausted
  /\ Abort

---------------------------------------------------------------------------------
(* HighPref_Merge, in thread t. *)

caller == <<args, pc, split, started, joined>>

Runs(t, at) == pc # "aborted" /\ threads[t].pc = at

Goto(t, at) == threads' = [threads EXCEPT ![t].pc = at]

LFirst(t) == lhs[threads[t].l[1] + 1]
RFirst(t) == rhs[threads[t].r[1] + 1]
Sizes(t) == <<threads[t].l[2], threads[t].r[2]>>

Smaller(t) == IF LFirst(t) < RFirst(t) THEN LFirst(t) ELSE RFirst(t)
Larger(t) == IF LFirst(t) < RFirst(t) THEN RFirst(t) ELSE LFirst(t)

LSpan(t) == SubSeq(lhs, threads[t].l[1] + 1, threads[t].l[1] + threads[t].l[2])
RSpan(t) == SubSeq(rhs, threads[t].r[1] + 1, threads[t].r[1] + threads[t].r[2])

\* One element on each side: two stores to res.
StoreFirst(t) ==
  /\ Runs(t, "entry")
  /\ Sizes(t) = <<1, 1>>
  /\ res' = [res EXCEPT ![threads[t].idx + 1] = Smaller(t)]
  /\ Goto(t, "second")
  /\ UNCHANGED caller

StoreSecond(t) ==
  /\ Runs(t, "second")
  /\ res' = [res EXCEPT ![threads[t].idx + 2] = Larger(t)]
  /\ Goto(t, "exited")
  /\ UNCHANGED caller

StoreOnly(t) ==
  /\ Runs(t, "entry")
  /\ Sizes(t) \in {<<1, 0>>, <<0, 1>>}
  /\ res' = [res EXCEPT ![threads[t].idx + 1] =
               IF Sizes(t) = <<1, 0>> THEN LFirst(t) ELSE RFirst(t)]
  /\ Goto(t, "exited")
  /\ UNCHANGED caller

\* No base case applies, (0, 0) included: the thread asks for the median.
Searches(t) == /\ Runs(t, "entry")
               /\ Sizes(t) \notin {<<1, 1>>, <<1, 0>>, <<0, 1>>}

Divide(t) ==
  /\ Searches(t)
  /\ LET mid == FindMedian(LSpan(t), RSpan(t)) IN
       /\ mid.tag = "returned"
       /\ threads' = [threads EXCEPT
            ![t].pc = "spawnL",
            ![t].ldist = LowerBound(LSpan(t), mid.val),
            ![t].rdist = LowerBound(RSpan(t), mid.val)]
  /\ UNCHANGED <<caller, res>>

\* The exception of FindMedian leaves the thread function.
MedianThrows(t) ==
  /\ Searches(t)
  /\ FindMedian(LSpan(t), RSpan(t)).tag = "threw"
  /\ Abort

\* The second loop of FindMedian never ends.
MedianSpins(t) ==
  /\ Searches(t)
  /\ FindMedian(LSpan(t), RSpan(t)).tag = "spins"
  /\ UNCHANGED vars

LChild(t) == LET th == threads[t] IN
  Thread(<<th.l[1], th.ldist>>, <<th.r[1], th.rdist>>, th.idx)

\* Mutant: the right half written from the left half's size in lhs only.
RChildAtLdist(t) == LET th == threads[t] IN
  Thread(<<th.l[1] + th.ldist, th.l[2] - th.ldist>>,
         <<th.r[1] + th.rdist, th.r[2] - th.rdist>>, th.idx + th.ldist)

RChild(t) == LET th == threads[t] IN
  Thread(<<th.l[1] + th.ldist, th.l[2] - th.ldist>>,
         <<th.r[1] + th.rdist, th.r[2] - th.rdist>>, th.idx + th.ldist + th.rdist)

SpawnL(t) ==
  /\ Runs(t, "spawnL")
  /\ ~ThreadsExhausted
  /\ threads' = WithThread([threads EXCEPT ![t].pc = "spawnR"], Append(t, 0), LChild(t))
  /\ UNCHANGED <<caller, res>>

SpawnR(t) ==
  /\ Runs(t, "spawnR")
  /\ ~ThreadsExhausted
  /\ threads' = WithThread([threads EXCEPT ![t].pc = "joinL"], Append(t, 1), RChild(t))
  /\ UNCHANGED <<caller, res>>

SpawnFails(t) ==
  /\ Runs(t, "spawnL") \/ Runs(t, "spawnR")
  /\ ThreadsExhausted
  /\ Abort

JoinL(t) ==
  /\ Runs(t, "joinL")
  /\ threads[Append(t, 0)].pc = "exited"
  /\ Goto(t, "joinR")
  /\ UNCHANGED <<caller, res>>

JoinR(t) ==
  /\ Runs(t, "joinR")
  /\ threads[Append(t, 1)].pc = "exited"
  /\ Goto(t, "exited")
  /\ UNCHANGED <<caller, res>>

---------------------------------------------------------------------------------
Caller ==
  \/ ReturnOtherSide \/ Enter \/ SplitStep \/ SplitEnd
  \/ SpawnWorker \/ SpawnWorkerFails \/ SpawnEnd \/ JoinWorker \/ Return

HighPref_Merge(t) ==
  \/ StoreFirst(t) \/ StoreSecond(t) \/ StoreOnly(t)
  \/ Divide(t) \/ MedianThrows(t) \/ MedianSpins(t)
  \/ SpawnL(t) \/ SpawnR(t) \/ SpawnFails(t) \/ JoinL(t) \/ JoinR(t)

\* The call has returned, or std::terminate has ended the process.
Over == pc \in {"done", "aborted"} /\ UNCHANGED vars

Next ==
  \/ Caller
  \/ \E t \in DOMAIN threads : HighPref_Merge(t)
  \/ Over

Spec == Init /\ [][Next]_vars

\* Some thread that can run does: no fairness between the threads is needed.
FairSpec == Spec /\ WF_vars(Next)

---------------------------------------------------------------------------------
\* Types: cuts, ranges and positions stay inside lhs, rhs and res
\* (pmergejoin.h:220-264).
Ranges(s) == {p \in (0..Len(s)) \X (0..Len(s)) : p[1] + p[2] <= Len(s)}
Pieces(s) == {p \in Seq(0..Len(s)) : p # <<>> /\ p[1] = 0}

TypeOK ==
  /\ args \in Calls
  /\ pc \in {"called", "split", "spawn", "join", "done", "aborted"}
  /\ count \in 0..z_val
  /\ idx \in 1..(z_val + 1)
  /\ left_idx \in 0..Len(lhs) /\ right_idx \in 0..Len(rhs)
  /\ left_pieces \in Pieces(lhs) /\ right_pieces \in Pieces(rhs)
  /\ started \in 0..Len(left_pieces) /\ joined \in 0..started
  /\ \A t \in DOMAIN threads :
       /\ t # <<>> /\ Head(t) \in 1..started
       /\ threads[t].l \in Ranges(lhs) /\ threads[t].r \in Ranges(rhs)
       /\ threads[t].idx = threads[t].l[1] + threads[t].r[1]
       /\ threads[t].ldist \in 0..threads[t].l[2]
       /\ threads[t].rdist \in 0..threads[t].r[2]
  /\ res \in Seq(MinT..MaxT \cup {Unwritten})

\* The positions of res a thread and the threads under it may write.
Region(t) == (threads[t].idx + 1)..(threads[t].idx + threads[t].l[2] + threads[t].r[2])

Related(s, t) == IsPrefix(s, t) \/ IsPrefix(t, s)

\* No data race on res: threads that run side by side, whatever their depth and
\* worker, have disjoint regions, inside res (pmergejoin.h:186-194, 259-262).
RaceFree ==
  \A s, t \in DOMAIN threads :
    /\ Region(s) \subseteq DOMAIN res
    /\ ~Related(s, t) => Region(s) \cap Region(t) = {}

\* A thread has exited only if the threads it started have, so no thread still
\* refers to lhs, rhs or the local res when PMerge returns (pmergejoin.h:196-197,
\* 266-270).
NoThreadOutlivesCall ==
  /\ \A s, t \in DOMAIN threads :
       threads[s].pc = "exited" /\ IsPrefix(s, t) => threads[t].pc = "exited"
  /\ pc = "done" => Live = {}

\* The values of the k-th piece, of both vectors.
PieceValues(k) == {lhs[i] : i \in (left_pieces[k] + 1)..left_pieces[k + 1]} \cup
                  {rhs[i] : i \in (right_pieces[k] + 1)..right_pieces[k + 1]}

\* The pieces tile the two vectors in order: nothing in an earlier piece is above
\* anything in a later one, and no more pieces than workers (pmergejoin.h:219-249).
PiecesInOrder ==
  pc \in {"spawn", "join", "done"} /\ lhs # <<>> /\ rhs # <<>> =>
    LET m == Len(left_pieces) IN
      /\ left_pieces[m] = Len(lhs) /\ right_pieces[m] = Len(rhs)
      /\ m - 1 <= n_workers
      /\ \A j, k \in 1..(m - 1) : j < k =>
           \A u \in PieceValues(j), v \in PieceValues(k) : u <= v

\* Distinct values, none of them a sentinel, and threads enough for the whole tree.
Ordinary ==
  /\ Distinct(lhs \o rhs)
  /\ \A i \in 1..z_val : (lhs \o rhs)[i] \notin {MinT, MaxT}
  /\ max_threads > n_workers + 2 * z_val

\* The design document's PMerge (requirement/nwang.pdf, page 1) merges with "n the
\* number of threads we can use", however many values there are.
MergeReturns == Ordinary => pc # "aborted"

\* The thread tree, seen from the caller, is one step: the merged vector, or the end of
\* the process exactly when the split loop has cut behind the last element and the last
\* worker gets the range (0, 0).  A call that is not ordinary may end the process too
\* (pmergejoin.h:204-271).
Contract == INSTANCE MergeContract WITH
  call <- args,
  ordinary <- Ordinary,
  state <- IF pc \in {"done", "aborted"} THEN pc ELSE "running",
  result <- IF pc = "done" THEN res ELSE <<>>
ImplementsContract == Contract!Safety

\* A call that is ordinary ends: neither its search for medians nor its joins (lines 196-197
\* and 266-268) go on for ever.
AnswersOrdinary == Contract!Answers
=================================================================================
