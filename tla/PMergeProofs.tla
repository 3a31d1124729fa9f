------------------------------ MODULE PMergeProofs ------------------------------
(***************************************************************************)
(* Theorems about one call of PMerge, for all calls and every number of    *)
(* workers and threads: the pieces tile the vectors in order, threads that *)
(* run side by side write apart, none outlives the call, what a call that  *)
(* returns has written is the merge, and the call keeps the safety part of *)
(* its contract.                                                           *)
(***************************************************************************)
EXTENDS PMerge, MergeLemmas, SequenceTheorems

pieces == Len(left_pieces)

\* Nothing before the cut (i, j) is above anything behind it.
CutsAt(i, j) ==
  /\ \A a \in 1..i, b \in (j + 1)..Len(rhs) : lhs[a] <= rhs[b]
  /\ \A a \in (i + 1)..Len(lhs), b \in 1..j : rhs[b] <= lhs[a]

CutsOK ==
  /\ Len(right_pieces) = pieces
  /\ pieces - 1 <= n_workers
  /\ \A j, k \in 1..pieces : j <= k => /\ left_pieces[j] <= left_pieces[k]
                                       /\ right_pieces[j] <= right_pieces[k]
  /\ \A k \in 1..pieces : CutsAt(left_pieces[k], right_pieces[k])

SplitOK ==
  pc = "split" =>
    /\ lhs # <<>> /\ rhs # <<>>
    /\ count = left_idx + right_idx
    /\ pieces = idx /\ idx <= count + 1 /\ idx <= n_workers
    /\ left_pieces[pieces] <= left_idx /\ right_pieces[pieces] <= right_idx
    /\ CutsAt(left_idx, right_idx)

\* Both vectors have values, and the split loop is over.
Split == lhs # <<>> /\ rhs # <<>> /\ pc \notin {"called", "split"}

CallOK ==
  /\ pc = "called" => left_pieces = <<0>> /\ right_pieces = <<0>> /\ count = 0 /\ idx = 1
                      /\ left_idx = 0 /\ right_idx = 0
  /\ pc \in {"called", "split"} => DOMAIN threads = {} /\ started = 0
  /\ pc \in {"spawn", "join"} \/ DOMAIN threads # {} => Split
  /\ Split => /\ left_pieces[pieces] = Len(lhs) /\ right_pieces[pieces] = Len(rhs)
              /\ Len(res) = z_val
              /\ started <= pieces - 1

ThreadState ==
  {th \in [l : Nat \X Nat, r : Nat \X Nat, idx : Nat, ldist : Nat, rdist : Nat,
           pc : {"entry", "second", "spawnL", "spawnR", "joinL", "joinR", "exited"}] :
     th.pc = "second" => th.l[2] = 1 /\ th.r[2] = 1}

\* The threads form trees, one under each worker.
Paths ==
  /\ \A t \in DOMAIN threads : /\ threads[t] \in ThreadState
                               /\ t \in Seq(Nat) /\ \A i \in 2..Len(t) : t[i] \in {0, 1}
  /\ \A k \in 1..started : <<k>> \in DOMAIN threads
  /\ \A t \in DOMAIN threads :
       /\ threads[t].pc \in {"spawnR", "joinL", "joinR"} => Append(t, 0) \in DOMAIN threads
       /\ threads[t].pc \in {"joinL", "joinR"} => Append(t, 1) \in DOMAIN threads

TreeOK == TypeOK /\ CutsOK /\ SplitOK /\ CallOK /\ Paths

---------------------------------------------------------------------------------
\* What CallAssumption says of the arguments of a call.
LEMMA ArgTypes ==
  ASSUME args \in Calls
  PROVE  /\ lhs \in Seq(MinT..MaxT) /\ rhs \in Seq(MinT..MaxT)
         /\ lhs \in Seq(Int) /\ rhs \in Seq(Int)
         /\ n_workers \in Nat /\ n_workers > 0
         /\ SortedSpan(lhs) /\ SortedSpan(rhs)
         /\ z_val \in Nat
<1>1. args = <<lhs, rhs, n_workers, max_threads>>
  BY DEF args
<1>2. /\ args \in Seq(MinT..MaxT) \X Seq(MinT..MaxT) \X (Nat \ {0}) \X Nat
      /\ SortedSpan(args[1]) /\ SortedSpan(args[2])
  BY CallAssumption
<1>3. /\ lhs \in Seq(MinT..MaxT) /\ rhs \in Seq(MinT..MaxT) /\ n_workers \in Nat \ {0}
      /\ SortedSpan(lhs) /\ SortedSpan(rhs)
  BY <1>1, <1>2
<1>. QED
  BY <1>3, SentinelAssumption DEF z_val

\* The invariant holds before the call runs.
LEMMA InitTree == Init => TreeOK
<1>. SUFFICES ASSUME Init PROVE TreeOK
  OBVIOUS
<1>1. args \in Calls
  <2>1. PICK c \in Calls : lhs = c[1] /\ rhs = c[2] /\ n_workers = c[3] /\ max_threads = c[4]
    BY DEF Init
  <2>2. c \in Seq(MinT..MaxT) \X Seq(MinT..MaxT) \X (Nat \ {0}) \X Nat
    BY CallAssumption
  <2>3. c = <<c[1], c[2], c[3], c[4]>>
    BY <2>2
  <2>. QED
    BY <2>1, <2>3 DEF args
<1>2. DOMAIN threads = {}
  BY DEF Init
<1>3. TypeOK
  BY <1>1, <1>2, ArgTypes DEF Init, TypeOK, Pieces
<1>4. CutsOK
  BY <1>1, ArgTypes DEF Init, CutsOK, pieces, CutsAt
<1>5. SplitOK /\ CallOK /\ Paths
  BY <1>2 DEF Init, SplitOK, CallOK, Split, Paths, TypeOK
<1>. QED
  BY <1>3, <1>4, <1>5 DEF TreeOK

\* A cut before the last value is not the last cut the workers allow.
LEMMA CutBound ==
  ASSUME NEW i \in Nat, NEW z \in Nat, NEW n \in Nat, n > 0, (i * z) \div n < z
  PROVE  i < n
<1>. SUFFICES ASSUME i >= n PROVE FALSE
  OBVIOUS
<1>1. PICK d \in Nat : i = n + d
  <2>1. i - n \in Nat /\ i = n + (i - n)
    OBVIOUS
  <2>. QED
    BY <2>1
<1>2. i * z = n * z + d * z
  BY <1>1
<1>3. PICK q \in Nat : q = d * z
  OBVIOUS
<1>4. PICK r \in Int : r = (i * z) \div n
  OBVIOUS
<1>5. i * z \in Int /\ i * z < n * (r + 1)
  BY <1>4
<1>6. r + 1 <= z
  BY <1>4
<1>7. n * (r + 1) <= n * z
  BY <1>6
<1>. QED
  BY <1>2, <1>3, <1>5, <1>7

\* One step of the split loop moves past a value no greater than any behind it.
LEMMA StepKeepsCut ==
  ASSUME TypeOK, CutsAt(left_idx, right_idx), count = left_idx + right_idx, SplitStep
  PROVE  /\ left_idx' \in 0..Len(lhs) /\ right_idx' \in 0..Len(rhs)
         /\ left_idx <= left_idx' /\ right_idx <= right_idx'
         /\ count' = left_idx' + right_idx'
         /\ CutsAt(left_idx', right_idx')
<1>1. /\ lhs \in Seq(Int) /\ rhs \in Seq(Int) /\ z_val \in Nat
      /\ SortedSpan(lhs) /\ SortedSpan(rhs)
  BY ArgTypes DEF TypeOK
<1>2. /\ left_idx \in 0..Len(lhs) /\ right_idx \in 0..Len(rhs)
      /\ count < Len(lhs) + Len(rhs)
      /\ left_idx' = IF TakesLeft THEN left_idx + 1 ELSE left_idx
      /\ right_idx' = IF TakesLeft THEN right_idx ELSE right_idx + 1
      /\ count' = count + 1
  BY DEF TypeOK, SplitStep, z_val
<1>3. CASE TakesLeft
  <2>1. /\ left_idx < Len(lhs)
        /\ right_idx >= Len(rhs) \/ lhs[left_idx + 1] < rhs[right_idx + 1]
    BY <1>3 DEF TakesLeft
  <2>2. ASSUME NEW a \in 1..(left_idx + 1), NEW b \in (right_idx + 1)..Len(rhs)
        PROVE  lhs[a] <= rhs[b]
    <3>1. /\ lhs[a] \in Int /\ lhs[left_idx + 1] \in Int
          /\ rhs[b] \in Int /\ rhs[right_idx + 1] \in Int
      BY <1>1, <1>2, <2>1
    <3>2. /\ left_idx + 1 \in 1..Len(lhs) /\ a \in 1..Len(lhs) /\ a <= left_idx + 1
          /\ right_idx + 1 \in 1..Len(rhs) /\ b \in 1..Len(rhs) /\ right_idx + 1 <= b
      BY <1>2, <2>1
    <3>3. lhs[a] <= lhs[left_idx + 1] /\ rhs[right_idx + 1] <= rhs[b]
      BY <1>1, <3>2 DEF SortedSpan
    <3>4. lhs[left_idx + 1] < rhs[right_idx + 1]
      BY <1>2, <2>1, <3>2
    <3>. QED
      BY <3>1, <3>3, <3>4
  <2>3. \A a \in (left_idx + 1 + 1)..Len(lhs), b \in 1..right_idx : rhs[b] <= lhs[a]
    BY <1>2 DEF CutsAt
  <2>4. CutsAt(left_idx + 1, right_idx)
    BY <2>2, <2>3 DEF CutsAt
  <2>. QED
    BY <1>1, <1>2, <1>3, <2>1, <2>4
<1>4. CASE ~TakesLeft
  <2>1. /\ right_idx < Len(rhs)
        /\ left_idx >= Len(lhs) \/ rhs[right_idx + 1] <= lhs[left_idx + 1]
    <3>1. left_idx < Len(lhs) => rhs[right_idx + 1] \in Int \/ right_idx >= Len(rhs)
      BY <1>1, <1>2
    <3>2. CASE left_idx >= Len(lhs)
      BY <1>1, <1>2, <3>2
    <3>3. CASE left_idx < Len(lhs)
      <4>1. right_idx < Len(rhs) /\ ~(lhs[left_idx + 1] < rhs[right_idx + 1])
        BY <1>1, <1>2, <1>4, <3>3 DEF TakesLeft
      <4>2. rhs[right_idx + 1] \in Int /\ lhs[left_idx + 1] \in Int
        BY <1>1, <1>2, <3>3, <4>1
      <4>. QED
        BY <4>1, <4>2
    <3>. QED
      BY <1>1, <1>2, <3>2, <3>3
  <2>2. ASSUME NEW a \in (left_idx + 1)..Len(lhs), NEW b \in 1..(right_idx + 1)
        PROVE  rhs[b] <= lhs[a]
    <3>1. /\ lhs[a] \in Int /\ lhs[left_idx + 1] \in Int
          /\ rhs[b] \in Int /\ rhs[right_idx + 1] \in Int
      BY <1>1, <1>2, <2>1
    <3>2. /\ left_idx + 1 \in 1..Len(lhs) /\ a \in 1..Len(lhs) /\ left_idx + 1 <= a
          /\ right_idx + 1 \in 1..Len(rhs) /\ b \in 1..Len(rhs) /\ b <= right_idx + 1
      BY <1>2, <2>1
    <3>3. rhs[b] <= rhs[right_idx + 1] /\ lhs[left_idx + 1] <= lhs[a]
      BY <1>1, <3>2 DEF SortedSpan
    <3>4. rhs[right_idx + 1] <= lhs[left_idx + 1]
      BY <1>2, <2>1, <3>2
    <3>. QED
      BY <3>1, <3>3, <3>4
  <2>3. \A a \in 1..left_idx, b \in (right_idx + 1 + 1)..Len(rhs) : lhs[a] <= rhs[b]
    BY <1>2 DEF CutsAt
  <2>4. CutsAt(left_idx, right_idx + 1)
    BY <2>2, <2>3 DEF CutsAt
  <2>. QED
    BY <1>1, <1>2, <1>4, <2>1, <2>4
<1>. QED
  BY <1>3, <1>4

\* A cut behind the last one is added in order.
LEMMA AppendCut ==
  ASSUME TypeOK, CutsOK, n_workers \in Nat, pieces <= n_workers,
         NEW i \in 0..Len(lhs), NEW j \in 0..Len(rhs),
         left_pieces[pieces] <= i, right_pieces[pieces] <= j, CutsAt(i, j),
         left_pieces' = Append(left_pieces, i), right_pieces' = Append(right_pieces, j),
         lhs' = lhs, rhs' = rhs, n_workers' = n_workers
  PROVE  /\ CutsOK'
         /\ pieces' = pieces + 1
         /\ left_pieces'[pieces + 1] = i /\ right_pieces'[pieces + 1] = j
         /\ left_pieces' \in Pieces(lhs) /\ right_pieces' \in Pieces(rhs)
<1>1. /\ left_pieces \in Seq(0..Len(lhs)) /\ left_pieces # <<>> /\ left_pieces[1] = 0
      /\ right_pieces \in Seq(0..Len(rhs)) /\ right_pieces # <<>> /\ right_pieces[1] = 0
      /\ Len(right_pieces) = Len(left_pieces) /\ Len(left_pieces) >= 1
      /\ Len(lhs) \in Nat /\ Len(rhs) \in Nat
  <2>1. left_pieces \in Pieces(lhs) /\ right_pieces \in Pieces(rhs) /\ args \in Calls
    BY DEF TypeOK
  <2>2. Len(right_pieces) = Len(left_pieces)
    BY DEF CutsOK, pieces
  <2>3. Len(lhs) \in Nat /\ Len(rhs) \in Nat
    BY <2>1, ArgTypes
  <2>. QED
    BY <2>1, <2>2, <2>3 DEF Pieces
<1>2. /\ Len(left_pieces') = Len(left_pieces) + 1 /\ Len(right_pieces') = Len(right_pieces) + 1
      /\ \A k \in 1..Len(left_pieces) : /\ left_pieces'[k] = left_pieces[k]
                                        /\ right_pieces'[k] = right_pieces[k]
      /\ left_pieces'[Len(left_pieces) + 1] = i /\ right_pieces'[Len(left_pieces) + 1] = j
      /\ left_pieces' \in Seq(0..Len(lhs)) /\ right_pieces' \in Seq(0..Len(rhs))
  BY <1>1
<1>3. \A k \in 1..Len(left_pieces) : /\ left_pieces[k] \in 0..Len(lhs)
                                     /\ right_pieces[k] \in 0..Len(rhs)
                                     /\ left_pieces[k] <= left_pieces[Len(left_pieces)]
                                     /\ right_pieces[k] <= right_pieces[Len(left_pieces)]
  BY <1>1 DEF CutsOK, pieces
<1>4. ASSUME NEW h \in 1..(Len(left_pieces) + 1), NEW k \in 1..(Len(left_pieces) + 1), h <= k
      PROVE  left_pieces'[h] <= left_pieces'[k] /\ right_pieces'[h] <= right_pieces'[k]
  <2>1. CASE k <= Len(left_pieces)
    BY <1>1, <1>2, <1>4, <2>1 DEF CutsOK, pieces
  <2>2. CASE k = Len(left_pieces) + 1 /\ h <= Len(left_pieces)
    BY <1>1, <1>2, <1>3, <2>2 DEF pieces
  <2>3. CASE h = Len(left_pieces) + 1
    BY <1>1, <1>2, <1>4, <2>3
  <2>. QED
    BY <1>1, <1>4, <2>1, <2>2, <2>3
<1>5. \A k \in 1..(Len(left_pieces) + 1) : CutsAt(left_pieces'[k], right_pieces'[k])
  BY <1>1, <1>2 DEF CutsOK, pieces
<1>6. \A x, y : CutsAt(x, y)' = CutsAt(x, y)
  BY DEF CutsAt
<1>7. CutsOK'
  <2>1. (\A k \in 1..pieces : CutsAt(left_pieces[k], right_pieces[k]))'
    BY <1>2, <1>5 DEF CutsAt, pieces
  <2>2. pieces' = pieces + 1 /\ pieces \in Nat
    BY <1>1, <1>2 DEF pieces
  <2>3. Len(right_pieces') = pieces' /\ pieces' - 1 <= n_workers'
    BY <1>1, <1>2, <2>2 DEF pieces
  <2>4. \A h, k \in 1..pieces' : h <= k => /\ left_pieces'[h] <= left_pieces'[k]
                                          /\ right_pieces'[h] <= right_pieces'[k]
    BY <1>4, <2>2 DEF pieces
  <2>. QED
    BY <2>1, <2>3, <2>4 DEF CutsOK, CutsAt
<1>8. left_pieces' \in Pieces(lhs) /\ right_pieces' \in Pieces(rhs)
  <2>1. 1 \in 1..Len(left_pieces)
    BY <1>1
  <2>2. /\ left_pieces'[1] = 0 /\ right_pieces'[1] = 0
        /\ left_pieces' # <<>> /\ right_pieces' # <<>>
    BY <1>1, <1>2, <2>1
  <2>. QED
    BY <1>2, <2>2 DEF Pieces
<1>9. pieces' = pieces + 1 /\ left_pieces'[pieces + 1] = i /\ right_pieces'[pieces + 1] = j
  BY <1>1, <1>2 DEF pieces
<1>. QED
  BY <1>7, <1>8, <1>9

\* The steps that leave the split and the threads alone keep what is said of them.
LEMMA CallerBeforeSpawn ==
  ASSUME TreeOK, ReturnOtherSide \/ Enter \/ SplitStep \/ SplitEnd
  PROVE  TreeOK'
<1>. USE DEF TreeOK
<1>1. /\ lhs \in Seq(MinT..MaxT) /\ rhs \in Seq(MinT..MaxT)
      /\ n_workers \in Nat /\ n_workers > 0 /\ z_val \in Nat
      /\ Len(lhs) \in Nat /\ Len(rhs) \in Nat /\ z_val = Len(lhs) + Len(rhs)
  BY ArgTypes DEF TypeOK, z_val
<1>2. /\ DOMAIN threads = {} /\ started = 0 /\ joined = 0
      /\ threads' = threads /\ started' = started /\ joined' = joined
      /\ lhs' = lhs /\ rhs' = rhs /\ n_workers' = n_workers /\ args' = args
      /\ z_val' = z_val
  <2>1. pc \in {"called", "split"} /\ UNCHANGED <<args, threads, started, joined>>
    BY DEF ReturnOtherSide, Enter, SplitStep, SplitEnd
  <2>2. DOMAIN threads = {} /\ started = 0
    BY <2>1 DEF CallOK
  <2>3. joined = 0
    BY <2>2 DEF TypeOK
  <2>. QED
    BY <2>1, <2>2, <2>3 DEF args, z_val
<1>3. Paths'
  BY <1>2 DEF Paths
<1>4. /\ count \in 0..z_val /\ idx \in 1..(z_val + 1)
      /\ left_idx \in 0..Len(lhs) /\ right_idx \in 0..Len(rhs)
      /\ left_pieces \in Pieces(lhs) /\ right_pieces \in Pieces(rhs)
      /\ res \in Seq(MinT..MaxT \cup {Unwritten})
  BY DEF TypeOK
<1>5. ASSUME /\ count' \in 0..z_val /\ idx' \in 1..(z_val + 1)
             /\ left_idx' \in 0..Len(lhs) /\ right_idx' \in 0..Len(rhs)
             /\ left_pieces' \in Pieces(lhs) /\ right_pieces' \in Pieces(rhs),
             res' \in Seq(MinT..MaxT \cup {Unwritten}),
             pc' \in {"called", "split", "spawn", "join", "done", "aborted"}
      PROVE  TypeOK'
  <2>1. started' \in 0..Len(left_pieces')
    BY <1>2, <1>5 DEF Pieces
  <2>2. args' \in Calls
    BY <1>2 DEF TypeOK
  <2>. QED
    BY <1>2, <1>5, <2>1, <2>2 DEF TypeOK, Pieces
<1>6. ASSUME UNCHANGED split PROVE CutsOK' /\ pieces' = pieces
  BY <1>2, <1>6 DEF split, CutsOK, pieces, CutsAt
<1>7. CASE ReturnOtherSide
  <2>1. /\ pc = "called" /\ pc' = "done" /\ (lhs = <<>> \/ rhs = <<>>) /\ UNCHANGED split
        /\ res' = IF lhs = <<>> THEN rhs ELSE lhs
    BY <1>7 DEF ReturnOtherSide
  <2>2. res' \in Seq(MinT..MaxT \cup {Unwritten})
    <3>1. res' \in Seq(MinT..MaxT)
      BY <1>1, <2>1
    <3>. QED
      BY <3>1, SeqMonotonic
  <2>3. TypeOK'
    BY <1>4, <1>5, <2>1, <2>2 DEF split
  <2>4. SplitOK' /\ CallOK'
    BY <1>2, <2>1 DEF SplitOK, CallOK, Split
  <2>. QED
    BY <1>3, <1>6, <2>1, <2>3, <2>4
<1>8. CASE Enter
  <2>1. /\ pc = "called" /\ pc' = "split" /\ lhs # <<>> /\ rhs # <<>>
        /\ UNCHANGED split /\ res' = res
    BY <1>8 DEF Enter
  <2>2. TypeOK'
    BY <1>4, <1>5, <2>1 DEF split
  <2>3. /\ left_pieces' = <<0>> /\ right_pieces' = <<0>> /\ count' = 0 /\ idx' = 1
        /\ left_idx' = 0 /\ right_idx' = 0 /\ pieces' = 1
    BY <2>1 DEF CallOK, split, pieces
  <2>4. CutsAt(0, 0)'
    BY <1>1, <1>2 DEF CutsAt
  <2>5. SplitOK'
    BY <1>1, <1>2, <2>1, <2>3, <2>4 DEF SplitOK
  <2>6. CallOK'
    BY <1>2, <2>1 DEF CallOK, Split
  <2>. QED
    BY <1>3, <1>6, <2>1, <2>2, <2>5, <2>6
<1>9. CASE SplitStep
  <2>1. /\ pc = "split" /\ pc' = "split" /\ res' = res /\ count < z_val /\ count' = count + 1
        /\ IF Cuts THEN /\ left_pieces' = Append(left_pieces, left_idx')
                        /\ right_pieces' = Append(right_pieces, right_idx')
                        /\ idx' = idx + 1
                   ELSE UNCHANGED <<left_pieces, right_pieces, idx>>
    BY <1>9 DEF SplitStep
  <2>2. /\ lhs # <<>> /\ rhs # <<>> /\ count = left_idx + right_idx
        /\ pieces = idx /\ idx <= count + 1 /\ idx <= n_workers
        /\ left_pieces[pieces] <= left_idx /\ right_pieces[pieces] <= right_idx
        /\ CutsAt(left_idx, right_idx)
    BY <2>1 DEF SplitOK
  <2>3. /\ left_idx' \in 0..Len(lhs) /\ right_idx' \in 0..Len(rhs)
        /\ left_idx <= left_idx' /\ right_idx <= right_idx'
        /\ count' = left_idx' + right_idx'
        /\ CutsAt(left_idx', right_idx')
    BY <1>9, <2>2, StepKeepsCut
  <2>4. (CutsAt(left_idx, right_idx))'
    BY <1>2, <2>3 DEF CutsAt
  <2>5. /\ left_pieces[pieces] \in 0..Len(lhs) /\ right_pieces[pieces] \in 0..Len(rhs)
        /\ left_pieces[pieces] <= left_idx' /\ right_pieces[pieces] <= right_idx'
    <3>1. pieces \in 1..Len(left_pieces) /\ pieces \in 1..Len(right_pieces)
      BY <1>4 DEF CutsOK, pieces, Pieces
    <3>2. left_pieces[pieces] \in 0..Len(lhs) /\ right_pieces[pieces] \in 0..Len(rhs)
      BY <1>4, <3>1 DEF Pieces
    <3>. QED
      BY <1>4, <2>2, <2>3, <3>2
  <2>6. CallOK'
    BY <1>2, <2>1 DEF CallOK, Split
  <2>7. CASE Cuts
    <3>1. idx + 1 <= n_workers
      <4>1. (idx * z_val) \div n_workers < z_val /\ idx \in Nat
        BY <1>4, <2>1, <2>7 DEF Cuts
      <4>2. idx < n_workers
        BY <1>1, <4>1, CutBound
      <4>. QED
        BY <1>1, <4>1, <4>2
    <3>2. /\ CutsOK' /\ pieces' = pieces + 1
          /\ left_pieces'[pieces + 1] = left_idx' /\ right_pieces'[pieces + 1] = right_idx'
          /\ left_pieces' \in Pieces(lhs) /\ right_pieces' \in Pieces(rhs)
      BY <1>1, <1>2, <2>1, <2>2, <2>3, <2>5, <2>7, AppendCut
    <3>3. idx' \in 1..(z_val + 1) /\ count' \in 0..z_val /\ idx' <= count' + 1
      BY <1>1, <1>4, <2>1, <2>2, <2>7
    <3>4. TypeOK'
      BY <1>4, <1>5, <2>1, <2>3, <3>2, <3>3
    <3>5. left_pieces'[pieces'] <= left_idx' /\ right_pieces'[pieces'] <= right_idx'
      BY <2>3, <3>2
    <3>6. idx' <= n_workers' /\ pieces' = idx'
      BY <1>2, <2>1, <2>2, <2>7, <3>1, <3>2
    <3>7. SplitOK'
      BY <1>2, <2>2, <2>3, <2>4, <3>3, <3>5, <3>6 DEF SplitOK
    <3>. QED
      BY <1>3, <2>6, <3>2, <3>4, <3>7
  <2>8. CASE ~Cuts
    <3>1. UNCHANGED <<left_pieces, right_pieces, idx>>
      BY <2>1, <2>8
    <3>2. CutsOK' /\ pieces' = pieces
      BY <1>2, <3>1 DEF CutsOK, pieces, CutsAt
    <3>3. count' \in 0..z_val /\ idx <= count' + 1
      BY <1>1, <1>4, <2>1, <2>2
    <3>4. TypeOK'
      BY <1>4, <1>5, <2>1, <2>3, <3>1, <3>3
    <3>5. SplitOK'
      BY <1>2, <2>2, <2>3, <2>4, <2>5, <3>1, <3>2, <3>3 DEF SplitOK
    <3>. QED
      BY <1>3, <2>6, <3>2, <3>4, <3>5
  <2>. QED
    BY <2>7, <2>8
<1>10. CASE SplitEnd
  <2>1. /\ pc = "split" /\ pc' = "spawn" /\ count >= z_val
        /\ left_pieces' = Append(left_pieces, left_idx)
        /\ right_pieces' = Append(right_pieces, right_idx)
        /\ res' = [k \in 1..z_val |-> Unwritten]
        /\ UNCHANGED <<count, idx, left_idx, right_idx>>
    BY <1>10 DEF SplitEnd
  <2>2. /\ lhs # <<>> /\ rhs # <<>> /\ count = left_idx + right_idx
        /\ pieces = idx /\ idx <= count + 1 /\ idx <= n_workers
        /\ left_pieces[pieces] <= left_idx /\ right_pieces[pieces] <= right_idx
        /\ CutsAt(left_idx, right_idx)
    BY <2>1 DEF SplitOK
  <2>3. left_idx = Len(lhs) /\ right_idx = Len(rhs)
    BY <1>1, <1>4, <2>1, <2>2
  <2>4. /\ CutsOK' /\ pieces' = pieces + 1
        /\ left_pieces'[pieces + 1] = left_idx /\ right_pieces'[pieces + 1] = right_idx
        /\ left_pieces' \in Pieces(lhs) /\ right_pieces' \in Pieces(rhs)
    BY <1>1, <1>2, <1>4, <2>1, <2>2, AppendCut
  <2>5. res' \in Seq(MinT..MaxT \cup {Unwritten}) /\ Len(res') = z_val
    BY <1>1, <2>1
  <2>6. TypeOK'
    BY <1>4, <1>5, <2>1, <2>4, <2>5
  <2>7. SplitOK'
    BY <2>1 DEF SplitOK
  <2>8. CallOK'
    <3>1. pieces \in Nat /\ pieces >= 1
      BY <1>4, <2>2
    <3>2. left_pieces'[pieces'] = Len(lhs') /\ right_pieces'[pieces'] = Len(rhs')
      BY <1>2, <2>3, <2>4
    <3>3. Len(res') = z_val' /\ started' <= pieces' - 1
      BY <1>2, <2>4, <2>5, <3>1
    <3>. QED
      BY <1>2, <2>1, <2>2, <3>2, <3>3 DEF CallOK, Split
  <2>. QED
    BY <1>3, <2>4, <2>6, <2>7, <2>8
<1>. QED
  BY <1>7, <1>8, <1>9, <1>10

---------------------------------------------------------------------------------
(* The steps that start, move and join threads. *)

ThreadOK(th) ==
  /\ th \in ThreadState
  /\ th.l \in Ranges(lhs) /\ th.r \in Ranges(rhs)
  /\ th.idx = th.l[1] + th.r[1]
  /\ th.ldist \in 0..th.l[2] /\ th.rdist \in 0..th.r[2]

\* What is said of the caller, after a step behind the split loop.
LEMMA CallerFrame ==
  ASSUME TreeOK, UNCHANGED <<args, split>>, Split,
         pc' \in {"spawn", "join", "done", "aborted"},
         Len(res') = Len(res), started' \in Nat, started' <= pieces - 1
  PROVE  CutsOK' /\ SplitOK' /\ CallOK' /\ Split' /\ pieces' = pieces
<1>1. /\ lhs' = lhs /\ rhs' = rhs /\ n_workers' = n_workers /\ z_val' = z_val
      /\ left_pieces' = left_pieces /\ right_pieces' = right_pieces /\ pieces' = pieces
  BY DEF args, split, z_val, pieces
<1>2. CutsOK'
  BY <1>1 DEF TreeOK, CutsOK, CutsAt
<1>3. SplitOK'
  BY DEF SplitOK
<1>4. Split'
  BY <1>1 DEF Split
<1>5. CallOK'
  BY <1>1, <1>4 DEF TreeOK, CallOK
<1>. QED
  BY <1>1, <1>2, <1>3, <1>4, <1>5

\* What is said of the threads, thread by thread.
LEMMA ThreadsFrame ==
  ASSUME TreeOK, UNCHANGED <<args, split>>,
         pc' \in {"spawn", "join", "done", "aborted"},
         started' \in 0..(pieces - 1), joined' \in 0..started',
         res' \in Seq(MinT..MaxT \cup {Unwritten}),
         \A t \in DOMAIN threads' :
           /\ t \in Seq(Nat) /\ t # <<>> /\ t[1] \in 1..started'
           /\ \A i \in 2..Len(t) : t[i] \in {0, 1}
           /\ ThreadOK(threads'[t])
           /\ threads'[t].pc \in {"spawnR", "joinL", "joinR"} => Append(t, 0) \in DOMAIN threads'
           /\ threads'[t].pc \in {"joinL", "joinR"} => Append(t, 1) \in DOMAIN threads',
         \A k \in 1..started' : <<k>> \in DOMAIN threads'
  PROVE  TypeOK' /\ Paths'
<1>1. /\ lhs' = lhs /\ rhs' = rhs /\ z_val' = z_val
      /\ left_pieces' = left_pieces /\ right_pieces' = right_pieces
      /\ count' = count /\ idx' = idx /\ left_idx' = left_idx /\ right_idx' = right_idx
  BY DEF args, split, z_val
<1>2. Len(left_pieces) \in Nat /\ 0..(pieces - 1) \subseteq 0..Len(left_pieces)
  BY DEF TreeOK, TypeOK, Pieces, pieces
<1>3. \A t \in DOMAIN threads' : Head(t) = t[1]
  OBVIOUS
<1>4. Paths'
  BY DEF Paths, ThreadOK
<1>5. /\ args \in Calls /\ count \in 0..z_val /\ idx \in 1..(z_val + 1)
      /\ left_idx \in 0..Len(lhs) /\ right_idx \in 0..Len(rhs)
      /\ left_pieces \in Pieces(lhs) /\ right_pieces \in Pieces(rhs)
  BY DEF TreeOK, TypeOK
<1>6. TypeOK'
  BY <1>1, <1>2, <1>3, <1>5 DEF TypeOK, ThreadOK, Ranges, Pieces
<1>. QED
  BY <1>4, <1>6

\* What an existing thread is, in the form the steps use.
LEMMA OneThread ==
  ASSUME TreeOK, NEW t \in DOMAIN threads
  PROVE  /\ t \in Seq(Nat) /\ t # <<>> /\ t[1] \in 1..started
         /\ \A i \in 2..Len(t) : t[i] \in {0, 1}
         /\ ThreadOK(threads[t])
         /\ threads[t].pc \in {"spawnR", "joinL", "joinR"} => Append(t, 0) \in DOMAIN threads
         /\ threads[t].pc \in {"joinL", "joinR"} => Append(t, 1) \in DOMAIN threads
         /\ Split
         /\ started \in 0..(pieces - 1) /\ joined \in 0..started
         /\ pc \in {"spawn", "join", "done", "aborted"}
         /\ \A k \in 1..started : <<k>> \in DOMAIN threads
         /\ res \in Seq(MinT..MaxT \cup {Unwritten})
<1>1. /\ t \in Seq(Nat) /\ \A i \in 2..Len(t) : t[i] \in {0, 1}
      /\ threads[t] \in ThreadState
      /\ threads[t].pc \in {"spawnR", "joinL", "joinR"} => Append(t, 0) \in DOMAIN threads
      /\ threads[t].pc \in {"joinL", "joinR"} => Append(t, 1) \in DOMAIN threads
      /\ \A k \in 1..started : <<k>> \in DOMAIN threads
  BY DEF TreeOK, Paths
<1>2. /\ t # <<>> /\ Head(t) \in 1..started
      /\ threads[t].l \in Ranges(lhs) /\ threads[t].r \in Ranges(rhs)
      /\ threads[t].idx = threads[t].l[1] + threads[t].r[1]
      /\ threads[t].ldist \in 0..threads[t].l[2]
      /\ threads[t].rdist \in 0..threads[t].r[2]
  BY DEF TreeOK, TypeOK
<1>3. /\ started \in 0..Len(left_pieces) /\ joined \in 0..started
      /\ res \in Seq(MinT..MaxT \cup {Unwritten})
      /\ pc \in {"called", "split", "spawn", "join", "done", "aborted"}
  BY DEF TreeOK, TypeOK
<1>4. Split /\ started <= pieces - 1
  BY DEF TreeOK, CallOK
<1>5. t[1] \in 1..started
  BY <1>1, <1>2
<1>6. ThreadOK(threads[t])
  BY <1>1, <1>2 DEF ThreadOK
<1>7. Len(left_pieces) \in Nat
  BY DEF TreeOK, TypeOK, Pieces
<1>8. pc \in {"spawn", "join", "done", "aborted"}
  BY <1>3, <1>4 DEF Split
<1>. QED
  BY <1>1, <1>2, <1>3, <1>4, <1>5, <1>6, <1>7, <1>8 DEF pieces

\* A thread's program counter moves, and nothing else of it.
LEMMA MoveTree ==
  ASSUME TreeOK, NEW t \in DOMAIN threads, NEW at,
         at \in {"entry", "second", "spawnL", "spawnR", "joinL", "joinR", "exited"},
         Goto(t, at), UNCHANGED caller,
         at \in {"spawnR", "joinL", "joinR"} => Append(t, 0) \in DOMAIN threads,
         at \in {"joinL", "joinR"} => Append(t, 1) \in DOMAIN threads,
         at = "second" => threads[t].l[2] = 1 /\ threads[t].r[2] = 1,
         Len(res') = Len(res), res' \in Seq(MinT..MaxT \cup {Unwritten})
  PROVE  TreeOK'
<1>1. UNCHANGED <<args, split, pc, started, joined>>
  BY DEF caller
<1>2. Split /\ pc \in {"spawn", "join", "done", "aborted"} /\ started \in 0..(pieces - 1)
      /\ joined \in 0..started
  BY OneThread
<1>3. CutsOK' /\ SplitOK' /\ CallOK'
  BY <1>1, <1>2, CallerFrame
<1>4. /\ DOMAIN threads' = DOMAIN threads
      /\ \A s \in DOMAIN threads :
           threads'[s] = IF s = t THEN [threads[t] EXCEPT !.pc = at] ELSE threads[s]
  BY DEF Goto
<1>5. ASSUME NEW s \in DOMAIN threads
      PROVE  ThreadOK(threads'[s])
  <2>1. ThreadOK(threads[s])
    BY OneThread
  <2>2. CASE s = t
    <3>1. threads'[s] = [threads[s] EXCEPT !.pc = at]
      BY <1>4, <2>2
    <3>2. /\ threads'[s].l = threads[s].l /\ threads'[s].r = threads[s].r
          /\ threads'[s].idx = threads[s].idx /\ threads'[s].pc = at
          /\ threads'[s].ldist = threads[s].ldist /\ threads'[s].rdist = threads[s].rdist
      BY <2>1, <3>1 DEF ThreadOK, ThreadState
    <3>3. threads'[s].pc = "second" => threads'[s].l[2] = 1 /\ threads'[s].r[2] = 1
      BY <2>2, <3>2
    <3>4. threads'[s] \in ThreadState
      BY <2>1, <3>1, <3>3 DEF ThreadOK, ThreadState
    <3>. QED
      BY <2>1, <3>2, <3>4 DEF ThreadOK
  <2>. QED
    BY <1>4, <2>1, <2>2
<1>6. ASSUME NEW s \in DOMAIN threads
      PROVE  threads'[s].pc = IF s = t THEN at ELSE threads[s].pc
  BY <1>4, OneThread DEF ThreadOK, ThreadState
<1>7. TypeOK' /\ Paths'
  <2>1. \A s \in DOMAIN threads' :
          /\ s \in Seq(Nat) /\ s # <<>> /\ s[1] \in 1..started'
          /\ \A i \in 2..Len(s) : s[i] \in {0, 1}
          /\ ThreadOK(threads'[s])
    BY <1>1, <1>4, <1>5, OneThread
  <2>2. \A s \in DOMAIN threads' :
          /\ threads'[s].pc \in {"spawnR", "joinL", "joinR"} => Append(s, 0) \in DOMAIN threads'
          /\ threads'[s].pc \in {"joinL", "joinR"} => Append(s, 1) \in DOMAIN threads'
    BY <1>4, <1>6, OneThread
  <2>3. \A k \in 1..started' : <<k>> \in DOMAIN threads'
    BY <1>1, <1>4, OneThread
  <2>. QED
    BY <1>1, <1>2, <2>1, <2>2, <2>3, ThreadsFrame
<1>. QED
  BY <1>3, <1>7 DEF TreeOK

\* The left and the right child, before and after.
LEMMA ChildTree ==
  ASSUME TreeOK, NEW t \in DOMAIN threads, NEW c \in {0, 1}, NEW th, NEW at,
         threads[t].pc = IF c = 0 THEN "spawnL" ELSE "spawnR",
         at = IF c = 0 THEN "spawnR" ELSE "joinL",
         ThreadOK(th), th.pc = "entry",
         threads' = WithThread([threads EXCEPT ![t].pc = at], Append(t, c), th),
         UNCHANGED <<caller, res>>
  PROVE  TreeOK'
<1>. DEFINE u == Append(t, c)
<1>1. UNCHANGED <<args, split, pc, started, joined, res>>
  BY DEF caller
<1>2. Split /\ pc \in {"spawn", "join", "done", "aborted"} /\ started \in 0..(pieces - 1)
      /\ joined \in 0..started /\ res \in Seq(MinT..MaxT \cup {Unwritten})
  BY OneThread
<1>3. CutsOK' /\ SplitOK' /\ CallOK'
  BY <1>1, <1>2, CallerFrame
<1>4. /\ t \in Seq(Nat) /\ t # <<>> /\ t[1] \in 1..started /\ \A i \in 2..Len(t) : t[i] \in {0, 1}
  BY OneThread
<1>5. /\ u \in Seq(Nat) /\ u # <<>> /\ u[1] \in 1..started /\ \A i \in 2..Len(u) : u[i] \in {0, 1}
      /\ u # t /\ Len(u) = Len(t) + 1
  <2>1. /\ u \in Seq(Nat) /\ Len(u) = Len(t) + 1 /\ u[Len(t) + 1] = c
        /\ \A i \in 1..Len(t) : u[i] = t[i]
    BY <1>4
  <2>2. Len(t) \in Nat /\ Len(t) >= 1
    BY <1>4
  <2>3. u[1] = t[1]
    BY <2>1, <2>2
  <2>4. ASSUME NEW i \in 2..Len(u) PROVE u[i] \in {0, 1}
    <3>1. CASE i = Len(t) + 1
      BY <2>1, <3>1
    <3>2. CASE i # Len(t) + 1
      <4>1. i \in 2..Len(t) /\ i \in 1..Len(t)
        BY <2>1, <2>2, <3>2
      <4>. QED
        BY <1>4, <2>1, <4>1
    <3>. QED
      BY <3>1, <3>2
  <2>5. u # t /\ u # <<>>
    BY <2>1, <2>2
  <2>. QED
    BY <1>4, <2>1, <2>3, <2>4, <2>5
<1>. HIDE DEF u
<1>6. /\ DOMAIN threads' = DOMAIN threads \cup {u}
      /\ threads'[u] = th
      /\ \A s \in DOMAIN threads \ {u} :
           threads'[s] = IF s = t THEN [threads[t] EXCEPT !.pc = at] ELSE threads[s]
  BY DEF WithThread, u
<1>7. ASSUME NEW s \in DOMAIN threads' PROVE ThreadOK(threads'[s])
  <2>1. CASE s = u
    BY <1>6, <2>1
  <2>2. CASE s = t
    <3>1. ThreadOK(threads[t]) /\ threads'[t] = [threads[t] EXCEPT !.pc = at]
      BY <1>5, <1>6, OneThread
    <3>2. at \in {"spawnR", "joinL"}
      OBVIOUS
    <3>3. /\ threads'[t] \in ThreadState
          /\ threads'[t].l = threads[t].l /\ threads'[t].r = threads[t].r
          /\ threads'[t].idx = threads[t].idx
          /\ threads'[t].ldist = threads[t].ldist /\ threads'[t].rdist = threads[t].rdist
      BY <3>1, <3>2 DEF ThreadOK, ThreadState
    <3>. QED
      BY <2>2, <3>1, <3>3 DEF ThreadOK
  <2>3. CASE s # u /\ s # t
    BY <1>6, <2>3, OneThread
  <2>. QED
    BY <2>1, <2>2, <2>3
<1>8. /\ threads'[u].pc = "entry"
      /\ threads'[t].pc = at
      /\ \A s \in DOMAIN threads \ {u, t} : threads'[s].pc = threads[s].pc
  <2>1. threads'[t].pc = at
    BY <1>5, <1>6, OneThread DEF ThreadOK, ThreadState
  <2>. QED
    BY <1>6, <2>1
<1>9. ASSUME NEW s \in DOMAIN threads'
      PROVE  /\ threads'[s].pc \in {"spawnR", "joinL", "joinR"} => Append(s, 0) \in DOMAIN threads'
             /\ threads'[s].pc \in {"joinL", "joinR"} => Append(s, 1) \in DOMAIN threads'
  <2>1. CASE s = u
    BY <1>8, <2>1
  <2>2. CASE s = t
    <3>1. CASE c = 0
      BY <1>6, <1>8, <2>2, <3>1 DEF u
    <3>2. CASE c = 1
      <4>1. Append(t, 0) \in DOMAIN threads
        BY <3>2, OneThread
      <4>. QED
        BY <1>6, <2>2, <3>2, <4>1 DEF u
    <3>. QED
      BY <3>1, <3>2
  <2>3. CASE s # u /\ s # t
    <3>1. s \in DOMAIN threads /\ threads'[s].pc = threads[s].pc
      BY <1>6, <1>8, <2>3
    <3>. QED
      BY <1>6, <3>1, OneThread
  <2>. QED
    BY <2>1, <2>2, <2>3
<1>10. TypeOK' /\ Paths'
  <2>1. \A s \in DOMAIN threads' :
          /\ s \in Seq(Nat) /\ s # <<>> /\ s[1] \in 1..started'
          /\ \A i \in 2..Len(s) : s[i] \in {0, 1}
    BY <1>1, <1>5, <1>6, OneThread
  <2>2. \A k \in 1..started' : <<k>> \in DOMAIN threads'
    BY <1>1, <1>6, OneThread
  <2>. QED
    BY <1>1, <1>2, <1>7, <1>9, <2>1, <2>2, ThreadsFrame
<1>. QED
  BY <1>3, <1>10 DEF TreeOK

\* A thread about to run on two ranges.
LEMMA NewThreadOK ==
  ASSUME args \in Calls, NEW a \in Nat, NEW b \in Nat, NEW d \in Nat, NEW e \in Nat,
         NEW i \in Nat, a + b <= Len(lhs), d + e <= Len(rhs), i = a + d
  PROVE  ThreadOK(Thread(<<a, b>>, <<d, e>>, i)) /\ Thread(<<a, b>>, <<d, e>>, i).pc = "entry"
<1>1. <<a, b>> \in Ranges(lhs) /\ <<d, e>> \in Ranges(rhs)
  <2>1. a \in 0..Len(lhs) /\ b \in 0..Len(lhs) /\ d \in 0..Len(rhs) /\ e \in 0..Len(rhs)
    BY ArgTypes
  <2>. QED
    BY <2>1 DEF Ranges
<1>2. Thread(<<a, b>>, <<d, e>>, i) \in ThreadState
  BY DEF Thread, ThreadState
<1>3. /\ Thread(<<a, b>>, <<d, e>>, i).l = <<a, b>> /\ Thread(<<a, b>>, <<d, e>>, i).r = <<d, e>>
      /\ Thread(<<a, b>>, <<d, e>>, i).idx = i /\ Thread(<<a, b>>, <<d, e>>, i).pc = "entry"
      /\ Thread(<<a, b>>, <<d, e>>, i).ldist = 0 /\ Thread(<<a, b>>, <<d, e>>, i).rdist = 0
  BY DEF Thread
<1>4. 0 \in 0..b /\ 0 \in 0..e /\ <<a, b>>[1] = a /\ <<a, b>>[2] = b /\ <<d, e>>[1] = d /\ <<d, e>>[2] = e
  OBVIOUS
<1>. QED
  BY <1>1, <1>2, <1>3, <1>4 DEF ThreadOK

\* The ranges of a divided thread's halves.
LEMMA ChildrenOK ==
  ASSUME TreeOK, NEW t \in DOMAIN threads
  PROVE  /\ ThreadOK(LChild(t)) /\ LChild(t).pc = "entry"
         /\ ThreadOK(RChild(t)) /\ RChild(t).pc = "entry"
<1>. DEFINE th == threads[t]
<1>1. ThreadOK(th)
  BY OneThread
<1>2. PICK l1 \in Nat, l2 \in Nat, r1 \in Nat, r2 \in Nat :
        /\ th.l = <<l1, l2>> /\ th.r = <<r1, r2>> /\ th.idx = l1 + r1
        /\ l1 + l2 <= Len(lhs) /\ r1 + r2 <= Len(rhs)
  <2>1. th.l \in Ranges(lhs) /\ th.r \in Ranges(rhs)
    BY <1>1 DEF ThreadOK
  <2>2. /\ th.l = <<th.l[1], th.l[2]>> /\ th.l[1] \in Nat /\ th.l[2] \in Nat
        /\ th.l[1] + th.l[2] <= Len(lhs)
        /\ th.r = <<th.r[1], th.r[2]>> /\ th.r[1] \in Nat /\ th.r[2] \in Nat
        /\ th.r[1] + th.r[2] <= Len(rhs)
    BY <2>1 DEF Ranges
  <2>. QED
    BY <1>1, <2>2 DEF ThreadOK
<1>3. PICK ld \in 0..l2, rd \in 0..r2 : th.ldist = ld /\ th.rdist = rd
  BY <1>1, <1>2 DEF ThreadOK
<1>4. args \in Calls /\ Len(lhs) \in Nat /\ Len(rhs) \in Nat
  BY ArgTypes DEF TreeOK, TypeOK
<1>5. /\ LChild(t) = Thread(<<l1, ld>>, <<r1, rd>>, l1 + r1)
      /\ RChild(t) = Thread(<<l1 + ld, l2 - ld>>, <<r1 + rd, r2 - rd>>, l1 + r1 + ld + rd)
  <2>1. /\ threads[t].l[1] = l1 /\ threads[t].l[2] = l2
        /\ threads[t].r[1] = r1 /\ threads[t].r[2] = r2
        /\ threads[t].idx = l1 + r1 /\ threads[t].ldist = ld /\ threads[t].rdist = rd
    BY <1>2, <1>3
  <2>. QED
    BY <2>1 DEF LChild, RChild
<1>7. ThreadOK(LChild(t)) /\ LChild(t).pc = "entry"
  <2>1. /\ ld \in Nat /\ rd \in Nat /\ l1 + r1 \in Nat
        /\ l1 + ld <= Len(lhs) /\ r1 + rd <= Len(rhs)
    BY <1>2, <1>3, <1>4
  <2>2. /\ ThreadOK(Thread(<<l1, ld>>, <<r1, rd>>, l1 + r1))
        /\ Thread(<<l1, ld>>, <<r1, rd>>, l1 + r1).pc = "entry"
    BY <1>4, <2>1, NewThreadOK
  <2>. QED
    BY <1>5, <2>2
<1>8. ThreadOK(RChild(t)) /\ RChild(t).pc = "entry"
  <2>1. PICK a \in Nat, b \in Nat, d \in Nat, e \in Nat, i \in Nat :
          /\ a = l1 + ld /\ b = l2 - ld /\ d = r1 + rd /\ e = r2 - rd /\ i = l1 + r1 + ld + rd
          /\ a + b <= Len(lhs) /\ d + e <= Len(rhs) /\ i = a + d
    BY <1>2, <1>3, <1>4
  <2>2. ThreadOK(Thread(<<a, b>>, <<d, e>>, i)) /\ Thread(<<a, b>>, <<d, e>>, i).pc = "entry"
    BY <1>4, <2>1, NewThreadOK
  <2>. QED
    BY <1>5, <2>1, <2>2
<1>. QED
  BY <1>7, <1>8

\* The worker's piece lies between two cuts.
LEMMA WorkerOK ==
  ASSUME TreeOK, NEW k \in 1..(pieces - 1)
  PROVE  ThreadOK(Worker(k)) /\ Worker(k).pc = "entry"
<1>1. /\ left_pieces \in Seq(0..Len(lhs)) /\ right_pieces \in Seq(0..Len(rhs))
      /\ args \in Calls
  BY DEF TreeOK, TypeOK, Pieces
<1>2. /\ Len(left_pieces) = pieces /\ Len(right_pieces) = pieces
      /\ k \in 1..pieces /\ k + 1 \in 1..pieces
  BY <1>1 DEF TreeOK, CutsOK, pieces
<1>3. left_pieces[k] <= left_pieces[k + 1] /\ right_pieces[k] <= right_pieces[k + 1]
  BY <1>2 DEF TreeOK, CutsOK
<1>4. PICK a \in 0..Len(lhs), b \in 0..Len(lhs), d \in 0..Len(rhs), e \in 0..Len(rhs) :
        /\ a = left_pieces[k] /\ b = left_pieces[k + 1] /\ a <= b
        /\ d = right_pieces[k] /\ e = right_pieces[k + 1] /\ d <= e
  <2>1. /\ left_pieces[k] \in 0..Len(lhs) /\ left_pieces[k + 1] \in 0..Len(lhs)
        /\ right_pieces[k] \in 0..Len(rhs) /\ right_pieces[k + 1] \in 0..Len(rhs)
    BY <1>1, <1>2
  <2>. QED
    BY <1>3, <2>1
<1>5. Len(lhs) \in Nat /\ Len(rhs) \in Nat
  BY <1>1, ArgTypes
<1>6. PICK x \in Nat, y \in Nat, i \in Nat :
        /\ x = b - a /\ y = e - d /\ i = a + d
        /\ a + x <= Len(lhs) /\ d + y <= Len(rhs)
  BY <1>4, <1>5
<1>7. a \in Nat /\ d \in Nat
  BY <1>5
<1>8. ThreadOK(Thread(<<a, x>>, <<d, y>>, i)) /\ Thread(<<a, x>>, <<d, y>>, i).pc = "entry"
  BY <1>1, <1>6, <1>7, NewThreadOK
<1>. QED
  BY <1>4, <1>6, <1>8 DEF Worker, Piece

\* lower_bound finds a place in its range.
LEMMA LowerBoundRange ==
  ASSUME NEW s, Len(s) \in Nat, NEW v
  PROVE  LowerBound(s, v) \in 0..Len(s)
<1>1. IsFiniteSet(1..Len(s)) /\ Cardinality(1..Len(s)) = Len(s)
  BY FS_Interval
<1>2. {k \in 1..Len(s) : s[k] < v} \subseteq 1..Len(s)
  OBVIOUS
<1>. HIDE DEF LowerBound
<1>3. /\ IsFiniteSet({k \in 1..Len(s) : s[k] < v})
      /\ Cardinality({k \in 1..Len(s) : s[k] < v}) <= Len(s)
  BY <1>1, <1>2, FS_Subset
<1>4. Cardinality({k \in 1..Len(s) : s[k] < v}) \in Nat
  BY <1>3, FS_CardinalityType
<1>. QED
  BY <1>3, <1>4 DEF LowerBound

\* SpawnWorker keeps the invariant: the new worker is the root of a tree of its own.
LEMMA WorkerTree ==
  ASSUME TreeOK, SpawnWorker
  PROVE  TreeOK'
<1>. DEFINE k == started + 1
            u == <<k>>
<1>1. /\ pc = "spawn" /\ started < pieces - 1 /\ started' = k
      /\ threads' = WithThread(threads, u, Worker(k))
      /\ UNCHANGED <<args, pc, split, joined, res>>
  BY DEF SpawnWorker, pieces
<1>2. /\ Split /\ started \in Nat /\ pieces \in Nat /\ joined \in 0..started
      /\ res \in Seq(MinT..MaxT \cup {Unwritten})
  <2>1. /\ args \in Calls /\ left_pieces \in Pieces(lhs) /\ started \in 0..Len(left_pieces)
        /\ joined \in 0..started /\ res \in Seq(MinT..MaxT \cup {Unwritten})
    BY DEF TreeOK, TypeOK
  <2>2. Len(left_pieces) \in Nat
    BY <2>1 DEF Pieces
  <2>3. Split
    BY <1>1 DEF TreeOK, CallOK, Split
  <2>. QED
    BY <2>1, <2>2, <2>3 DEF pieces
<1>3. started' \in 0..(pieces - 1) /\ joined' \in 0..started' /\ k \in 1..(pieces - 1)
  BY <1>1, <1>2
<1>4. CutsOK' /\ SplitOK' /\ CallOK'
  BY <1>1, <1>2, <1>3, CallerFrame
<1>5. ThreadOK(Worker(k)) /\ Worker(k).pc = "entry"
  BY <1>3, WorkerOK
<1>6. /\ DOMAIN threads' = DOMAIN threads \cup {u}
      /\ threads'[u] = Worker(k)
      /\ \A s \in DOMAIN threads \ {u} : threads'[s] = threads[s]
  BY <1>1 DEF WithThread
<1>7. u \in Seq(Nat) /\ u # <<>> /\ u[1] \in 1..started' /\ \A i \in 2..Len(u) : u[i] \in {0, 1}
  BY <1>1, <1>2
<1>. HIDE DEF u
<1>8. ASSUME NEW s \in DOMAIN threads'
      PROVE  /\ s \in Seq(Nat) /\ s # <<>> /\ s[1] \in 1..started'
             /\ \A i \in 2..Len(s) : s[i] \in {0, 1}
             /\ ThreadOK(threads'[s])
             /\ threads'[s].pc \in {"spawnR", "joinL", "joinR"} => Append(s, 0) \in DOMAIN threads'
             /\ threads'[s].pc \in {"joinL", "joinR"} => Append(s, 1) \in DOMAIN threads'
  <2>1. CASE s = u
    BY <1>5, <1>6, <1>7, <2>1
  <2>2. CASE s # u
    <3>1. s \in DOMAIN threads /\ threads'[s] = threads[s]
      BY <1>6, <2>2
    <3>2. s[1] \in 1..started'
      BY <1>1, <1>2, <3>1, OneThread
    <3>. QED
      BY <1>6, <3>1, <3>2, OneThread
  <2>. QED
    BY <2>1, <2>2
<1>9. \A i \in 1..started' : <<i>> \in DOMAIN threads'
  <2>1. \A i \in 1..started : <<i>> \in DOMAIN threads
    BY DEF TreeOK, Paths
  <2>2. ASSUME NEW i \in 1..started' PROVE i = k \/ i \in 1..started
    BY <1>1, <1>2
  <2>. QED
    BY <1>6, <2>1, <2>2 DEF u
<1>10. TypeOK' /\ Paths'
  BY <1>1, <1>2, <1>3, <1>8, <1>9, ThreadsFrame
<1>. QED
  BY <1>4, <1>10 DEF TreeOK

\* Divide keeps the invariant: both lower bounds lie inside the thread's ranges.
LEMMA DivideTree ==
  ASSUME TreeOK, NEW t \in DOMAIN threads, Divide(t)
  PROVE  TreeOK'
<1>1. PICK ld, rd :
        /\ ld \in 0..threads[t].l[2] /\ rd \in 0..threads[t].r[2]
        /\ threads' = [threads EXCEPT ![t].pc = "spawnL", ![t].ldist = ld, ![t].rdist = rd]
        /\ UNCHANGED <<caller, res>>
  <2>. DEFINE mid == FindMedian(LSpan(t), RSpan(t))
              ld == LowerBound(LSpan(t), mid.val)
              rd == LowerBound(RSpan(t), mid.val)
  <2>1. /\ threads' = [threads EXCEPT ![t].pc = "spawnL", ![t].ldist = ld, ![t].rdist = rd]
        /\ UNCHANGED <<caller, res>>
    BY DEF Divide
  <2>2. /\ Len(LSpan(t)) = threads[t].l[2] /\ Len(RSpan(t)) = threads[t].r[2]
        /\ threads[t].l[2] \in Nat /\ threads[t].r[2] \in Nat
    <3>1. ThreadOK(threads[t]) /\ args \in Calls
      BY OneThread DEF TreeOK, TypeOK
    <3>2. /\ lhs \in Seq(Int) /\ rhs \in Seq(Int)
          /\ threads[t].l[1] \in Nat /\ threads[t].l[2] \in Nat
          /\ threads[t].l[1] + threads[t].l[2] <= Len(lhs)
          /\ threads[t].r[1] \in Nat /\ threads[t].r[2] \in Nat
          /\ threads[t].r[1] + threads[t].r[2] <= Len(rhs)
      BY <3>1, ArgTypes DEF ThreadOK, Ranges
    <3>3. Len(lhs) \in Nat /\ Len(rhs) \in Nat
      BY <3>2
    <3>4. ASSUME NEW v \in Seq(Int), NEW a \in Nat, NEW b \in Nat, a + b <= Len(v)
          PROVE  Len(SubSeq(v, a + 1, a + b)) = b
      <4>1. a + 1 \in Nat /\ a + b \in Nat /\ Len(v) \in Nat
        OBVIOUS
      <4>2. Len(SubSeq(v, a + 1, a + b)) = IF a + 1 <= a + b THEN a + b - (a + 1) + 1 ELSE 0
        BY <4>1
      <4>. QED
        BY <4>1, <4>2
    <3>. QED
      BY <3>2, <3>4 DEF LSpan, RSpan
  <2>3. ld \in 0..threads[t].l[2] /\ rd \in 0..threads[t].r[2]
    BY <2>2, LowerBoundRange
  <2>. QED
    BY <2>1, <2>3
<1>2. UNCHANGED <<args, split, pc, started, joined, res>>
  BY <1>1 DEF caller
<1>3. Split /\ pc \in {"spawn", "join", "done", "aborted"} /\ started \in 0..(pieces - 1)
      /\ joined \in 0..started /\ res \in Seq(MinT..MaxT \cup {Unwritten})
  BY OneThread
<1>4. CutsOK' /\ SplitOK' /\ CallOK'
  BY <1>2, <1>3, CallerFrame
<1>5. /\ DOMAIN threads' = DOMAIN threads
      /\ \A s \in DOMAIN threads \ {t} : threads'[s] = threads[s]
  BY <1>1
<1>6. ThreadOK(threads'[t]) /\ threads'[t].pc = "spawnL"
  <2>1. ThreadOK(threads[t])
    BY OneThread
  <2>2. threads'[t] = [threads[t] EXCEPT !.pc = "spawnL", !.ldist = ld, !.rdist = rd]
    BY <1>1
  <2>3. ld \in Nat /\ rd \in Nat
    BY <1>1, <2>1 DEF ThreadOK, ThreadState
  <2>4. /\ threads'[t] \in ThreadState /\ threads'[t].pc = "spawnL"
        /\ threads'[t].l = threads[t].l /\ threads'[t].r = threads[t].r
        /\ threads'[t].idx = threads[t].idx
        /\ threads'[t].ldist = ld /\ threads'[t].rdist = rd
    BY <2>1, <2>2, <2>3 DEF ThreadOK, ThreadState
  <2>. QED
    BY <1>1, <2>1, <2>4 DEF ThreadOK
<1>7. TypeOK' /\ Paths'
  <2>1. \A s \in DOMAIN threads' :
          /\ s \in Seq(Nat) /\ s # <<>> /\ s[1] \in 1..started'
          /\ \A i \in 2..Len(s) : s[i] \in {0, 1}
          /\ ThreadOK(threads'[s])
          /\ threads'[s].pc \in {"spawnR", "joinL", "joinR"} => Append(s, 0) \in DOMAIN threads'
          /\ threads'[s].pc \in {"joinL", "joinR"} => Append(s, 1) \in DOMAIN threads'
    BY <1>2, <1>5, <1>6, OneThread
  <2>2. \A k \in 1..started' : <<k>> \in DOMAIN threads'
    BY <1>2, <1>5, OneThread
  <2>. QED
    BY <1>2, <1>3, <2>1, <2>2, ThreadsFrame
<1>. QED
  BY <1>4, <1>7 DEF TreeOK

\* A store keeps res a vector of values.
LEMMA StoreType ==
  ASSUME res \in Seq(MinT..MaxT \cup {Unwritten}), NEW i, NEW v \in MinT..MaxT,
         res' = [res EXCEPT ![i] = v]
  PROVE  Len(res') = Len(res) /\ res' \in Seq(MinT..MaxT \cup {Unwritten})
<1>. DEFINE Cell == MinT..MaxT \cup {Unwritten}
<1>1. Len(res) \in Nat /\ res \in [1..Len(res) -> Cell] /\ v \in Cell
  OBVIOUS
<1>2. res' \in [1..Len(res) -> Cell]
  BY <1>1
<1>. HIDE DEF Cell
<1>3. res' \in Seq(Cell) /\ Len(res') = Len(res)
  BY <1>1, <1>2
<1>. QED
  BY <1>3 DEF Cell

\* The values a thread with one element on a side reads there.
LEMMA FirstTypes ==
  ASSUME TreeOK, NEW t \in DOMAIN threads
  PROVE  /\ threads[t].l[2] = 1 => LFirst(t) \in MinT..MaxT
         /\ threads[t].r[2] = 1 => RFirst(t) \in MinT..MaxT
<1>1. ThreadOK(threads[t]) /\ args \in Calls
  BY OneThread DEF TreeOK, TypeOK
<1>2. /\ lhs \in Seq(MinT..MaxT) /\ rhs \in Seq(MinT..MaxT)
      /\ threads[t].l[1] \in Nat /\ threads[t].l[2] \in Nat
      /\ threads[t].l[1] + threads[t].l[2] <= Len(lhs)
      /\ threads[t].r[1] \in Nat /\ threads[t].r[2] \in Nat
      /\ threads[t].r[1] + threads[t].r[2] <= Len(rhs)
  BY <1>1, ArgTypes DEF ThreadOK, Ranges
<1>3. threads[t].l[2] = 1 => threads[t].l[1] + 1 \in 1..Len(lhs)
  BY <1>2
<1>4. threads[t].r[2] = 1 => threads[t].r[1] + 1 \in 1..Len(rhs)
  BY <1>2
<1>5. /\ \A i \in 1..Len(lhs) : lhs[i] \in MinT..MaxT
      /\ \A i \in 1..Len(rhs) : rhs[i] \in MinT..MaxT
  BY <1>2, ElementOfSeq
<1>6. ASSUME threads[t].l[2] = 1 PROVE LFirst(t) \in MinT..MaxT
  <2>1. threads[t].l[1] + 1 \in 1..Len(lhs)
    BY <1>3, <1>6
  <2>2. lhs[threads[t].l[1] + 1] \in MinT..MaxT
    BY <1>5, <2>1
  <2>. QED
    BY <2>2 DEF LFirst
<1>7. ASSUME threads[t].r[2] = 1 PROVE RFirst(t) \in MinT..MaxT
  <2>1. threads[t].r[1] + 1 \in 1..Len(rhs)
    BY <1>4, <1>7
  <2>2. rhs[threads[t].r[1] + 1] \in MinT..MaxT
    BY <1>5, <2>1
  <2>. QED
    BY <2>2 DEF RFirst
<1>. QED
  BY <1>6, <1>7

\* std::terminate changes nothing but the program counter.
LEMMA AbortTree ==
  ASSUME TreeOK, Split, Abort
  PROVE  TreeOK'
<1>1. pc' = "aborted" /\ UNCHANGED <<args, split, started, joined, threads, res>>
  BY DEF Abort
<1>2. started \in 0..Len(left_pieces)
  BY DEF TreeOK, TypeOK
<1>3. started' \in Nat /\ started' <= pieces - 1 /\ Len(res') = Len(res)
  BY <1>1, <1>2 DEF TreeOK, CallOK
<1>4. CutsOK' /\ SplitOK' /\ CallOK'
  BY <1>1, <1>3, CallerFrame
<1>5. TypeOK' /\ Paths'
  BY <1>1 DEF TreeOK, TypeOK, Paths, args, split, z_val
<1>. QED
  BY <1>4, <1>5 DEF TreeOK

\* One thread's step.
LEMMA ThreadTree ==
  ASSUME TreeOK, NEW t \in DOMAIN threads, HighPref_Merge(t)
  PROVE  TreeOK'
<1>1. /\ Split /\ res \in Seq(MinT..MaxT \cup {Unwritten})
      /\ threads[t].pc \in {"spawnR", "joinL", "joinR"} => Append(t, 0) \in DOMAIN threads
      /\ threads[t].pc \in {"joinL", "joinR"} => Append(t, 1) \in DOMAIN threads
  BY OneThread
<1>2. CASE StoreFirst(t)
  <2>1. threads[t].l[2] = 1 /\ threads[t].r[2] = 1
    BY <1>2 DEF StoreFirst, Sizes
  <2>2. Smaller(t) \in MinT..MaxT
    BY <2>1, FirstTypes DEF Smaller
  <2>3. /\ res' = [res EXCEPT ![threads[t].idx + 1] = Smaller(t)]
        /\ Goto(t, "second") /\ UNCHANGED caller
    BY <1>2 DEF StoreFirst
  <2>4. Len(res') = Len(res) /\ res' \in Seq(MinT..MaxT \cup {Unwritten})
    BY <1>1, <2>2, <2>3, StoreType
  <2>. QED
    BY <2>1, <2>3, <2>4, MoveTree
<1>3. CASE StoreSecond(t)
  <2>1. /\ res' = [res EXCEPT ![threads[t].idx + 2] = Larger(t)]
        /\ Goto(t, "exited") /\ UNCHANGED caller
    BY <1>3 DEF StoreSecond
  <2>2. Larger(t) \in MinT..MaxT
    <3>1. threads[t].l[2] = 1 /\ threads[t].r[2] = 1
      BY <1>3, OneThread DEF StoreSecond, Runs, ThreadOK, ThreadState
    <3>. QED
      BY <3>1, FirstTypes DEF Larger
  <2>3. Len(res') = Len(res) /\ res' \in Seq(MinT..MaxT \cup {Unwritten})
    BY <1>1, <2>1, <2>2, StoreType
  <2>. QED
    BY <2>1, <2>3, MoveTree
<1>4. CASE StoreOnly(t)
  <2>2. Sizes(t) = <<1, 0>> => threads[t].l[2] = 1
    BY DEF Sizes
  <2>3. Sizes(t) # <<1, 0>> => threads[t].r[2] = 1
    BY <1>4 DEF StoreOnly, Sizes
  <2>4. /\ Goto(t, "exited") /\ UNCHANGED caller
        /\ res' = [res EXCEPT ![threads[t].idx + 1] =
                     IF Sizes(t) = <<1, 0>> THEN LFirst(t) ELSE RFirst(t)]
    BY <1>4 DEF StoreOnly
  <2>5. (IF Sizes(t) = <<1, 0>> THEN LFirst(t) ELSE RFirst(t)) \in MinT..MaxT
    BY <2>2, <2>3, FirstTypes
  <2>6. Len(res') = Len(res) /\ res' \in Seq(MinT..MaxT \cup {Unwritten})
    BY <1>1, <2>4, <2>5, StoreType
  <2>. QED
    BY <2>4, <2>6, MoveTree
<1>5. CASE Divide(t)
  BY <1>5, DivideTree
<1>6. CASE MedianThrows(t) \/ SpawnFails(t)
  <2>1. Abort
    BY <1>6 DEF MedianThrows, SpawnFails
  <2>. QED
    BY <1>1, <2>1, AbortTree
<1>7. CASE MedianSpins(t)
  BY <1>7 DEF MedianSpins, vars, args, split, TreeOK, TypeOK, CutsOK, SplitOK, CallOK, Paths,
              CutsAt, pieces, Split, z_val
<1>8. CASE SpawnL(t)
  <2>1. /\ threads[t].pc = "spawnL" /\ UNCHANGED <<caller, res>>
        /\ threads' = WithThread([threads EXCEPT ![t].pc = "spawnR"], Append(t, 0), LChild(t))
    BY <1>8 DEF SpawnL, Runs
  <2>2. ThreadOK(LChild(t)) /\ LChild(t).pc = "entry"
    BY ChildrenOK
  <2>. QED
    BY <2>1, <2>2, ChildTree
<1>9. CASE SpawnR(t)
  <2>1. /\ threads[t].pc = "spawnR" /\ UNCHANGED <<caller, res>>
        /\ threads' = WithThread([threads EXCEPT ![t].pc = "joinL"], Append(t, 1), RChild(t))
    BY <1>9 DEF SpawnR, Runs
  <2>2. ThreadOK(RChild(t)) /\ RChild(t).pc = "entry"
    BY ChildrenOK
  <2>. QED
    BY <2>1, <2>2, ChildTree
<1>10. CASE JoinL(t)
  <2>1. threads[t].pc = "joinL" /\ Goto(t, "joinR") /\ UNCHANGED <<caller, res>>
    BY <1>10 DEF JoinL, Runs
  <2>. QED
    BY <1>1, <2>1, MoveTree
<1>11. CASE JoinR(t)
  <2>1. Goto(t, "exited") /\ UNCHANGED <<caller, res>>
    BY <1>11 DEF JoinR, Runs
  <2>. QED
    BY <1>1, <2>1, MoveTree
<1>. QED
  BY <1>2, <1>3, <1>4, <1>5, <1>6, <1>7, <1>8, <1>9, <1>10, <1>11 DEF HighPref_Merge

\* A step of the caller behind the split loop.
LEMMA CallerTree ==
  ASSUME TreeOK, SpawnWorkerFails \/ SpawnEnd \/ JoinWorker \/ Return
  PROVE  TreeOK'
<1>1. Split
  BY DEF TreeOK, CallOK, SpawnWorkerFails, SpawnEnd, JoinWorker, Return
<1>2. CASE SpawnWorkerFails
  BY <1>1, <1>2, AbortTree DEF SpawnWorkerFails
<1>3. CASE SpawnEnd \/ JoinWorker \/ Return
  <2>1. /\ UNCHANGED <<args, split, started, threads, res>>
        /\ pc' \in {"join", "done"} /\ joined' \in 0..started
    BY <1>3 DEF SpawnEnd, JoinWorker, Return, TreeOK, TypeOK
  <2>2. started \in 0..Len(left_pieces) /\ started <= pieces - 1
    BY <1>1 DEF TreeOK, TypeOK, CallOK
  <2>3. CutsOK' /\ SplitOK' /\ CallOK'
    BY <1>1, <2>1, <2>2, CallerFrame
  <2>4. TypeOK' /\ Paths'
    BY <2>1 DEF TreeOK, TypeOK, Paths, args, split, z_val
  <2>. QED
    BY <2>3, <2>4 DEF TreeOK
<1>. QED
  BY <1>2, <1>3

\* Every step keeps the invariant.
LEMMA NextTree == TreeOK /\ [Next]_vars => TreeOK'
<1>. SUFFICES ASSUME TreeOK, [Next]_vars PROVE TreeOK'
  OBVIOUS
<1>1. CASE UNCHANGED vars
  BY <1>1 DEF vars, args, split, TreeOK, TypeOK, CutsOK, SplitOK, CallOK, Paths,
              CutsAt, pieces, Split, z_val
<1>2. CASE Caller
  BY <1>2, CallerBeforeSpawn, WorkerTree, CallerTree DEF Caller
<1>3. CASE \E t \in DOMAIN threads : HighPref_Merge(t)
  BY <1>3, ThreadTree
<1>. QED
  BY <1>1, <1>2, <1>3 DEF Next, Over

\* The ranges every thread was given lie inside lhs and rhs, its position is the sum of
\* their starts, and every piece between two cuts has a worker (pmergejoin.h:220-264).
THEOREM MergeTree == Spec => []TreeOK
<1>1. Init => TreeOK
  BY InitTree
<1>2. TreeOK /\ [Next]_vars => TreeOK'
  BY NextTree
<1>. QED
  BY <1>1, <1>2, PTL DEF Spec

\* Cuts, ranges and positions stay inside lhs, rhs and res, for every call
\* (pmergejoin.h:220-264).
THEOREM MergeTypeOK == Spec => []TypeOK
BY MergeTree, PTL DEF TreeOK

\* Whatever lies in an earlier piece is at or before a cut everything in a later piece is
\* behind.
LEMMA TreeCutsInOrder == TreeOK => PiecesInOrder
<1>. SUFFICES ASSUME TreeOK, pc \in {"spawn", "join", "done"}, lhs # <<>>, rhs # <<>>
              PROVE  /\ left_pieces[pieces] = Len(lhs) /\ right_pieces[pieces] = Len(rhs)
                     /\ pieces - 1 <= n_workers
                     /\ \A j, k \in 1..(pieces - 1) : j < k =>
                          \A u \in PieceValues(j), v \in PieceValues(k) : u <= v
  BY DEF PiecesInOrder, pieces
<1>1. /\ left_pieces[pieces] = Len(lhs) /\ right_pieces[pieces] = Len(rhs)
      /\ pieces - 1 <= n_workers
  BY DEF TreeOK, CallOK, CutsOK, Split
<1>2. ASSUME NEW j \in 1..(pieces - 1), NEW k \in 1..(pieces - 1), j < k,
             NEW u \in PieceValues(j), NEW v \in PieceValues(k)
      PROVE  u <= v
  <2>1. /\ left_pieces \in Seq(0..Len(lhs)) /\ right_pieces \in Seq(0..Len(rhs))
        /\ args \in Calls /\ Len(right_pieces) = pieces /\ Len(left_pieces) = pieces
    BY DEF TreeOK, TypeOK, Pieces, CutsOK, pieces
  <2>2. /\ lhs \in Seq(Int) /\ rhs \in Seq(Int) /\ SortedSpan(lhs) /\ SortedSpan(rhs)
    BY <2>1, ArgTypes
  <2>3. /\ j \in 1..pieces /\ j + 1 \in 1..pieces /\ k \in 1..pieces /\ k + 1 \in 1..pieces
        /\ j + 1 <= k
    BY <1>2, <2>1
  <2>4. \A x \in 1..pieces : left_pieces[x] \in 0..Len(lhs) /\ right_pieces[x] \in 0..Len(rhs)
    BY <2>1, ElementOfSeq
  <2>5. CutsAt(left_pieces[k], right_pieces[k])
    BY <2>3 DEF TreeOK, CutsOK
  <2>6. PICK a \in 0..Len(lhs), b \in 0..Len(rhs) :
          /\ a = left_pieces[k] /\ b = right_pieces[k] /\ CutsAt(a, b)
          /\ left_pieces[j + 1] \in 0..a /\ right_pieces[j + 1] \in 0..b
          /\ left_pieces[j] \in Nat /\ right_pieces[j] \in Nat
          /\ left_pieces[k + 1] \in 0..Len(lhs) /\ right_pieces[k + 1] \in 0..Len(rhs)
    <3>1. left_pieces[j + 1] <= left_pieces[k] /\ right_pieces[j + 1] <= right_pieces[k]
      BY <2>3 DEF TreeOK, CutsOK
    <3>2. /\ left_pieces[j + 1] \in 0..left_pieces[k] /\ right_pieces[j + 1] \in 0..right_pieces[k]
          /\ left_pieces[j] \in Nat /\ right_pieces[j] \in Nat
      BY <2>3, <2>4, <3>1
    <3>. QED
      BY <2>3, <2>4, <2>5, <3>2
  <2>7. (\E i \in 1..a : u = lhs[i]) \/ (\E i \in 1..b : u = rhs[i])
    <3>1. /\ \A i \in (left_pieces[j] + 1)..left_pieces[j + 1] : i \in 1..a
          /\ \A i \in (right_pieces[j] + 1)..right_pieces[j + 1] : i \in 1..b
      <4>1. ASSUME NEW p \in Nat, NEW c \in Int, NEW q \in 0..c
            PROVE  \A i \in (p + 1)..q : i \in 1..c
        OBVIOUS
      <4>2. a \in Int /\ b \in Int
        BY <2>1, ArgTypes
      <4>. QED
        BY <2>3, <2>6, <4>1, <4>2
    <3>2. \/ \E i \in (left_pieces[j] + 1)..left_pieces[j + 1] : u = lhs[i]
          \/ \E i \in (right_pieces[j] + 1)..right_pieces[j + 1] : u = rhs[i]
      BY DEF PieceValues
    <3>. QED
      BY <3>1, <3>2
  <2>8. (\E i \in (a + 1)..Len(lhs) : v = lhs[i]) \/ (\E i \in (b + 1)..Len(rhs) : v = rhs[i])
    BY <2>6 DEF PieceValues
  <2>9. /\ \A x \in 1..a, y \in (a + 1)..Len(lhs) : lhs[x] <= lhs[y]
        /\ \A x \in 1..b, y \in (b + 1)..Len(rhs) : rhs[x] <= rhs[y]
    <3>1. ASSUME NEW s \in Seq(Int), SortedSpan(s), NEW c \in 0..Len(s),
                 NEW x \in 1..c, NEW y \in (c + 1)..Len(s)
          PROVE  s[x] <= s[y]
      <4>1. x \in 1..Len(s) /\ y \in 1..Len(s) /\ x <= y
        OBVIOUS
      <4>. QED
        BY <3>1, <4>1 DEF SortedSpan
    <3>2. \A x \in 1..a, y \in (a + 1)..Len(lhs) : lhs[x] <= lhs[y]
      BY <2>2, <3>1
    <3>3. \A x \in 1..b, y \in (b + 1)..Len(rhs) : rhs[x] <= rhs[y]
      BY <2>2, <3>1
    <3>. QED
      BY <3>2, <3>3
  <2>10. /\ \A x \in 1..a, y \in (b + 1)..Len(rhs) : lhs[x] <= rhs[y]
         /\ \A x \in (a + 1)..Len(lhs), y \in 1..b : rhs[y] <= lhs[x]
    BY <2>6 DEF CutsAt
  <2>11. CASE \E i \in 1..a : u = lhs[i]
    BY <2>8, <2>9, <2>10, <2>11
  <2>12. CASE \E i \in 1..b : u = rhs[i]
    BY <2>8, <2>9, <2>10, <2>12
  <2>. QED
    BY <2>7, <2>11, <2>12
<1>. QED
  BY <1>1, <1>2

\* For every call, no more pieces than workers, which tile lhs and rhs with nothing in an
\* earlier piece above anything in a later one (pmergejoin.h:219-249).
THEOREM MergePiecesInOrder == Spec => []PiecesInOrder
BY MergeTree, TreeCutsInOrder, PTL

---------------------------------------------------------------------------------
(* Paths. *)

\* A prefix, element by element.
LEMMA PrefixElements ==
  ASSUME NEW s \in Seq(Nat), NEW t \in Seq(Nat)
  PROVE  IsPrefix(s, t) <=> Len(s) <= Len(t) /\ \A i \in 1..Len(s) : s[i] = t[i]
<1>1. Len(s) \in Nat /\ Len(t) \in Nat
  OBVIOUS
<1>2. SubSeq(s, 1, Len(s)) = s
  OBVIOUS
<1>3. ASSUME Len(s) <= Len(t)
      PROVE  SubSeq(t, 1, Len(s)) \in Seq(Nat) /\ Len(SubSeq(t, 1, Len(s))) = Len(s)
             /\ \A i \in 1..Len(s) : SubSeq(t, 1, Len(s))[i] = t[i]
  BY <1>1, <1>3
<1>4. ASSUME Len(s) <= Len(t), \A i \in 1..Len(s) : s[i] = t[i]
      PROVE  s = SubSeq(t, 1, Len(s))
  BY <1>1, <1>3, <1>4, SeqEqual
<1>. QED
  BY <1>1, <1>2, <1>3, <1>4 DEF IsPrefix

\* The paths above a child are its own and those above its parent.
LEMMA PrefixOfChild ==
  ASSUME NEW s \in Seq(Nat), NEW t \in Seq(Nat), NEW c \in Nat
  PROVE  IsPrefix(s, Append(t, c)) <=> s = Append(t, c) \/ IsPrefix(s, t)
<1>. DEFINE u == Append(t, c)
<1>1. /\ u \in Seq(Nat) /\ Len(u) = Len(t) + 1 /\ u[Len(t) + 1] = c
      /\ \A i \in 1..Len(t) : u[i] = t[i]
      /\ Len(s) \in Nat /\ Len(t) \in Nat
  OBVIOUS
<1>. HIDE DEF u
<1>2. ASSUME IsPrefix(s, u), s # u PROVE IsPrefix(s, t)
  <2>1. Len(s) <= Len(t) + 1 /\ \A i \in 1..Len(s) : s[i] = u[i]
    BY <1>1, <1>2, PrefixElements
  <2>2. Len(s) # Len(u)
    BY <1>1, <1>2, <2>1, SeqEqual
  <2>3. Len(s) <= Len(t)
    BY <1>1, <2>1, <2>2
  <2>4. ASSUME NEW i \in 1..Len(s) PROVE s[i] = t[i]
    <3>1. i \in 1..Len(t)
      BY <1>1, <2>3
    <3>2. u[i] = t[i] /\ s[i] = u[i]
      BY <1>1, <2>1, <3>1
    <3>. QED
      BY <3>2
  <2>. QED
    BY <2>3, <2>4, PrefixElements
<1>3. ASSUME IsPrefix(s, t) PROVE IsPrefix(s, u)
  <2>1. Len(s) <= Len(t) /\ \A i \in 1..Len(s) : s[i] = t[i]
    BY <1>3, PrefixElements
  <2>2. Len(s) <= Len(u)
    BY <1>1, <2>1
  <2>3. ASSUME NEW i \in 1..Len(s) PROVE s[i] = u[i]
    <3>1. i \in 1..Len(t)
      BY <1>1, <2>1
    <3>. QED
      BY <1>1, <2>1, <3>1
  <2>. QED
    BY <1>1, <2>2, <2>3, PrefixElements
<1>4. IsPrefix(u, u)
  BY <1>1, PrefixElements
<1>. QED
  BY <1>2, <1>3, <1>4 DEF u

\* The paths at and under a child are those under its parent that go its way.
LEMMA ChildIsPrefix ==
  ASSUME NEW s \in Seq(Nat), NEW t \in Seq(Nat), NEW c \in Nat
  PROVE  IsPrefix(Append(t, c), s) <=> IsPrefix(t, s) /\ s # t /\ s[Len(t) + 1] = c
<1>. DEFINE u == Append(t, c)
<1>1. /\ u \in Seq(Nat) /\ Len(u) = Len(t) + 1 /\ u[Len(t) + 1] = c
      /\ \A i \in 1..Len(t) : u[i] = t[i]
      /\ Len(s) \in Nat /\ Len(t) \in Nat
  OBVIOUS
<1>. HIDE DEF u
<1>2. ASSUME IsPrefix(u, s) PROVE IsPrefix(t, s) /\ s # t /\ s[Len(t) + 1] = c
  <2>1. Len(u) <= Len(s) /\ \A i \in 1..Len(u) : u[i] = s[i]
    BY <1>1, <1>2, PrefixElements
  <2>2. Len(t) < Len(s) /\ s[Len(t) + 1] = c
    BY <1>1, <2>1
  <2>3. ASSUME NEW i \in 1..Len(t) PROVE t[i] = s[i]
    <3>1. i \in 1..Len(u)
      BY <1>1
    <3>2. u[i] = t[i]
      BY <1>1
    <3>3. u[i] = s[i]
      BY <2>1, <3>1
    <3>. QED
      BY <3>2, <3>3
  <2>4. Len(t) <= Len(s) /\ s # t
    BY <1>1, <2>2
  <2>5. IsPrefix(t, s)
    BY <2>3, <2>4, PrefixElements
  <2>. QED
    BY <2>2, <2>4, <2>5
<1>3. ASSUME IsPrefix(t, s), s # t, s[Len(t) + 1] = c PROVE IsPrefix(u, s)
  <2>1. Len(t) <= Len(s) /\ \A i \in 1..Len(t) : t[i] = s[i]
    BY <1>3, PrefixElements
  <2>2. Len(t) # Len(s)
    BY <1>1, <1>3, <2>1, SeqEqual
  <2>3. Len(u) <= Len(s)
    BY <1>1, <2>1, <2>2
  <2>4. ASSUME NEW i \in 1..Len(u) PROVE u[i] = s[i]
    <3>1. i = Len(t) + 1 \/ i \in 1..Len(t)
      BY <1>1
    <3>. QED
      BY <1>1, <1>3, <2>1, <3>1
  <2>. QED
    BY <1>1, <2>3, <2>4, PrefixElements
<1>. QED
  BY <1>2, <1>3 DEF u

\* Prefixes are ordered.
LEMMA PrefixOrder ==
  /\ \A s \in Seq(Nat) : IsPrefix(s, s)
  /\ \A s, t, u \in Seq(Nat) : IsPrefix(s, t) /\ IsPrefix(t, u) => IsPrefix(s, u)
<1>1. \A s \in Seq(Nat) : IsPrefix(s, s)
  BY PrefixElements
<1>2. ASSUME NEW s \in Seq(Nat), NEW t \in Seq(Nat), NEW u \in Seq(Nat),
             IsPrefix(s, t), IsPrefix(t, u)
      PROVE  IsPrefix(s, u)
  <2>1. /\ Len(s) <= Len(t) /\ \A i \in 1..Len(s) : s[i] = t[i]
        /\ Len(t) <= Len(u) /\ \A i \in 1..Len(t) : t[i] = u[i]
        /\ Len(s) \in Nat /\ Len(t) \in Nat /\ Len(u) \in Nat
    BY <1>2, PrefixElements
  <2>2. Len(s) <= Len(u) /\ \A i \in 1..Len(s) : s[i] = u[i]
    BY <2>1
  <2>. QED
    BY <2>2, PrefixElements
<1>. QED
  BY <1>1, <1>2

\* The paths above and under a worker's.
LEMMA WorkerPath ==
  ASSUME NEW s \in Seq(Nat), s # <<>>, NEW k \in Nat
  PROVE  /\ IsPrefix(s, <<k>>) => s = <<k>>
         /\ IsPrefix(<<k>>, s) <=> s[1] = k
<1>1. Len(s) \in Nat /\ Len(s) >= 1 /\ <<k>> \in Seq(Nat) /\ Len(<<k>>) = 1 /\ <<k>>[1] = k
  OBVIOUS
<1>2. ASSUME IsPrefix(s, <<k>>) PROVE s = <<k>>
  <2>1. Len(s) <= 1 /\ \A i \in 1..Len(s) : s[i] = <<k>>[i]
    BY <1>1, <1>2, PrefixElements
  <2>2. Len(s) = 1
    BY <1>1, <2>1
  <2>. QED
    BY <1>1, <2>1, <2>2, SeqEqual
<1>3. IsPrefix(<<k>>, s) <=> s[1] = k
  <2>1. IsPrefix(<<k>>, s) <=> 1 <= Len(s) /\ \A i \in 1..1 : <<k>>[i] = s[i]
    BY <1>1, PrefixElements
  <2>. QED
    BY <1>1, <2>1
<1>. QED
  BY <1>2, <1>3

---------------------------------------------------------------------------------
(* Where a thread writes. *)

\* The positions of a thread's range, and those of its left and right half.
Cells(th) == (th.idx + 1)..(th.idx + th.l[2] + th.r[2])

HalfCells(th, c) == IF c = 0 THEN (th.idx + 1)..(th.idx + th.ldist + th.rdist)
                    ELSE (th.idx + th.ldist + th.rdist + 1)..(th.idx + th.l[2] + th.r[2])

\* The positions between two cuts.
PieceCells(k) == (left_pieces[k] + right_pieces[k] + 1)..
                 (left_pieces[k + 1] + right_pieces[k + 1])

Under(s, t) == IsPrefix(s, t) /\ s # t

\* A thread writes inside its worker's piece and inside the half each thread above it
\* gave away, and nothing is under a thread before it starts its children.
Nested ==
  /\ \A t \in DOMAIN threads : Cells(threads[t]) \subseteq PieceCells(t[1])
  /\ \A s, t \in DOMAIN threads : Under(s, t) =>
       /\ threads[s].pc \notin {"entry", "second", "spawnL"}
       /\ threads[s].pc = "spawnR" => t[Len(s) + 1] = 0
       /\ Cells(threads[t]) \subseteq HalfCells(threads[s], t[Len(s) + 1])

Apart == \A s, t \in DOMAIN threads :
           ~Related(s, t) => Cells(threads[s]) \cap Cells(threads[t]) = {}

\* A thread with both halves still ahead of it.
LEMMA HalvesSplitCells ==
  ASSUME NEW th, ThreadOK(th), args \in Calls
  PROVE  /\ HalfCells(th, 0) \subseteq Cells(th) /\ HalfCells(th, 1) \subseteq Cells(th)
         /\ HalfCells(th, 0) \cap HalfCells(th, 1) = {}
<1>1. /\ th.idx \in Nat /\ th.l[2] \in Nat /\ th.r[2] \in Nat
      /\ th.ldist \in 0..th.l[2] /\ th.rdist \in 0..th.r[2]
  BY DEF ThreadOK, ThreadState
<1>2. PICK i \in Nat, a \in Nat, b \in Nat, d \in Nat, e \in Nat :
        d <= a /\ e <= b /\ th.idx = i /\ th.l[2] = a /\ th.r[2] = b /\ th.ldist = d /\ th.rdist = e
  BY <1>1
<1>3. /\ HalfCells(th, 0) = (i + 1)..(i + d + e)
      /\ HalfCells(th, 1) = (i + d + e + 1)..(i + a + b)
      /\ Cells(th) = (i + 1)..(i + a + b)
  BY <1>2 DEF HalfCells, Cells
<1>4. ASSUME NEW x \in HalfCells(th, 0) PROVE x \in Cells(th) /\ x \notin HalfCells(th, 1)
  BY <1>2, <1>3
<1>5. ASSUME NEW x \in HalfCells(th, 1) PROVE x \in Cells(th)
  BY <1>2, <1>3
<1>. QED
  BY <1>4, <1>5

\* Each child gets one half.
LEMMA ChildCells ==
  ASSUME TreeOK, NEW t \in DOMAIN threads
  PROVE  Cells(LChild(t)) = HalfCells(threads[t], 0) /\ Cells(RChild(t)) = HalfCells(threads[t], 1)
<1>. DEFINE th == threads[t]
<1>1. /\ th.idx \in Nat /\ th.l[2] \in Nat /\ th.r[2] \in Nat
      /\ th.ldist \in 0..th.l[2] /\ th.rdist \in 0..th.r[2]
  BY OneThread DEF ThreadOK, ThreadState
<1>2. PICK i \in Nat, a \in Nat, b \in Nat, d \in Nat, e \in Nat :
        d <= a /\ e <= b /\ th.idx = i /\ th.l[2] = a /\ th.r[2] = b /\ th.ldist = d /\ th.rdist = e
  BY <1>1
<1>3. /\ LChild(t).idx = i /\ LChild(t).l[2] = d /\ LChild(t).r[2] = e
      /\ RChild(t).idx = i + d + e /\ RChild(t).l[2] = a - d /\ RChild(t).r[2] = b - e
  BY <1>2 DEF LChild, RChild, Thread
<1>4. Cells(LChild(t)) = (i + 1)..(i + d + e)
  BY <1>3 DEF Cells
<1>. HIDE DEF th
<1>5. Cells(RChild(t)) = (i + d + e + 1)..(i + a + b)
  <2>1. i + d + e + (a - d) + (b - e) = i + a + b
    BY <1>2
  <2>. QED
    BY <1>3, <2>1 DEF Cells
<1>6. HalfCells(th, 0) = (i + 1)..(i + d + e) /\ HalfCells(th, 1) = (i + d + e + 1)..(i + a + b)
  BY <1>2 DEF HalfCells
<1>. QED
  BY <1>4, <1>5, <1>6 DEF th

\* A thread without children moves on, or one with children joins them.
LEMMA MoveCells ==
  ASSUME TreeOK, Nested, Apart, NEW t \in DOMAIN threads,
         UNCHANGED <<left_pieces, right_pieces>>,
         DOMAIN threads' = DOMAIN threads,
         \A s \in DOMAIN threads \ {t} : threads'[s] = threads[s],
         /\ threads'[t].l = threads[t].l /\ threads'[t].r = threads[t].r
         /\ threads'[t].idx = threads[t].idx,
         \/ threads[t].pc \in {"entry", "second"}
         \/ /\ threads'[t].pc \in {"joinR", "exited"}
            /\ threads'[t].ldist = threads[t].ldist /\ threads'[t].rdist = threads[t].rdist
  PROVE  Nested' /\ Apart'
<1>1. \A s \in DOMAIN threads : Cells(threads'[s]) = Cells(threads[s])
  BY DEF Cells
<1>2. \A k : PieceCells(k)' = PieceCells(k)
  BY DEF PieceCells
<1>3. \A s \in DOMAIN threads' : Cells(threads'[s]) \subseteq PieceCells(s[1])'
  BY <1>1, <1>2 DEF Nested
<1>4. ASSUME NEW s \in DOMAIN threads, NEW u \in DOMAIN threads, Under(s, u)
      PROVE  /\ threads'[s].pc \notin {"entry", "second", "spawnL"}
             /\ threads'[s].pc = "spawnR" => u[Len(s) + 1] = 0
             /\ Cells(threads'[u]) \subseteq HalfCells(threads'[s], u[Len(s) + 1])
  <2>1. /\ threads[s].pc \notin {"entry", "second", "spawnL"}
        /\ threads[s].pc = "spawnR" => u[Len(s) + 1] = 0
        /\ Cells(threads[u]) \subseteq HalfCells(threads[s], u[Len(s) + 1])
    BY <1>4 DEF Nested
  <2>2. CASE s # t
    BY <1>1, <2>1, <2>2
  <2>3. CASE s = t
    <3>1. /\ threads'[t].pc \in {"joinR", "exited"}
          /\ threads'[t].ldist = threads[t].ldist /\ threads'[t].rdist = threads[t].rdist
      BY <2>1, <2>3
    <3>2. HalfCells(threads'[t], u[Len(s) + 1]) = HalfCells(threads[t], u[Len(s) + 1])
      BY <3>1 DEF HalfCells
    <3>. QED
      BY <1>1, <2>1, <2>3, <3>1, <3>2
  <2>. QED
    BY <2>2, <2>3
<1>5. Nested'
  BY <1>3, <1>4 DEF Nested, Under
<1>6. Apart'
  BY <1>1 DEF Apart, Related
<1>. QED
  BY <1>5, <1>6

\* A thread's child gets one half of its cells.
LEMMA GrowCells ==
  ASSUME TreeOK, Nested, Apart, NEW t \in DOMAIN threads, NEW c \in {0, 1}, NEW th, NEW at,
         threads[t].pc = IF c = 0 THEN "spawnL" ELSE "spawnR",
         at = IF c = 0 THEN "spawnR" ELSE "joinL",
         Cells(th) = HalfCells(threads[t], c), th.pc = "entry",
         threads' = WithThread([threads EXCEPT ![t].pc = at], Append(t, c), th),
         UNCHANGED <<left_pieces, right_pieces>>
  PROVE  Nested' /\ Apart'
<1>. DEFINE u == Append(t, c)
<1>1. /\ t \in Seq(Nat) /\ t # <<>> /\ ThreadOK(threads[t]) /\ args \in Calls
      /\ \A s \in DOMAIN threads : s \in Seq(Nat) /\ \A i \in 2..Len(s) : s[i] \in {0, 1}
  BY OneThread DEF TreeOK, TypeOK
<1>2. u \in Seq(Nat) /\ u[1] = t[1] /\ Len(t) \in Nat /\ u[Len(t) + 1] = c
      /\ \A i \in 1..Len(t) : u[i] = t[i]
  BY <1>1
<1>3. /\ \A s \in Seq(Nat) : IsPrefix(s, u) <=> s = u \/ IsPrefix(s, t)
      /\ \A s \in Seq(Nat) : IsPrefix(u, s) <=> Under(t, s) /\ s[Len(t) + 1] = c
  BY <1>1, PrefixOfChild, ChildIsPrefix DEF Under
<1>4. IsPrefix(t, t)
  BY <1>1, PrefixOrder
<1>5. u # t /\ IsPrefix(t, u)
  BY <1>1, <1>2, <1>3, <1>4
<1>. HIDE DEF u
<1>6. ASSUME NEW s \in DOMAIN threads PROVE ~IsPrefix(u, s)
  <2>1. CASE c = 0
    BY <1>1, <1>3, <2>1 DEF Nested
  <2>2. CASE c = 1
    BY <1>1, <1>3, <2>2 DEF Nested
  <2>. QED
    BY <2>1, <2>2
<1>7. u \notin DOMAIN threads
  <2>1. IsPrefix(u, u)
    BY <1>2, PrefixOrder
  <2>. QED
    BY <1>6, <2>1
<1>8. /\ DOMAIN threads' = DOMAIN threads \cup {u}
      /\ threads'[u] = th
      /\ \A s \in DOMAIN threads :
           threads'[s] = IF s = t THEN [threads[t] EXCEPT !.pc = at] ELSE threads[s]
  BY <1>7 DEF WithThread, u
<1>9. /\ threads'[t].pc = at
      /\ \A s \in DOMAIN threads \ {t} : threads'[s].pc = threads[s].pc
      /\ \A s \in DOMAIN threads : /\ Cells(threads'[s]) = Cells(threads[s])
                                   /\ \A d : HalfCells(threads'[s], d) = HalfCells(threads[s], d)
  <2>1. threads[t] \in ThreadState
    BY <1>1 DEF ThreadOK
  <2>2. /\ threads'[t].pc = at
        /\ threads'[t].l = threads[t].l /\ threads'[t].r = threads[t].r
        /\ threads'[t].idx = threads[t].idx
        /\ threads'[t].ldist = threads[t].ldist /\ threads'[t].rdist = threads[t].rdist
    BY <1>8, <2>1 DEF ThreadState
  <2>3. \A s \in DOMAIN threads \ {t} : threads'[s] = threads[s]
    BY <1>8
  <2>4. Cells(threads'[t]) = Cells(threads[t])
    BY <2>2 DEF Cells
  <2>5. ASSUME NEW d PROVE HalfCells(threads'[t], d) = HalfCells(threads[t], d)
    BY <2>2 DEF HalfCells
  <2>. QED
    BY <2>2, <2>3, <2>4, <2>5
<1>10. Cells(threads'[u]) = HalfCells(threads[t], c) /\ HalfCells(threads[t], c) \subseteq Cells(threads[t])
  BY <1>1, <1>8, HalvesSplitCells
<1>11. \A k : PieceCells(k)' = PieceCells(k)
  BY DEF PieceCells
<1>12. ASSUME NEW s \in DOMAIN threads' PROVE Cells(threads'[s]) \subseteq PieceCells(s[1])'
  <2>1. CASE s = u
    BY <1>2, <1>10, <1>11, <2>1 DEF Nested
  <2>2. CASE s \in DOMAIN threads
    BY <1>9, <1>11, <2>2 DEF Nested
  <2>. QED
    BY <1>8, <2>1, <2>2
<1>13. ASSUME NEW s \in DOMAIN threads', NEW v \in DOMAIN threads', Under(s, v)
       PROVE  /\ threads'[s].pc \notin {"entry", "second", "spawnL"}
              /\ threads'[s].pc = "spawnR" => v[Len(s) + 1] = 0
              /\ Cells(threads'[v]) \subseteq HalfCells(threads'[s], v[Len(s) + 1])
  <2>1. s # u
    BY <1>6, <1>8, <1>13 DEF Under
  <2>2. s \in DOMAIN threads
    BY <1>8, <2>1
  <2>3. CASE v \in DOMAIN threads
    <3>1. /\ threads[s].pc \notin {"entry", "second", "spawnL"}
          /\ threads[s].pc = "spawnR" => v[Len(s) + 1] = 0
          /\ Cells(threads[v]) \subseteq HalfCells(threads[s], v[Len(s) + 1])
      BY <1>13, <2>2, <2>3 DEF Nested
    <3>2. CASE s = t
      <4>1. c = 1 /\ at = "joinL"
        BY <3>1, <3>2
      <4>. QED
        BY <1>9, <2>2, <2>3, <3>1, <3>2, <4>1
    <3>3. CASE s # t
      BY <1>9, <2>2, <2>3, <3>1, <3>3
    <3>. QED
      BY <3>2, <3>3
  <2>4. CASE v = u /\ s = t
    <3>1. threads'[t].pc \notin {"entry", "second", "spawnL"} /\ (at = "spawnR" => c = 0)
      BY <1>9
    <3>. QED
      BY <1>2, <1>9, <1>10, <2>4, <3>1
  <2>5. CASE v = u /\ s # t
    <3>1. Under(s, t)
      BY <1>1, <1>3, <1>13, <2>1, <2>2, <2>5 DEF Under
    <3>2. /\ threads[s].pc \notin {"entry", "second", "spawnL"}
          /\ threads[s].pc = "spawnR" => t[Len(s) + 1] = 0
          /\ Cells(threads[t]) \subseteq HalfCells(threads[s], t[Len(s) + 1])
      BY <2>2, <3>1 DEF Nested
    <3>3. u[Len(s) + 1] = t[Len(s) + 1]
      <4>1. Len(s) \in Nat /\ Len(s) <= Len(t) /\ Len(s) # Len(t)
        <5>1. Len(s) <= Len(t) /\ \A i \in 1..Len(s) : s[i] = t[i]
          BY <1>1, <2>2, <3>1, PrefixElements DEF Under
        <5>2. s \in Seq(Nat)
          BY <1>1, <2>2
        <5>. QED
          BY <1>1, <2>5, <5>1, <5>2, SeqEqual
      <4>2. Len(s) + 1 \in 1..Len(t)
        BY <1>2, <4>1
      <4>. QED
        BY <1>2, <4>2
    <3>. QED
      BY <1>9, <1>10, <2>2, <2>5, <3>2, <3>3
  <2>. QED
    BY <1>8, <2>3, <2>4, <2>5
<1>14. Nested'
  BY <1>12, <1>13 DEF Nested, Under
<1>15. ASSUME NEW s \in DOMAIN threads, ~Related(s, u)
       PROVE  Cells(threads[s]) \cap HalfCells(threads[t], c) = {}
  <2>1. s # t /\ ~IsPrefix(s, t) /\ ~IsPrefix(u, s)
    BY <1>1, <1>3, <1>5, <1>15 DEF Related
  <2>2. CASE IsPrefix(t, s)
    <3>1. Under(t, s) /\ s[Len(t) + 1] # c
      BY <1>1, <1>3, <2>1, <2>2 DEF Under
    <3>2. Cells(threads[s]) \subseteq HalfCells(threads[t], s[Len(t) + 1])
      BY <3>1 DEF Nested
    <3>3. s[Len(t) + 1] \in {0, 1}
      <4>1. Len(t) <= Len(s) /\ \A i \in 1..Len(t) : t[i] = s[i]
        BY <1>1, <2>2, PrefixElements
      <4>2. Len(t) # Len(s)
        BY <1>1, <2>1, <4>1, SeqEqual
      <4>3. s \in Seq(Nat) /\ Len(t) >= 1
        BY <1>1
      <4>4. Len(t) + 1 \in 2..Len(s)
        BY <1>2, <4>1, <4>2, <4>3
      <4>. QED
        BY <1>1, <4>4
    <3>4. HalfCells(threads[t], 0) \cap HalfCells(threads[t], 1) = {}
      BY <1>1, HalvesSplitCells
    <3>. QED
      BY <3>1, <3>2, <3>3, <3>4
  <2>3. CASE ~IsPrefix(t, s)
    <3>1. Cells(threads[s]) \cap Cells(threads[t]) = {}
      BY <2>1, <2>3 DEF Apart, Related
    <3>. QED
      BY <1>10, <3>1
  <2>. QED
    BY <2>2, <2>3
<1>16. ASSUME NEW s \in DOMAIN threads', NEW v \in DOMAIN threads', ~Related(s, v)
       PROVE  Cells(threads'[s]) \cap Cells(threads'[v]) = {}
  <2>1. ~(s = u /\ v = u)
    BY <1>2, <1>16, PrefixOrder DEF Related
  <2>2. CASE s = u
    <3>1. v \in DOMAIN threads /\ ~Related(v, u)
      BY <1>8, <1>16, <2>1, <2>2 DEF Related
    <3>. QED
      BY <1>9, <1>10, <1>15, <2>2, <3>1
  <2>3. CASE v = u
    <3>1. s \in DOMAIN threads
      BY <1>8, <2>1, <2>3
    <3>. QED
      BY <1>9, <1>10, <1>15, <1>16, <2>3, <3>1
  <2>4. CASE s # u /\ v # u
    <3>1. s \in DOMAIN threads /\ v \in DOMAIN threads
      BY <1>8, <2>4
    <3>. QED
      BY <1>9, <1>16, <3>1 DEF Apart
  <2>. QED
    BY <2>2, <2>3, <2>4
<1>17. Apart'
  BY <1>16 DEF Apart, Related
<1>. QED
  BY <1>14, <1>17

\* The cells of a piece lie in res, those of an earlier piece before them.
LEMMA PieceCellsApart ==
  ASSUME TreeOK, NEW j \in 1..(pieces - 1), NEW k \in 1..(pieces - 1), j < k
  PROVE  PieceCells(j) \cap PieceCells(k) = {}
<1>1. /\ left_pieces \in Seq(0..Len(lhs)) /\ right_pieces \in Seq(0..Len(rhs))
      /\ args \in Calls /\ Len(right_pieces) = pieces /\ Len(left_pieces) = pieces
  BY DEF TreeOK, TypeOK, Pieces, CutsOK, pieces
<1>2. j + 1 \in 1..pieces /\ k \in 1..pieces /\ j + 1 <= k
  BY <1>1
<1>3. \A x \in 1..pieces : left_pieces[x] \in 0..Len(lhs) /\ right_pieces[x] \in 0..Len(rhs)
  BY <1>1, ElementOfSeq
<1>4. left_pieces[j + 1] <= left_pieces[k] /\ right_pieces[j + 1] <= right_pieces[k]
  BY <1>2 DEF TreeOK, CutsOK
<1>5. /\ left_pieces[j + 1] \in Nat /\ right_pieces[j + 1] \in Nat
      /\ left_pieces[k] \in Nat /\ right_pieces[k] \in Nat
  BY <1>2, <1>3
<1>6. left_pieces[j + 1] + right_pieces[j + 1] <= left_pieces[k] + right_pieces[k]
  BY <1>4, <1>5
<1>7. PICK a \in Nat, b \in Nat : /\ a = left_pieces[j + 1] + right_pieces[j + 1]
                                  /\ b = left_pieces[k] + right_pieces[k] /\ a <= b
  BY <1>5, <1>6
<1>8. ASSUME NEW x \in PieceCells(j), NEW y \in PieceCells(k) PROVE x # y
  <2>1. x \in Int /\ x <= a
    BY <1>7 DEF PieceCells
  <2>2. y \in Int /\ b + 1 <= y
    BY <1>7 DEF PieceCells
  <2>. QED
    BY <1>7, <2>1, <2>2
<1>. QED
  BY <1>8

\* A worker gets the cells of its piece.
LEMMA WorkerCells ==
  ASSUME TreeOK, Nested, Apart, SpawnWorker
  PROVE  Nested' /\ Apart'
<1>. DEFINE k == started + 1
            u == <<k>>
<1>1. /\ started < pieces - 1
      /\ threads' = WithThread(threads, u, Worker(k))
      /\ UNCHANGED <<left_pieces, right_pieces>>
  BY DEF SpawnWorker, pieces, split
<1>2. /\ started \in Nat /\ pieces \in Nat /\ k \in 1..(pieces - 1)
  <2>1. args \in Calls /\ left_pieces \in Pieces(lhs) /\ started \in 0..Len(left_pieces)
    BY DEF TreeOK, TypeOK
  <2>2. Len(left_pieces) \in Nat
    BY <2>1 DEF Pieces
  <2>. QED
    BY <1>1, <2>1, <2>2 DEF pieces
<1>3. \A s \in DOMAIN threads : s \in Seq(Nat) /\ s # <<>> /\ s[1] \in 1..started
  BY OneThread
<1>4. Cells(Worker(k)) = PieceCells(k)
  <2>1. /\ left_pieces \in Seq(0..Len(lhs)) /\ right_pieces \in Seq(0..Len(rhs))
        /\ args \in Calls /\ Len(right_pieces) = pieces /\ Len(left_pieces) = pieces
    BY DEF TreeOK, TypeOK, Pieces, CutsOK, pieces
  <2>2. k \in 1..pieces /\ k + 1 \in 1..pieces
    BY <1>2
  <2>3. /\ left_pieces[k] \in Nat /\ right_pieces[k] \in Nat
        /\ left_pieces[k + 1] \in Nat /\ right_pieces[k + 1] \in Nat
    BY <2>1, <2>2, ElementOfSeq
  <2>. HIDE DEF k
  <2>4. /\ Worker(k).idx = left_pieces[k] + right_pieces[k]
        /\ Worker(k).l[2] = left_pieces[k + 1] - left_pieces[k]
        /\ Worker(k).r[2] = right_pieces[k + 1] - right_pieces[k]
    BY DEF Worker, Thread, Piece
  <2>5. PICK a \in Nat, b \in Nat, d \in Nat, e \in Nat :
          /\ a = left_pieces[k] /\ b = left_pieces[k + 1]
          /\ d = right_pieces[k] /\ e = right_pieces[k + 1]
    BY <2>3
  <2>6. a + d + (b - a) + (e - d) = b + e
    OBVIOUS
  <2>. QED
    BY <2>4, <2>5, <2>6 DEF Cells, PieceCells
<1>5. \A s \in DOMAIN threads : s[1] # k
  BY <1>2, <1>3
<1>6. u \in Seq(Nat) /\ u[1] = k /\ IsPrefix(u, u)
  <2>1. u \in Seq(Nat) /\ u[1] = k
    BY <1>2
  <2>. QED
    BY <2>1, PrefixOrder
<1>7. ASSUME NEW s \in DOMAIN threads PROVE ~IsPrefix(u, s) /\ ~IsPrefix(s, u)
  <2>1. s \in Seq(Nat) /\ s # <<>> /\ k \in Nat /\ s[1] # k
    BY <1>2, <1>3, <1>5
  <2>2. (IsPrefix(s, u) => s = u) /\ (IsPrefix(u, s) <=> s[1] = k)
    BY <2>1, WorkerPath
  <2>. QED
    BY <1>6, <2>1, <2>2
<1>. HIDE DEF u, k
<1>8. /\ u \notin DOMAIN threads
      /\ DOMAIN threads' = DOMAIN threads \cup {u}
      /\ threads'[u] = Worker(k)
      /\ \A s \in DOMAIN threads : threads'[s] = threads[s]
  BY <1>1, <1>5, <1>6 DEF WithThread
<1>9. \A j : PieceCells(j)' = PieceCells(j)
  BY <1>1 DEF PieceCells
<1>10. Nested'
  <2>1. ASSUME NEW s \in DOMAIN threads' PROVE Cells(threads'[s]) \subseteq PieceCells(s[1])'
    BY <1>4, <1>6, <1>8, <1>9 DEF Nested
  <2>2. ASSUME NEW s \in DOMAIN threads', NEW v \in DOMAIN threads', Under(s, v)
        PROVE  s \in DOMAIN threads /\ v \in DOMAIN threads
    BY <1>7, <1>8, <2>2 DEF Under
  <2>. QED
    BY <1>8, <2>1, <2>2 DEF Nested, Under
<1>11. ASSUME NEW s \in DOMAIN threads
       PROVE  Cells(threads[s]) \cap PieceCells(k) = {}
  <2>1. s[1] \in 1..(pieces - 1) /\ s[1] < k
    BY <1>2, <1>3 DEF k
  <2>2. PieceCells(s[1]) \cap PieceCells(k) = {}
    BY <1>2, <2>1, PieceCellsApart
  <2>. QED
    BY <2>2 DEF Nested
<1>12. Apart'
  BY <1>4, <1>6, <1>8, <1>11 DEF Apart, Related
<1>. QED
  BY <1>10, <1>12

\* What Goto leaves of a thread.
LEMMA GotoThread ==
  ASSUME TreeOK, NEW t \in DOMAIN threads, NEW at, Goto(t, at)
  PROVE  /\ DOMAIN threads' = DOMAIN threads
         /\ \A s \in DOMAIN threads \ {t} : threads'[s] = threads[s]
         /\ threads'[t].l = threads[t].l /\ threads'[t].r = threads[t].r
         /\ threads'[t].idx = threads[t].idx
         /\ threads'[t].ldist = threads[t].ldist /\ threads'[t].rdist = threads[t].rdist
         /\ threads'[t].pc = at
<1>1. threads[t] \in ThreadState
  BY OneThread DEF ThreadOK
<1>2. /\ DOMAIN threads' = DOMAIN threads
      /\ \A s \in DOMAIN threads \ {t} : threads'[s] = threads[s]
      /\ threads'[t] = [threads[t] EXCEPT !.pc = at]
  BY DEF Goto
<1>. QED
  BY <1>1, <1>2 DEF ThreadState

\* No step makes two threads that run side by side share a cell.
LEMMA NextCells ==
  ASSUME TreeOK, Nested, Apart, [Next]_vars
  PROVE  Nested' /\ Apart'
<1>1. ASSUME UNCHANGED <<threads, left_pieces, right_pieces>> PROVE Nested' /\ Apart'
  BY <1>1 DEF Nested, Apart, PieceCells
<1>2. ASSUME DOMAIN threads = {}, threads' = threads PROVE Nested' /\ Apart'
  BY <1>2 DEF Nested, Apart
<1>3. CASE UNCHANGED vars
  <2>1. UNCHANGED <<threads, left_pieces, right_pieces>>
    BY <1>3 DEF vars, split
  <2>. QED
    BY <1>1, <2>1
<1>4. CASE ReturnOtherSide \/ Enter \/ SplitStep \/ SplitEnd
  <2>1. pc \in {"called", "split"} /\ threads' = threads
    BY <1>4 DEF ReturnOtherSide, Enter, SplitStep, SplitEnd
  <2>. QED
    BY <1>2, <2>1 DEF TreeOK, CallOK
<1>5. CASE SpawnWorker
  BY <1>5, WorkerCells
<1>6. CASE SpawnWorkerFails \/ SpawnEnd \/ JoinWorker \/ Return
  BY <1>1, <1>6 DEF SpawnWorkerFails, Abort, SpawnEnd, JoinWorker, Return, split
<1>7. ASSUME NEW t \in DOMAIN threads, HighPref_Merge(t) PROVE Nested' /\ Apart'
  <2>1. CASE StoreFirst(t) \/ StoreSecond(t) \/ StoreOnly(t)
    <3>1. /\ threads[t].pc \in {"entry", "second"}
          /\ \E at : Goto(t, at)
          /\ UNCHANGED <<left_pieces, right_pieces>>
      BY <2>1 DEF StoreFirst, StoreSecond, StoreOnly, Runs, caller, split
    <3>. QED
      BY <3>1, GotoThread, MoveCells
  <2>2. CASE Divide(t)
    <3>1. threads[t] \in ThreadState
      BY OneThread DEF ThreadOK
    <3>2. PICK ld, rd :
            threads' = [threads EXCEPT ![t].pc = "spawnL", ![t].ldist = ld, ![t].rdist = rd]
      BY <2>2 DEF Divide
    <3>3. /\ DOMAIN threads' = DOMAIN threads
          /\ \A s \in DOMAIN threads \ {t} : threads'[s] = threads[s]
          /\ threads'[t] = [threads[t] EXCEPT !.pc = "spawnL", !.ldist = ld, !.rdist = rd]
      BY <3>2
    <3>4. /\ threads'[t].l = threads[t].l /\ threads'[t].r = threads[t].r
          /\ threads'[t].idx = threads[t].idx
      BY <3>1, <3>3 DEF ThreadState
    <3>5. threads[t].pc = "entry" /\ UNCHANGED <<left_pieces, right_pieces>>
      BY <2>2 DEF Divide, Searches, Runs, caller, split
    <3>. QED
      BY <3>3, <3>4, <3>5, MoveCells
  <2>3. CASE MedianThrows(t) \/ SpawnFails(t)
    BY <1>1, <2>3 DEF MedianThrows, SpawnFails, Abort, split
  <2>4. CASE MedianSpins(t)
    BY <1>1, <2>4 DEF MedianSpins, vars, split
  <2>5. CASE SpawnL(t)
    <3>1. /\ threads[t].pc = "spawnL" /\ UNCHANGED <<left_pieces, right_pieces>>
          /\ threads' = WithThread([threads EXCEPT ![t].pc = "spawnR"], Append(t, 0), LChild(t))
      BY <2>5 DEF SpawnL, Runs, caller, split
    <3>2. Cells(LChild(t)) = HalfCells(threads[t], 0) /\ LChild(t).pc = "entry"
      BY ChildCells, ChildrenOK
    <3>. QED
      BY <3>1, <3>2, GrowCells
  <2>6. CASE SpawnR(t)
    <3>1. /\ threads[t].pc = "spawnR" /\ UNCHANGED <<left_pieces, right_pieces>>
          /\ threads' = WithThread([threads EXCEPT ![t].pc = "joinL"], Append(t, 1), RChild(t))
      BY <2>6 DEF SpawnR, Runs, caller, split
    <3>2. Cells(RChild(t)) = HalfCells(threads[t], 1) /\ RChild(t).pc = "entry"
      BY ChildCells, ChildrenOK
    <3>. QED
      BY <3>1, <3>2, GrowCells
  <2>7. CASE JoinL(t) \/ JoinR(t)
    <3>1. PICK at \in {"joinR", "exited"} : Goto(t, at)
      BY <2>7 DEF JoinL, JoinR
    <3>2. UNCHANGED <<left_pieces, right_pieces>>
      BY <2>7 DEF JoinL, JoinR, caller, split
    <3>. QED
      BY <3>1, <3>2, GotoThread, MoveCells
  <2>. QED
    BY <1>7, <2>1, <2>2, <2>3, <2>4, <2>5, <2>6, <2>7 DEF HighPref_Merge
<1>. QED
  BY <1>3, <1>4, <1>5, <1>6, <1>7 DEF Next, Caller, Over

\* A thread's cells are cells of res.
LEMMA CellsInRes ==
  ASSUME TreeOK, NEW t \in DOMAIN threads
  PROVE  Cells(threads[t]) \subseteq DOMAIN res
<1>1. /\ Len(res) = z_val /\ res \in Seq(MinT..MaxT \cup {Unwritten})
      /\ args \in Calls /\ ThreadOK(threads[t])
  BY OneThread DEF TreeOK, TypeOK, CallOK
<1>2. /\ Len(lhs) \in Nat /\ Len(rhs) \in Nat
      /\ threads[t].l \in Ranges(lhs) /\ threads[t].r \in Ranges(rhs)
      /\ threads[t].idx = threads[t].l[1] + threads[t].r[1]
  BY <1>1, ArgTypes DEF ThreadOK
<1>3. PICK a \in Nat, b \in Nat, d \in Nat, e \in Nat :
        /\ a = threads[t].l[1] /\ b = threads[t].l[2] /\ d = threads[t].r[1] /\ e = threads[t].r[2]
        /\ a + b <= Len(lhs) /\ d + e <= Len(rhs)
  <2>1. /\ threads[t].l[1] \in Nat /\ threads[t].l[2] \in Nat
        /\ threads[t].l[1] + threads[t].l[2] <= Len(lhs)
        /\ threads[t].r[1] \in Nat /\ threads[t].r[2] \in Nat
        /\ threads[t].r[1] + threads[t].r[2] <= Len(rhs)
    BY <1>2 DEF Ranges
  <2>. QED
    BY <2>1
<1>4. DOMAIN res = 1..(Len(lhs) + Len(rhs))
  BY <1>1 DEF z_val
<1>5. ASSUME NEW x \in (a + d + 1)..(a + d + b + e) PROVE x \in 1..(Len(lhs) + Len(rhs))
  <2>1. PICK m \in Nat, n \in Nat : m = Len(lhs) /\ n = Len(rhs)
    BY <1>2
  <2>2. a + b <= m /\ d + e <= n
    BY <1>3, <2>1
  <2>3. x \in 1..(m + n)
    BY <2>2
  <2>. QED
    BY <2>1, <2>3
<1>6. Cells(threads[t]) = (a + d + 1)..(a + d + b + e)
  BY <1>2, <1>3 DEF Cells
<1>. QED
  BY <1>4, <1>5, <1>6

\* For every call and every schedule, threads that run side by side, whatever their depth
\* and worker, write disjoint positions of res, all of them inside it
\* (pmergejoin.h:186-194, 259-262).
THEOREM MergeRaceFree == Spec => []RaceFree
<1>1. Init => Nested /\ Apart
  <2>1. Init => DOMAIN threads = {}
    BY DEF Init
  <2>. QED
    BY <2>1 DEF Nested, Apart
<1>2. TreeOK /\ Nested /\ Apart /\ [Next]_vars => (Nested /\ Apart)'
  BY NextCells
<1>3. TreeOK /\ Apart => RaceFree
  <2>1. \A t \in DOMAIN threads : Region(t) = Cells(threads[t])
    BY DEF Region, Cells
  <2>. QED
    BY <2>1, CellsInRes DEF Apart, RaceFree
<1>. QED
  BY <1>1, <1>2, <1>3, MergeTree, PTL DEF Spec

---------------------------------------------------------------------------------
(* Who outlives whom. *)

\* All threads that were joined, and all below a thread that exited or whose parent has
\* joined it, have exited.
Exits ==
  /\ \A s, t \in DOMAIN threads :
       /\ threads[s].pc = "exited" /\ IsPrefix(s, t) => threads[t].pc = "exited"
       /\ threads[s].pc = "joinR" /\ IsPrefix(Append(s, 0), t) => threads[t].pc = "exited"
  /\ \A t \in DOMAIN threads : t[1] <= joined => threads[t].pc = "exited"
  /\ pc = "done" => \A t \in DOMAIN threads : threads[t].pc = "exited"

\* A thread that has not exited moves on; it exits with nothing left under it.
LEMMA MoveExits ==
  ASSUME TreeOK, Nested, Exits, NEW t \in DOMAIN threads, threads[t].pc # "exited",
         UNCHANGED <<pc, joined>>,
         DOMAIN threads' = DOMAIN threads,
         \A s \in DOMAIN threads \ {t} : threads'[s] = threads[s],
         \/ threads[t].pc \in {"entry", "second"} /\ threads'[t].pc # "joinR"
         \/ /\ threads[t].pc = "joinL" /\ threads'[t].pc = "joinR"
            /\ threads[Append(t, 0)].pc = "exited"
         \/ /\ threads[t].pc = "joinR" /\ threads'[t].pc = "exited"
            /\ threads[Append(t, 1)].pc = "exited"
  PROVE  Exits'
<1>1. /\ t \in Seq(Nat) /\ t # <<>>
      /\ threads[t].pc \in {"joinL", "joinR"} =>
           Append(t, 0) \in DOMAIN threads /\ Append(t, 1) \in DOMAIN threads
      /\ \A s \in DOMAIN threads : s \in Seq(Nat) /\ \A i \in 2..Len(s) : s[i] \in {0, 1}
  BY OneThread
<1>2. \A s \in DOMAIN threads : /\ s # t => threads'[s].pc = threads[s].pc
                                /\ threads[s].pc = "exited" => threads'[s].pc = "exited"
  OBVIOUS
<1>3. ASSUME NEW s \in DOMAIN threads, NEW u \in DOMAIN threads,
             threads'[s].pc = "exited", IsPrefix(s, u)
      PROVE  threads'[u].pc = "exited"
  <2>1. CASE s # t
    BY <1>2, <1>3, <2>1 DEF Exits
  <2>2. CASE s = t /\ u = t
    BY <1>3, <2>2
  <2>3. CASE s = t /\ u # t
    <3>1. threads[t].pc \notin {"entry", "second"}
      BY <1>3, <2>3 DEF Nested, Under
    <3>2. /\ threads[t].pc = "joinR" /\ threads[Append(t, 1)].pc = "exited"
          /\ Append(t, 1) \in DOMAIN threads
      BY <1>1, <1>3, <2>3, <3>1
    <3>3. u[Len(t) + 1] \in {0, 1}
      <4>1. Len(t) <= Len(u) /\ \A i \in 1..Len(t) : t[i] = u[i]
        BY <1>1, <1>3, <2>3, PrefixElements
      <4>2. Len(t) # Len(u)
        BY <1>1, <2>3, <4>1, SeqEqual
      <4>3. Len(t) \in Nat /\ Len(t) >= 1 /\ Len(u) \in Nat
        BY <1>1
      <4>4. Len(t) + 1 \in 2..Len(u)
        BY <4>1, <4>2, <4>3
      <4>. QED
        BY <1>1, <4>4
    <3>4. IsPrefix(Append(t, 0), u) \/ IsPrefix(Append(t, 1), u)
      BY <1>1, <1>3, <2>3, <3>3, ChildIsPrefix
    <3>5. threads[u].pc = "exited"
      BY <3>2, <3>4 DEF Exits
    <3>. QED
      BY <1>2, <3>5
  <2>. QED
    BY <2>1, <2>2, <2>3
<1>4. ASSUME NEW s \in DOMAIN threads, NEW u \in DOMAIN threads,
             threads'[s].pc = "joinR", IsPrefix(Append(s, 0), u)
      PROVE  threads'[u].pc = "exited"
  <2>1. CASE s # t
    BY <1>2, <1>4, <2>1 DEF Exits
  <2>2. CASE s = t
    <3>1. Under(t, u)
      BY <1>1, <1>4, <2>2, ChildIsPrefix DEF Under
    <3>2. threads[t].pc = "joinL" /\ threads[Append(t, 0)].pc = "exited"
          /\ Append(t, 0) \in DOMAIN threads
      BY <1>1, <1>4, <2>2, <3>1 DEF Nested
    <3>3. threads[u].pc = "exited"
      BY <1>4, <2>2, <3>2 DEF Exits
    <3>. QED
      BY <1>2, <3>3
  <2>. QED
    BY <2>1, <2>2
<1>5. \A s \in DOMAIN threads : s[1] <= joined' => threads'[s].pc = "exited"
  BY <1>2 DEF Exits
<1>6. pc' = "done" => \A s \in DOMAIN threads : threads'[s].pc = "exited"
  BY <1>2 DEF Exits
<1>. QED
  BY <1>3, <1>4, <1>5, <1>6 DEF Exits

\* A thread that has not exited starts a child.
LEMMA GrowExits ==
  ASSUME TreeOK, Exits, NEW t \in DOMAIN threads, NEW c \in {0, 1}, NEW th, NEW at,
         threads[t].pc # "exited", at \in {"spawnR", "joinL"}, th.pc = "entry",
         Append(t, c) \notin DOMAIN threads,
         threads' = WithThread([threads EXCEPT ![t].pc = at], Append(t, c), th),
         UNCHANGED <<pc, joined>>
  PROVE  Exits'
<1>. DEFINE u == Append(t, c)
<1>1. /\ t \in Seq(Nat) /\ t # <<>> /\ threads[t] \in ThreadState
      /\ \A s \in DOMAIN threads : s \in Seq(Nat)
  BY OneThread DEF ThreadOK
<1>2. u \in Seq(Nat) /\ u[1] = t[1]
  BY <1>1
<1>3. /\ \A s \in Seq(Nat) : IsPrefix(s, u) <=> s = u \/ IsPrefix(s, t)
      /\ \A s \in Seq(Nat), d \in Nat : IsPrefix(Append(s, d), s) => FALSE
      /\ IsPrefix(t, t)
  <2>1. \A s \in Seq(Nat) : IsPrefix(s, u) <=> s = u \/ IsPrefix(s, t)
    BY <1>1, PrefixOfChild
  <2>2. \A s \in Seq(Nat), d \in Nat : IsPrefix(Append(s, d), s) => FALSE
    BY ChildIsPrefix
  <2>. QED
    BY <1>1, <2>1, <2>2, PrefixOrder
<1>. HIDE DEF u
<1>4. /\ DOMAIN threads' = DOMAIN threads \cup {u}
      /\ threads'[u].pc = "entry" /\ threads'[t].pc = at
      /\ \A s \in DOMAIN threads \ {t} : threads'[s] = threads[s]
  <2>1. /\ DOMAIN threads' = DOMAIN threads \cup {u}
        /\ threads'[u] = th
        /\ \A s \in DOMAIN threads :
             threads'[s] = IF s = t THEN [threads[t] EXCEPT !.pc = at] ELSE threads[s]
    BY DEF WithThread, u
  <2>. QED
    BY <1>1, <2>1 DEF ThreadState
<1>5. pc # "done" /\ ~(t[1] <= joined)
  BY DEF Exits
<1>6. \A s \in DOMAIN threads : threads[s].pc = "exited" => ~IsPrefix(s, t)
  BY DEF Exits
<1>7. ASSUME NEW s \in DOMAIN threads', threads'[s].pc = "exited"
      PROVE  s \in DOMAIN threads /\ threads[s].pc = "exited" /\ s # t /\ ~IsPrefix(s, u)
  <2>1. s \in DOMAIN threads /\ threads[s].pc = "exited" /\ s # t
    BY <1>4, <1>7
  <2>2. s # u
    BY <1>4, <1>7
  <2>. QED
    BY <1>1, <1>3, <1>6, <2>1, <2>2
<1>8. ASSUME NEW s \in DOMAIN threads', threads'[s].pc = "joinR", NEW v \in DOMAIN threads',
             IsPrefix(Append(s, 0), v)
      PROVE  threads'[v].pc = "exited"
  <2>1. s \in DOMAIN threads /\ threads[s].pc = "joinR" /\ s # t /\ s \in Seq(Nat)
    BY <1>1, <1>4, <1>8
  <2>2. CASE v \in DOMAIN threads
    <3>1. threads[v].pc = "exited"
      BY <1>8, <2>1, <2>2 DEF Exits
    <3>. QED
      BY <1>4, <2>2, <3>1
  <2>3. CASE v = u
    <3>1. Append(s, 0) \in Seq(Nat) /\ (Append(s, 0) = u => s = t)
      <4>1. ASSUME Append(s, 0) = u PROVE s = t
        <5>1. Len(s) = Len(t) /\ \A i \in 1..Len(s) : s[i] = t[i]
          <6>1. Len(Append(s, 0)) = Len(s) + 1 /\ Len(Append(t, c)) = Len(t) + 1
                /\ Len(s) \in Nat /\ Len(t) \in Nat
            BY <1>1, <2>1
          <6>2. \A i \in 1..Len(s) : Append(s, 0)[i] = s[i]
            BY <2>1
          <6>3. \A i \in 1..Len(t) : Append(t, c)[i] = t[i]
            BY <1>1
          <6>4. Len(s) = Len(t)
            BY <4>1, <6>1 DEF u
          <6>. QED
            BY <4>1, <6>2, <6>3, <6>4 DEF u
        <5>. QED
          BY <1>1, <2>1, <5>1, SeqEqual
      <4>. QED
        BY <2>1, <4>1
    <3>2. IsPrefix(Append(s, 0), t)
      BY <1>3, <1>8, <2>1, <2>3, <3>1
    <3>. QED
      BY <2>1, <3>2 DEF Exits
  <2>. QED
    BY <1>4, <2>2, <2>3
<1>9. ASSUME NEW s \in DOMAIN threads', s[1] <= joined'
      PROVE  threads'[s].pc = "exited"
  <2>1. s # u /\ s # t
    BY <1>2, <1>5, <1>9
  <2>. QED
    BY <1>4, <1>9, <2>1 DEF Exits
<1>10. ASSUME NEW s \in DOMAIN threads', threads'[s].pc = "exited", NEW v \in DOMAIN threads',
              IsPrefix(s, v)
       PROVE  threads'[v].pc = "exited"
  <2>1. v # u /\ s \in DOMAIN threads /\ threads[s].pc = "exited"
    BY <1>7, <1>10
  <2>2. v \in DOMAIN threads /\ threads[v].pc = "exited"
    BY <1>4, <1>10, <2>1 DEF Exits
  <2>. QED
    BY <1>4, <2>1, <2>2
<1>. QED
  BY <1>5, <1>8, <1>9, <1>10 DEF Exits

\* Starting a worker and joining one.
LEMMA CallerExits ==
  ASSUME TreeOK, Exits, Caller
  PROVE  Exits'
<1>1. \A s \in DOMAIN threads : s \in Seq(Nat) /\ s # <<>> /\ s[1] \in 1..started
  BY OneThread
<1>2. started \in Nat /\ joined \in Nat /\ joined <= started
  BY ArgTypes DEF TreeOK, TypeOK, Pieces
<1>3. CASE ReturnOtherSide \/ Enter \/ SplitStep \/ SplitEnd
  <2>1. pc \in {"called", "split"} /\ threads' = threads
    BY <1>3 DEF ReturnOtherSide, Enter, SplitStep, SplitEnd
  <2>2. DOMAIN threads' = {}
    BY <2>1 DEF TreeOK, CallOK
  <2>. QED
    BY <2>2 DEF Exits
<1>4. CASE SpawnWorkerFails \/ SpawnEnd
  BY <1>4 DEF SpawnWorkerFails, Abort, SpawnEnd, Exits
<1>5. CASE Return
  <2>1. \A s \in DOMAIN threads : s[1] <= joined
    BY <1>1, <1>2, <1>5 DEF Return
  <2>. QED
    BY <1>5, <2>1 DEF Return, Exits
<1>6. CASE JoinWorker
  <2>1. /\ joined < started /\ threads[<<joined + 1>>].pc = "exited" /\ joined' = joined + 1
        /\ threads' = threads /\ pc' = pc /\ pc = "join"
    BY <1>6 DEF JoinWorker
  <2>2. <<joined + 1>> \in DOMAIN threads
    BY <1>2, <2>1 DEF TreeOK, Paths
  <2>3. ASSUME NEW s \in DOMAIN threads, s[1] <= joined + 1 PROVE threads[s].pc = "exited"
    <3>1. CASE s[1] = joined + 1
      <4>1. IsPrefix(<<joined + 1>>, s)
        BY <1>1, <1>2, <3>1, WorkerPath
      <4>. QED
        BY <2>1, <2>2, <4>1 DEF Exits
    <3>2. CASE s[1] <= joined
      BY <3>2 DEF Exits
    <3>. QED
      BY <1>1, <1>2, <2>3, <3>1, <3>2
  <2>. QED
    BY <2>1, <2>3 DEF Exits
<1>7. CASE SpawnWorker
  <2>. DEFINE k == started + 1
              u == <<k>>
  <2>1. /\ threads' = WithThread(threads, u, Worker(k)) /\ pc = "spawn"
        /\ UNCHANGED <<pc, joined>>
    BY <1>7 DEF SpawnWorker
  <2>2. k \in Nat /\ u \in Seq(Nat) /\ u[1] = k /\ u # <<>> /\ Len(u) = 1
    BY <1>2
  <2>. HIDE DEF u, k
  <2>3. ASSUME NEW s \in DOMAIN threads PROVE ~IsPrefix(s, u) /\ ~IsPrefix(Append(s, 0), u)
    <3>1. s \in Seq(Nat) /\ s # <<>> /\ s # u /\ Append(s, 0) \in Seq(Nat) /\ Append(s, 0) # <<>>
      BY <1>1, <1>2, <2>2 DEF k
    <3>2. Append(s, 0) # u
      <4>1. Len(Append(s, 0)) = Len(s) + 1 /\ Len(s) \in Nat /\ Len(s) # 0
        BY <3>1
      <4>2. Len(Append(s, 0)) # Len(u)
        BY <2>2, <4>1
      <4>. QED
        BY <4>2
    <3>3. /\ IsPrefix(s, <<k>>) => s = <<k>>
          /\ IsPrefix(Append(s, 0), <<k>>) => Append(s, 0) = <<k>>
      BY <2>2, <3>1, WorkerPath
    <3>. QED
      BY <3>1, <3>2, <3>3 DEF u
  <2>4. Append(u, 0) \in Seq(Nat) /\ ~IsPrefix(Append(u, 0), u)
    BY <2>2, ChildIsPrefix
  <2>5. \A s \in DOMAIN threads : ~IsPrefix(Append(u, 0), s)
    <3>1. ASSUME NEW s \in DOMAIN threads PROVE ~IsPrefix(u, s)
      <4>1. s \in Seq(Nat) /\ s # <<>> /\ s[1] # k
        BY <1>1, <1>2 DEF k
      <4>2. IsPrefix(<<k>>, s) <=> s[1] = k
        BY <2>2, <4>1, WorkerPath
      <4>. QED
        BY <4>1, <4>2 DEF u
    <3>. QED
      BY <1>1, <2>2, <3>1, ChildIsPrefix
  <2>6. Worker(k).pc = "entry"
    BY DEF Worker, Thread
  <2>7. /\ DOMAIN threads' = DOMAIN threads \cup {u}
        /\ threads'[u].pc = "entry"
        /\ \A s \in DOMAIN threads \ {u} : threads'[s] = threads[s]
    BY <2>1, <2>6 DEF WithThread
  <2>8. u \notin DOMAIN threads
    BY <1>1, <1>2, <2>2 DEF k
  <2>9. ~(u[1] <= joined)
    BY <1>2, <2>2 DEF k
  <2>10. ASSUME NEW s \in DOMAIN threads', NEW v \in DOMAIN threads',
                \/ threads'[s].pc = "exited" /\ IsPrefix(s, v)
                \/ threads'[s].pc = "joinR" /\ IsPrefix(Append(s, 0), v)
         PROVE  threads'[v].pc = "exited"
    <3>1. s \in DOMAIN threads
      BY <2>7, <2>10
    <3>2. v \in DOMAIN threads
      BY <2>3, <2>7, <2>10, <3>1
    <3>. QED
      BY <2>7, <2>8, <2>10, <3>1, <3>2 DEF Exits
  <2>11. \A s \in DOMAIN threads' : s[1] <= joined' => threads'[s].pc = "exited"
    BY <2>1, <2>7, <2>8, <2>9 DEF Exits
  <2>. QED
    BY <2>1, <2>10, <2>11 DEF Exits
<1>. QED
  BY <1>3, <1>4, <1>5, <1>6, <1>7 DEF Caller

\* A thread about to start a child has not started it before.
LEMMA ChildIsNew ==
  ASSUME TreeOK, Nested, NEW t \in DOMAIN threads, NEW c \in {0, 1},
         threads[t].pc = IF c = 0 THEN "spawnL" ELSE "spawnR"
  PROVE  Append(t, c) \notin DOMAIN threads
<1>. DEFINE u == Append(t, c)
<1>1. t \in Seq(Nat)
  BY OneThread
<1>2. u \in Seq(Nat) /\ IsPrefix(u, u)
  <2>1. u \in Seq(Nat)
    BY <1>1
  <2>. QED
    BY <2>1, PrefixOrder
<1>3. Under(t, u) /\ u[Len(t) + 1] = c
  BY <1>1, <1>2, ChildIsPrefix DEF Under
<1>. HIDE DEF u
<1>4. u \notin DOMAIN threads
  BY <1>3 DEF Nested
<1>. QED
  BY <1>4 DEF u

\* No step lets a thread be outlived by one under it, or the call by a thread.
LEMMA NextExits ==
  ASSUME TreeOK, Nested, Exits, [Next]_vars
  PROVE  Exits'
<1>1. CASE UNCHANGED vars
  BY <1>1 DEF vars, Exits
<1>2. CASE Caller
  BY <1>2, CallerExits
<1>3. ASSUME NEW t \in DOMAIN threads, HighPref_Merge(t) PROVE Exits'
  <2>1. CASE StoreFirst(t) \/ StoreSecond(t) \/ StoreOnly(t)
    <3>1. PICK at \in {"second", "exited"} : Goto(t, at)
      BY <2>1 DEF StoreFirst, StoreSecond, StoreOnly
    <3>2. threads[t].pc \in {"entry", "second"} /\ UNCHANGED <<pc, joined>>
      BY <2>1 DEF StoreFirst, StoreSecond, StoreOnly, Runs, caller
    <3>. QED
      BY <3>1, <3>2, GotoThread, MoveExits
  <2>2. CASE Divide(t)
    <3>1. threads[t] \in ThreadState
      BY OneThread DEF ThreadOK
    <3>2. PICK ld, rd :
            threads' = [threads EXCEPT ![t].pc = "spawnL", ![t].ldist = ld, ![t].rdist = rd]
      BY <2>2 DEF Divide
    <3>3. /\ DOMAIN threads' = DOMAIN threads
          /\ \A s \in DOMAIN threads \ {t} : threads'[s] = threads[s]
          /\ threads'[t] = [threads[t] EXCEPT !.pc = "spawnL", !.ldist = ld, !.rdist = rd]
      BY <3>2
    <3>4. threads'[t].pc = "spawnL"
      BY <3>1, <3>3 DEF ThreadState
    <3>5. threads[t].pc = "entry" /\ UNCHANGED <<pc, joined>>
      BY <2>2 DEF Divide, Searches, Runs, caller
    <3>. QED
      BY <3>3, <3>4, <3>5, MoveExits
  <2>3. CASE MedianThrows(t) \/ SpawnFails(t)
    BY <2>3 DEF MedianThrows, SpawnFails, Abort, Exits
  <2>4. CASE MedianSpins(t)
    BY <2>4 DEF MedianSpins, vars, Exits
  <2>5. CASE SpawnL(t)
    <3>1. /\ threads[t].pc = "spawnL" /\ UNCHANGED <<pc, joined>>
          /\ threads' = WithThread([threads EXCEPT ![t].pc = "spawnR"], Append(t, 0), LChild(t))
      BY <2>5 DEF SpawnL, Runs, caller
    <3>2. LChild(t).pc = "entry" /\ Append(t, 0) \notin DOMAIN threads
      BY <3>1, ChildrenOK, ChildIsNew
    <3>. QED
      BY <3>1, <3>2, GrowExits
  <2>6. CASE SpawnR(t)
    <3>1. /\ threads[t].pc = "spawnR" /\ UNCHANGED <<pc, joined>>
          /\ threads' = WithThread([threads EXCEPT ![t].pc = "joinL"], Append(t, 1), RChild(t))
      BY <2>6 DEF SpawnR, Runs, caller
    <3>2. RChild(t).pc = "entry" /\ Append(t, 1) \notin DOMAIN threads
      BY <3>1, ChildrenOK, ChildIsNew
    <3>. QED
      BY <3>1, <3>2, GrowExits
  <2>7. CASE JoinL(t)
    <3>1. /\ threads[t].pc = "joinL" /\ threads[Append(t, 0)].pc = "exited"
          /\ Goto(t, "joinR") /\ UNCHANGED <<pc, joined>>
      BY <2>7 DEF JoinL, Runs, caller
    <3>. QED
      BY <3>1, GotoThread, MoveExits
  <2>8. CASE JoinR(t)
    <3>1. /\ threads[t].pc = "joinR" /\ threads[Append(t, 1)].pc = "exited"
          /\ Goto(t, "exited") /\ UNCHANGED <<pc, joined>>
      BY <2>8 DEF JoinR, Runs, caller
    <3>. QED
      BY <3>1, GotoThread, MoveExits
  <2>. QED
    BY <1>3, <2>1, <2>2, <2>3, <2>4, <2>5, <2>6, <2>7, <2>8 DEF HighPref_Merge
<1>. QED
  BY <1>1, <1>2, <1>3 DEF Next, Over

\* For every call and every schedule, a thread has exited only if the threads it started
\* have, and none is alive when PMerge returns (pmergejoin.h:196-197, 266-270).
THEOREM MergeNoThreadOutlivesCall == Spec => []NoThreadOutlivesCall
<1>1. Init => Nested /\ Apart /\ Exits
  <2>1. Init => DOMAIN threads = {}
    BY DEF Init
  <2>. QED
    BY <2>1 DEF Nested, Apart, Exits
<1>2. TreeOK /\ Nested /\ Apart /\ Exits /\ [Next]_vars => (Nested /\ Apart /\ Exits)'
  BY NextCells, NextExits
<1>3. Exits => NoThreadOutlivesCall
  BY DEF Exits, NoThreadOutlivesCall, Live
<1>. QED
  BY <1>1, <1>2, <1>3, MergeTree, PTL DEF Spec

---------------------------------------------------------------------------------
(* What the threads have written. *)

\* Where the range of a thread begins, where Divide cuts it, and where it ends.
LFrom(t) == threads[t].l[1]
LMid(t) == threads[t].l[1] + threads[t].ldist
LTo(t) == threads[t].l[1] + threads[t].l[2]
RFrom(t) == threads[t].r[1]
RMid(t) == threads[t].r[1] + threads[t].rdist
RTo(t) == threads[t].r[1] + threads[t].r[2]

\* Every range and every half is cut out of both vectors in order; a worker has its piece,
\* a child its half.
RangesOK ==
  /\ \A t \in DOMAIN threads : /\ CutsAt(LFrom(t), RFrom(t))
                               /\ CutsAt(LMid(t), RMid(t))
                               /\ CutsAt(LTo(t), RTo(t))
  /\ \A k \in Nat : <<k>> \in DOMAIN threads =>
       /\ LFrom(<<k>>) = left_pieces[k] /\ LTo(<<k>>) = left_pieces[k + 1]
       /\ RFrom(<<k>>) = right_pieces[k] /\ RTo(<<k>>) = right_pieces[k + 1]
  /\ \A t \in DOMAIN threads :
       /\ Append(t, 0) \in DOMAIN threads =>
            /\ LFrom(Append(t, 0)) = LFrom(t) /\ LTo(Append(t, 0)) = LMid(t)
            /\ RFrom(Append(t, 0)) = RFrom(t) /\ RTo(Append(t, 0)) = RMid(t)
       /\ Append(t, 1) \in DOMAIN threads =>
            /\ LFrom(Append(t, 1)) = LMid(t) /\ LTo(Append(t, 1)) = LTo(t)
            /\ RFrom(Append(t, 1)) = RMid(t) /\ RTo(Append(t, 1)) = RTo(t)

\* The merge of the range stands where a thread that exited was to write it.
Filled(t) == HoldsMerge(res, lhs, rhs, LFrom(t), RFrom(t), LTo(t), RTo(t))

HalfFilled(t) == res[LFrom(t) + RFrom(t) + 1] = Smaller(t)

WrittenOK ==
  \A t \in DOMAIN threads :
    /\ threads[t].pc = "exited" => Filled(t)
    /\ threads[t].pc = "second" => HalfFilled(t)

\* ... and of the pieces whose workers the caller has joined.
JoinedOK ==
  Split => HoldsMerge(res, lhs, rhs, 0, 0, left_pieces[joined + 1], right_pieces[joined + 1])

\* The caller joins every worker.
CallerOK ==
  Split => /\ pc \in {"join", "done"} => started = pieces - 1
           /\ pc = "done" => joined = started

Results == RangesOK /\ WrittenOK /\ JoinedOK /\ CallerOK

\* The ranges in numbers.
LEMMA ThreadRange ==
  ASSUME TreeOK, NEW t \in DOMAIN threads
  PROVE  /\ LFrom(t) \in Nat /\ LMid(t) \in Nat /\ LTo(t) \in Nat
         /\ RFrom(t) \in Nat /\ RMid(t) \in Nat /\ RTo(t) \in Nat
         /\ LFrom(t) <= LMid(t) /\ LMid(t) <= LTo(t) /\ LTo(t) <= Len(lhs)
         /\ RFrom(t) <= RMid(t) /\ RMid(t) <= RTo(t) /\ RTo(t) <= Len(rhs)
         /\ threads[t].idx = LFrom(t) + RFrom(t)
         /\ threads[t].l[2] \in Nat /\ threads[t].r[2] \in Nat
         /\ LTo(t) = LFrom(t) + threads[t].l[2] /\ RTo(t) = RFrom(t) + threads[t].r[2]
         /\ Cells(threads[t]) = (LFrom(t) + RFrom(t) + 1)..(LTo(t) + RTo(t))
         /\ LFrom(t) + RFrom(t) + threads[t].l[2] + threads[t].r[2] = LTo(t) + RTo(t)
<1>1. args \in Calls /\ ThreadOK(threads[t])
  BY OneThread DEF TreeOK, TypeOK
<1>2. /\ threads[t].l \in Ranges(lhs) /\ threads[t].r \in Ranges(rhs)
      /\ threads[t].idx = threads[t].l[1] + threads[t].r[1]
      /\ threads[t].ldist \in 0..threads[t].l[2] /\ threads[t].rdist \in 0..threads[t].r[2]
      /\ threads[t].l \in Nat \X Nat /\ threads[t].r \in Nat \X Nat
      /\ Len(lhs) \in Nat /\ Len(rhs) \in Nat
  BY <1>1, ArgTypes DEF ThreadOK, ThreadState
<1>3. /\ threads[t].l[1] \in Nat /\ threads[t].l[2] \in Nat
      /\ threads[t].r[1] \in Nat /\ threads[t].r[2] \in Nat
      /\ threads[t].l[1] + threads[t].l[2] <= Len(lhs)
      /\ threads[t].r[1] + threads[t].r[2] <= Len(rhs)
      /\ threads[t].ldist \in Nat /\ threads[t].ldist <= threads[t].l[2]
      /\ threads[t].rdist \in Nat /\ threads[t].rdist <= threads[t].r[2]
  BY <1>2 DEF Ranges
<1>4. /\ LFrom(t) \in Nat /\ LMid(t) \in Nat /\ LTo(t) \in Nat
      /\ LFrom(t) <= LMid(t) /\ LMid(t) <= LTo(t) /\ LTo(t) <= Len(lhs)
  BY <1>3 DEF LFrom, LMid, LTo
<1>5. /\ RFrom(t) \in Nat /\ RMid(t) \in Nat /\ RTo(t) \in Nat
      /\ RFrom(t) <= RMid(t) /\ RMid(t) <= RTo(t) /\ RTo(t) <= Len(rhs)
  BY <1>3 DEF RFrom, RMid, RTo
<1>6. /\ threads[t].idx = LFrom(t) + RFrom(t)
      /\ LTo(t) = LFrom(t) + threads[t].l[2] /\ RTo(t) = RFrom(t) + threads[t].r[2]
  BY <1>2 DEF LFrom, RFrom, LTo, RTo
<1>7. LTo(t) + RTo(t) = (LFrom(t) + threads[t].l[2]) + (RFrom(t) + threads[t].r[2])
  BY <1>6
<1>8. LFrom(t) + RFrom(t) + threads[t].l[2] + threads[t].r[2] = LTo(t) + RTo(t)
  <2>1. \A a, b, d, e \in Nat : a + d + b + e = (a + b) + (d + e)
    OBVIOUS
  <2>2. /\ LFrom(t) \in Nat /\ RFrom(t) \in Nat
        /\ threads[t].l[2] \in Nat /\ threads[t].r[2] \in Nat
    BY <1>3, <1>4, <1>5
  <2>3. (LFrom(t) + threads[t].l[2]) + (RFrom(t) + threads[t].r[2])
        = LFrom(t) + RFrom(t) + threads[t].l[2] + threads[t].r[2]
    BY <2>1, <2>2
  <2>. QED
    BY <1>7, <2>3
<1>9. Cells(threads[t]) = (LFrom(t) + RFrom(t) + 1)..(LTo(t) + RTo(t))
  BY <1>6, <1>8 DEF Cells
<1>. QED
  BY <1>3, <1>4, <1>5, <1>6, <1>8, <1>9

\* A cut divides any stretch around it.
LEMMA CutDivides ==
  ASSUME args \in Calls, NEW i \in Nat, NEW j \in Nat, NEW c \in Nat, NEW d \in Nat,
         NEW k \in Nat, NEW l \in Nat, i <= c, c <= k, k <= Len(lhs), j <= d, d <= l, l <= Len(rhs),
         CutsAt(c, d)
  PROVE  Divides(lhs, rhs, i, j, c, d, k, l)
<1>1. /\ lhs \in Seq(Int) /\ rhs \in Seq(Int) /\ SortedSpan(lhs) /\ SortedSpan(rhs)
      /\ Len(lhs) \in Nat /\ Len(rhs) \in Nat
  BY ArgTypes
<1>2. /\ \A p \in (i + 1)..c : p \in 1..c /\ p \in 1..Len(lhs)
      /\ \A q \in (c + 1)..k : q \in (c + 1)..Len(lhs) /\ q \in 1..Len(lhs)
      /\ \A p \in (j + 1)..d : p \in 1..d /\ p \in 1..Len(rhs)
      /\ \A q \in (d + 1)..l : q \in (d + 1)..Len(rhs) /\ q \in 1..Len(rhs)
  BY <1>1
<1>3. /\ \A p \in (i + 1)..c, q \in (c + 1)..k : p <= q
      /\ \A p \in (j + 1)..d, q \in (d + 1)..l : p <= q
  OBVIOUS
<1>4. /\ \A p \in 1..Len(lhs) : lhs[p] \in Int
      /\ \A p \in 1..Len(rhs) : rhs[p] \in Int
  BY <1>1
<1>5. /\ \A p \in (i + 1)..c, q \in (c + 1)..k : lhs[p] <= lhs[q]
      /\ \A p \in (j + 1)..d, q \in (d + 1)..l : rhs[p] <= rhs[q]
  BY <1>1, <1>2, <1>3 DEF SortedSpan
<1>. QED
  BY <1>2, <1>4, <1>5 DEF CutsAt, Divides

\* What is said of the ranges does not change with the vectors and the pieces.
LEMMA CutsFrame ==
  ASSUME UNCHANGED <<args, split>>
  PROVE  /\ lhs' = lhs /\ rhs' = rhs /\ left_pieces' = left_pieces /\ right_pieces' = right_pieces
         /\ \A i, j : CutsAt(i, j)' = CutsAt(i, j)
<1>1. lhs' = lhs /\ rhs' = rhs /\ left_pieces' = left_pieces /\ right_pieces' = right_pieces
  BY DEF args, split
<1>. QED
  BY <1>1 DEF CutsAt

\* A child has one parent, and is not a worker.
LEMMA OneParent ==
  ASSUME NEW s \in Seq(Nat), NEW t \in Seq(Nat), t # <<>>, NEW c \in Nat, NEW d \in Nat
  PROVE  /\ Append(s, d) = Append(t, c) => s = t /\ d = c
         /\ \A k : Append(t, c) # <<k>>
         /\ Append(Append(t, c), d) # Append(t, c)
<1>1. /\ Len(Append(s, d)) = Len(s) + 1 /\ Len(Append(t, c)) = Len(t) + 1
      /\ Len(s) \in Nat /\ Len(t) \in Nat /\ Len(t) # 0
      /\ \A i \in 1..Len(s) : Append(s, d)[i] = s[i]
      /\ \A i \in 1..Len(t) : Append(t, c)[i] = t[i]
      /\ Append(s, d)[Len(s) + 1] = d /\ Append(t, c)[Len(t) + 1] = c
  OBVIOUS
<1>2. ASSUME Append(s, d) = Append(t, c) PROVE s = t /\ d = c
  <2>1. Len(s) = Len(t)
    BY <1>1, <1>2
  <2>2. \A i \in 1..Len(s) : s[i] = t[i]
    BY <1>1, <1>2, <2>1
  <2>3. s = t
    BY <2>1, <2>2, SeqEqual
  <2>4. d = c
    BY <1>1, <1>2, <2>1
  <2>. QED
    BY <2>3, <2>4
<1>3. \A k : Append(t, c) # <<k>>
  <2>1. SUFFICES ASSUME NEW k, Append(t, c) = <<k>> PROVE FALSE
    OBVIOUS
  <2>2. Len(<<k>>) = 1
    OBVIOUS
  <2>3. Len(t) + 1 = 1
    BY <1>1, <2>1, <2>2
  <2>. QED
    BY <1>1, <2>3
<1>4. Append(Append(t, c), d) # Append(t, c)
  <2>1. Append(t, c) \in Seq(Nat)
    OBVIOUS
  <2>2. Len(Append(Append(t, c), d)) = Len(Append(t, c)) + 1
    BY <2>1
  <2>. QED
    BY <1>1, <2>2
<1>. QED
  BY <1>2, <1>3, <1>4

\* Nor do two children of different threads, or two of one thread, have one path.
LEMMA SameParent ==
  ASSUME NEW s \in Seq(Nat), NEW t \in Seq(Nat), NEW c \in Nat, NEW d \in Nat,
         Append(t, c) = Append(s, d)
  PROVE  s = t /\ d = c
<1>1. s # <<>> \/ t # <<>> \/ s = t
  OBVIOUS
<1>2. CASE s = t
  <2>1. Append(s, d)[Len(s) + 1] = d /\ Append(s, c)[Len(s) + 1] = c
    OBVIOUS
  <2>. QED
    BY <1>2, <2>1
<1>3. CASE t # <<>>
  BY <1>3, OneParent
<1>4. CASE s # <<>>
  BY <1>4, OneParent
<1>. QED
  BY <1>1, <1>2, <1>3, <1>4

\* A path starts as that of the parent does.
LEMMA FirstOfChild ==
  ASSUME NEW t \in Seq(Nat), t # <<>>, NEW c \in Nat
  PROVE  Append(t, c) \in Seq(Nat) /\ Len(Append(t, c)) = Len(t) + 1 /\ Append(t, c)[1] = t[1]
OBVIOUS

\* Where a thread's range is cut or ends does not change while the thread stays what it is.
LEMMA SpreadSame ==
  ASSUME NEW s
  PROVE  /\ threads'[s].l = threads[s].l => LFrom(s)' = LFrom(s) /\ LTo(s)' = LTo(s)
         /\ threads'[s].r = threads[s].r => RFrom(s)' = RFrom(s) /\ RTo(s)' = RTo(s)
         /\ threads'[s].l = threads[s].l /\ threads'[s].ldist = threads[s].ldist =>
              LMid(s)' = LMid(s)
         /\ threads'[s].r = threads[s].r /\ threads'[s].rdist = threads[s].rdist =>
              RMid(s)' = RMid(s)
BY DEF LFrom, LMid, LTo, RFrom, RMid, RTo

\* A step of a thread keeps the ranges.
LEMMA RangesMove ==
  ASSUME RangesOK, UNCHANGED <<args, split>>, NEW t \in DOMAIN threads,
         DOMAIN threads' = DOMAIN threads,
         \A s \in DOMAIN threads \ {t} : threads'[s] = threads[s],
         threads'[t].l = threads[t].l, threads'[t].r = threads[t].r,
         \/ threads'[t].ldist = threads[t].ldist /\ threads'[t].rdist = threads[t].rdist
         \/ /\ Append(t, 0) \notin DOMAIN threads /\ Append(t, 1) \notin DOMAIN threads
            /\ CutsAt(LMid(t)', RMid(t)')
  PROVE  RangesOK'
<1>1. /\ left_pieces' = left_pieces /\ right_pieces' = right_pieces
      /\ lhs' = lhs /\ rhs' = rhs
  BY DEF args, split
<1>2. \A s \in DOMAIN threads :
        /\ LFrom(s)' = LFrom(s) /\ LTo(s)' = LTo(s) /\ RFrom(s)' = RFrom(s) /\ RTo(s)' = RTo(s)
        /\ s # t => LMid(s)' = LMid(s) /\ RMid(s)' = RMid(s)
  BY SpreadSame
<1>3. \/ LMid(t)' = LMid(t) /\ RMid(t)' = RMid(t)
      \/ /\ Append(t, 0) \notin DOMAIN threads /\ Append(t, 1) \notin DOMAIN threads
         /\ CutsAt(LMid(t)', RMid(t)')
  BY SpreadSame
<1>4. \A s \in DOMAIN threads : /\ CutsAt(LFrom(s)', RFrom(s)')
                                /\ CutsAt(LMid(s)', RMid(s)')
                                /\ CutsAt(LTo(s)', RTo(s)')
  BY <1>2, <1>3 DEF RangesOK
<1>5. (\A s \in DOMAIN threads : /\ CutsAt(LFrom(s), RFrom(s))
                                 /\ CutsAt(LMid(s), RMid(s))
                                 /\ CutsAt(LTo(s), RTo(s)))'
  <2>1. ASSUME NEW s \in DOMAIN threads
        PROVE  /\ CutsAt(LFrom(s), RFrom(s))'
               /\ CutsAt(LMid(s), RMid(s))'
               /\ CutsAt(LTo(s), RTo(s))'
    <3>1. /\ CutsAt(LFrom(s)', RFrom(s)') /\ CutsAt(LMid(s)', RMid(s)')
          /\ CutsAt(LTo(s)', RTo(s)') /\ lhs' = lhs /\ rhs' = rhs
      BY <1>1, <1>4
    <3>. QED
      BY <3>1 DEF CutsAt
  <2>. QED
    BY <2>1
<1>6. \A k \in Nat : <<k>> \in DOMAIN threads' =>
        /\ LFrom(<<k>>)' = left_pieces'[k] /\ LTo(<<k>>)' = left_pieces'[k + 1]
        /\ RFrom(<<k>>)' = right_pieces'[k] /\ RTo(<<k>>)' = right_pieces'[k + 1]
  BY <1>1, <1>2 DEF RangesOK
<1>7. ASSUME NEW s \in DOMAIN threads
      PROVE  /\ Append(s, 0) \in DOMAIN threads' =>
                  /\ LFrom(Append(s, 0))' = LFrom(s)' /\ LTo(Append(s, 0))' = LMid(s)'
                  /\ RFrom(Append(s, 0))' = RFrom(s)' /\ RTo(Append(s, 0))' = RMid(s)'
             /\ Append(s, 1) \in DOMAIN threads' =>
                  /\ LFrom(Append(s, 1))' = LMid(s)' /\ LTo(Append(s, 1))' = LTo(s)'
                  /\ RFrom(Append(s, 1))' = RMid(s)' /\ RTo(Append(s, 1))' = RTo(s)'
  BY <1>2, <1>3 DEF RangesOK
<1>. QED
  BY <1>5, <1>6, <1>7 DEF RangesOK

\* The start of a thread keeps the ranges if it has a range of its own place in the tree.
LEMMA RangesGrow ==
  ASSUME RangesOK, UNCHANGED <<args, split>>, NEW u,
         DOMAIN threads' = DOMAIN threads \cup {u},
         \A s \in DOMAIN threads :
           /\ threads'[s].l = threads[s].l /\ threads'[s].r = threads[s].r
           /\ threads'[s].ldist = threads[s].ldist /\ threads'[s].rdist = threads[s].rdist,
         u \notin DOMAIN threads,
         Append(u, 0) \notin DOMAIN threads', Append(u, 1) \notin DOMAIN threads',
         CutsAt(LFrom(u)', RFrom(u)'), CutsAt(LMid(u)', RMid(u)'), CutsAt(LTo(u)', RTo(u)'),
         \A k \in Nat : u = <<k>> =>
           /\ LFrom(u)' = left_pieces[k] /\ LTo(u)' = left_pieces[k + 1]
           /\ RFrom(u)' = right_pieces[k] /\ RTo(u)' = right_pieces[k + 1],
         \A s \in DOMAIN threads :
           /\ u = Append(s, 0) => /\ LFrom(u)' = LFrom(s) /\ LTo(u)' = LMid(s)
                                  /\ RFrom(u)' = RFrom(s) /\ RTo(u)' = RMid(s)
           /\ u = Append(s, 1) => /\ LFrom(u)' = LMid(s) /\ LTo(u)' = LTo(s)
                                  /\ RFrom(u)' = RMid(s) /\ RTo(u)' = RTo(s)
  PROVE  RangesOK'
<1>1. /\ left_pieces' = left_pieces /\ right_pieces' = right_pieces
      /\ lhs' = lhs /\ rhs' = rhs
  BY DEF args, split
<1>2. \A s \in DOMAIN threads :
        /\ LFrom(s)' = LFrom(s) /\ LTo(s)' = LTo(s) /\ RFrom(s)' = RFrom(s) /\ RTo(s)' = RTo(s)
        /\ LMid(s)' = LMid(s) /\ RMid(s)' = RMid(s)
  BY SpreadSame
<1>3. ASSUME NEW s \in DOMAIN threads'
      PROVE  /\ CutsAt(LFrom(s), RFrom(s))'
             /\ CutsAt(LMid(s), RMid(s))'
             /\ CutsAt(LTo(s), RTo(s))'
  <2>1. /\ CutsAt(LFrom(s)', RFrom(s)') /\ CutsAt(LMid(s)', RMid(s)')
        /\ CutsAt(LTo(s)', RTo(s)') /\ lhs' = lhs /\ rhs' = rhs
    BY <1>1, <1>2 DEF RangesOK
  <2>. QED
    BY <2>1 DEF CutsAt
<1>4. \A k \in Nat : <<k>> \in DOMAIN threads' =>
        /\ LFrom(<<k>>)' = left_pieces'[k] /\ LTo(<<k>>)' = left_pieces'[k + 1]
        /\ RFrom(<<k>>)' = right_pieces'[k] /\ RTo(<<k>>)' = right_pieces'[k + 1]
  BY <1>1, <1>2 DEF RangesOK
<1>5. ASSUME NEW s \in DOMAIN threads'
      PROVE  /\ Append(s, 0) \in DOMAIN threads' =>
                  /\ LFrom(Append(s, 0))' = LFrom(s)' /\ LTo(Append(s, 0))' = LMid(s)'
                  /\ RFrom(Append(s, 0))' = RFrom(s)' /\ RTo(Append(s, 0))' = RMid(s)'
             /\ Append(s, 1) \in DOMAIN threads' =>
                  /\ LFrom(Append(s, 1))' = LMid(s)' /\ LTo(Append(s, 1))' = LTo(s)'
                  /\ RFrom(Append(s, 1))' = RMid(s)' /\ RTo(Append(s, 1))' = RTo(s)'
  <2>1. CASE s = u
    BY <2>1
  <2>2. CASE s \in DOMAIN threads
    <3>1. ASSUME Append(s, 0) \in DOMAIN threads'
          PROVE  /\ LFrom(Append(s, 0))' = LFrom(s)' /\ LTo(Append(s, 0))' = LMid(s)'
                 /\ RFrom(Append(s, 0))' = RFrom(s)' /\ RTo(Append(s, 0))' = RMid(s)'
      <4>1. CASE Append(s, 0) = u
        BY <1>2, <2>2, <4>1
      <4>2. CASE Append(s, 0) \in DOMAIN threads
        <5>1. /\ LFrom(Append(s, 0)) = LFrom(s) /\ LTo(Append(s, 0)) = LMid(s)
              /\ RFrom(Append(s, 0)) = RFrom(s) /\ RTo(Append(s, 0)) = RMid(s)
          BY <2>2, <4>2 DEF RangesOK
        <5>. QED
          BY <1>2, <2>2, <4>2, <5>1
      <4>. QED
        BY <3>1, <4>1, <4>2
    <3>2. ASSUME Append(s, 1) \in DOMAIN threads'
          PROVE  /\ LFrom(Append(s, 1))' = LMid(s)' /\ LTo(Append(s, 1))' = LTo(s)'
                 /\ RFrom(Append(s, 1))' = RMid(s)' /\ RTo(Append(s, 1))' = RTo(s)'
      <4>1. CASE Append(s, 1) = u
        BY <1>2, <2>2, <4>1
      <4>2. CASE Append(s, 1) \in DOMAIN threads
        <5>1. /\ LFrom(Append(s, 1)) = LMid(s) /\ LTo(Append(s, 1)) = LTo(s)
              /\ RFrom(Append(s, 1)) = RMid(s) /\ RTo(Append(s, 1)) = RTo(s)
          BY <2>2, <4>2 DEF RangesOK
        <5>. QED
          BY <1>2, <2>2, <4>2, <5>1
      <4>. QED
        BY <3>2, <4>1, <4>2
    <3>. QED
      BY <3>1, <3>2
  <2>. QED
    BY <2>1, <2>2
<1>. QED
  BY <1>3, <1>4, <1>5 DEF RangesOK

\* The half a thread starts a child on.
LEMMA RangesChild ==
  ASSUME TreeOK, Nested, RangesOK, NEW t \in DOMAIN threads, NEW c \in {0, 1}, NEW at,
         threads[t].pc = IF c = 0 THEN "spawnL" ELSE "spawnR",
         threads' = WithThread([threads EXCEPT ![t].pc = at], Append(t, c),
                               IF c = 0 THEN LChild(t) ELSE RChild(t)),
         UNCHANGED <<args, split>>
  PROVE  RangesOK'
<1>. DEFINE u == Append(t, c)
            th == IF c = 0 THEN LChild(t) ELSE RChild(t)
<1>1. /\ t \in Seq(Nat) /\ t # <<>> /\ threads[t] \in ThreadState
      /\ \A s \in DOMAIN threads : s \in Seq(Nat) /\ s # <<>>
  BY OneThread DEF ThreadOK
<1>2. /\ u \notin DOMAIN threads /\ u \in Seq(Nat)
      /\ \A s \in DOMAIN threads, d \in {0, 1} : u = Append(s, d) => s = t /\ d = c
      /\ \A k : u # <<k>>
      /\ \A d \in {0, 1} : Append(u, d) # u
  <2>1. Append(t, c) \notin DOMAIN threads
    BY ChildIsNew
  <2>2. ASSUME NEW s \in DOMAIN threads, NEW d \in {0, 1}, Append(t, c) = Append(s, d)
        PROVE  s = t /\ d = c
    <3>1. /\ c \in Nat /\ d \in Nat /\ s \in Seq(Nat) /\ t \in Seq(Nat) /\ t # <<>>
          /\ Append(s, d) = Append(t, c)
      BY <1>1, <2>2
    <3>. QED
      BY <3>1, SameParent
  <2>3. \A k : Append(t, c) # <<k>>
    <3>1. c \in Nat
      OBVIOUS
    <3>. QED
      BY <1>1, <3>1, OneParent, Zenon
  <2>4. \A d \in {0, 1} : Append(Append(t, c), d) # Append(t, c)
    BY <1>1, OneParent
  <2>5. Append(t, c) \in Seq(Nat)
    BY <1>1
  <2>. QED
    BY <2>1, <2>2, <2>3, <2>4, <2>5
<1>3. Append(u, 0) \notin DOMAIN threads /\ Append(u, 1) \notin DOMAIN threads
  <2>1. ASSUME NEW d \in {0, 1} PROVE Append(u, d) \notin DOMAIN threads
    <3>1. Append(u, d) \in Seq(Nat)
      BY <1>2
    <3>2. IsPrefix(u, Append(u, d))
      BY <1>2, <3>1, PrefixOrder, PrefixOfChild
    <3>3. Under(t, Append(u, d)) /\ Append(u, d)[Len(t) + 1] = c
      BY <1>1, <3>1, <3>2, ChildIsPrefix DEF Under
    <3>4. Append(u, d) \in DOMAIN threads => FALSE
      BY <3>3 DEF Nested
    <3>. QED
      BY <3>4
  <2>. QED
    BY <2>1
<1>. HIDE DEF u, th
<1>4. /\ DOMAIN threads' = DOMAIN threads \cup {u}
      /\ threads'[u] = th
      /\ \A s \in DOMAIN threads :
           /\ threads'[s].l = threads[s].l /\ threads'[s].r = threads[s].r
           /\ threads'[s].ldist = threads[s].ldist /\ threads'[s].rdist = threads[s].rdist
  <2>1. /\ DOMAIN threads' = DOMAIN threads \cup {u}
        /\ threads'[u] = th
        /\ \A s \in DOMAIN threads :
             threads'[s] = IF s = t THEN [threads[t] EXCEPT !.pc = at] ELSE threads[s]
    BY <1>2 DEF WithThread, u, th
  <2>2. /\ threads'[t].l = threads[t].l /\ threads'[t].r = threads[t].r
        /\ threads'[t].ldist = threads[t].ldist /\ threads'[t].rdist = threads[t].rdist
    BY <1>1, <2>1 DEF ThreadState
  <2>. QED
    BY <2>1, <2>2
<1>5. /\ c = 0 => /\ LFrom(u)' = LFrom(t) /\ LTo(u)' = LMid(t) /\ LMid(u)' = LFrom(t)
                  /\ RFrom(u)' = RFrom(t) /\ RTo(u)' = RMid(t) /\ RMid(u)' = RFrom(t)
      /\ c = 1 => /\ LFrom(u)' = LMid(t) /\ LTo(u)' = LTo(t) /\ LMid(u)' = LMid(t)
                  /\ RFrom(u)' = RMid(t) /\ RTo(u)' = RTo(t) /\ RMid(u)' = RMid(t)
  <2>1. /\ threads[t].l[1] \in Nat /\ threads[t].l[2] \in Nat /\ threads[t].ldist \in Nat
        /\ threads[t].r[1] \in Nat /\ threads[t].r[2] \in Nat /\ threads[t].rdist \in Nat
    BY <1>1 DEF ThreadState
  <2>2. CASE c = 0
    <3>1. /\ th.l = <<threads[t].l[1], threads[t].ldist>> /\ th.ldist = 0
          /\ th.r = <<threads[t].r[1], threads[t].rdist>> /\ th.rdist = 0
      BY <2>2 DEF th, LChild, Thread
    <3>. QED
      BY <1>4, <2>1, <2>2, <3>1 DEF LFrom, LMid, LTo, RFrom, RMid, RTo
  <2>3. CASE c = 1
    <3>1. /\ th.l = <<threads[t].l[1] + threads[t].ldist, threads[t].l[2] - threads[t].ldist>>
          /\ th.r = <<threads[t].r[1] + threads[t].rdist, threads[t].r[2] - threads[t].rdist>>
          /\ th.ldist = 0 /\ th.rdist = 0
      BY <2>3 DEF th, RChild, Thread
    <3>. QED
      BY <1>4, <2>1, <2>3, <3>1 DEF LFrom, LMid, LTo, RFrom, RMid, RTo
  <2>. QED
    BY <2>2, <2>3
<1>6. CutsAt(LFrom(t), RFrom(t)) /\ CutsAt(LMid(t), RMid(t)) /\ CutsAt(LTo(t), RTo(t))
  BY DEF RangesOK
<1>7. /\ CutsAt(LFrom(u)', RFrom(u)') /\ CutsAt(LMid(u)', RMid(u)') /\ CutsAt(LTo(u)', RTo(u)')
  BY <1>5, <1>6
<1>8. \A s \in DOMAIN threads :
        /\ u = Append(s, 0) => /\ LFrom(u)' = LFrom(s) /\ LTo(u)' = LMid(s)
                               /\ RFrom(u)' = RFrom(s) /\ RTo(u)' = RMid(s)
        /\ u = Append(s, 1) => /\ LFrom(u)' = LMid(s) /\ LTo(u)' = LTo(s)
                               /\ RFrom(u)' = RMid(s) /\ RTo(u)' = RTo(s)
  BY <1>2, <1>5
<1>9. Append(u, 0) \notin DOMAIN threads' /\ Append(u, 1) \notin DOMAIN threads'
  BY <1>2, <1>3, <1>4
<1>. QED
  BY <1>2, <1>4, <1>7, <1>8, <1>9, RangesGrow

\* The piece a worker is started on.
LEMMA RangesWorker ==
  ASSUME TreeOK, RangesOK, SpawnWorker
  PROVE  RangesOK'
<1>0. PICK k \in Nat : k = started + 1
  BY ArgTypes DEF TreeOK, TypeOK, Pieces
<1>. DEFINE u == <<k>>
<1>1. /\ threads' = WithThread(threads, u, Worker(k)) /\ UNCHANGED <<args, split>>
      /\ started < pieces - 1 /\ pc = "spawn"
  BY <1>0 DEF SpawnWorker, pieces
<1>2. \A s \in DOMAIN threads : s \in Seq(Nat) /\ s # <<>> /\ s[1] \in 1..started
  BY OneThread
<1>3. /\ started \in Nat /\ pieces \in Nat /\ k \in Nat /\ k \in 1..pieces /\ k + 1 \in 1..pieces
      /\ left_pieces[k] \in Nat /\ left_pieces[k + 1] \in Nat
      /\ right_pieces[k] \in Nat /\ right_pieces[k + 1] \in Nat
      /\ CutsAt(left_pieces[k], right_pieces[k]) /\ CutsAt(left_pieces[k + 1], right_pieces[k + 1])
  <2>1. /\ left_pieces \in Seq(0..Len(lhs)) /\ right_pieces \in Seq(0..Len(rhs))
        /\ Len(right_pieces) = Len(left_pieces) /\ Len(lhs) \in Nat /\ Len(rhs) \in Nat
        /\ started \in Nat
    <3>1. left_pieces \in Pieces(lhs) /\ right_pieces \in Pieces(rhs) /\ args \in Calls
          /\ started \in 0..Len(left_pieces)
      BY DEF TreeOK, TypeOK
    <3>2. Len(right_pieces) = Len(left_pieces)
      BY DEF TreeOK, CutsOK, pieces
    <3>. QED
      BY <3>1, <3>2, ArgTypes DEF Pieces
  <2>2. started + 1 \in 1..Len(left_pieces) /\ started + 1 + 1 \in 1..Len(left_pieces)
    BY <1>1, <2>1 DEF pieces
  <2>3. \A j \in 1..Len(left_pieces) : /\ left_pieces[j] \in Nat /\ right_pieces[j] \in Nat
                                       /\ CutsAt(left_pieces[j], right_pieces[j])
    BY <2>1 DEF TreeOK, CutsOK, pieces
  <2>. QED
    BY <1>0, <2>1, <2>2, <2>3 DEF pieces
<1>4. /\ u \in Seq(Nat) /\ u[1] = k /\ Len(u) = 1 /\ u # <<>>
      /\ \A j : u = <<j>> => j = k
  BY <1>3
<1>. DEFINE th == Worker(k)
<1>5. /\ th.l = <<left_pieces[k], left_pieces[k + 1] - left_pieces[k]>> /\ th.ldist = 0
      /\ th.r = <<right_pieces[k], right_pieces[k + 1] - right_pieces[k]>> /\ th.rdist = 0
  BY DEF Worker, Thread, Piece
<1>6. u \notin DOMAIN threads
  BY <1>0, <1>2, <1>3, <1>4
<1>. HIDE DEF u, th
<1>7. /\ DOMAIN threads' = DOMAIN threads \cup {u} /\ threads'[u] = th
      /\ \A s \in DOMAIN threads : threads'[s] = threads[s]
  BY <1>1, <1>6 DEF WithThread, th
<1>8. /\ LFrom(u)' = left_pieces[k] /\ LMid(u)' = left_pieces[k] /\ LTo(u)' = left_pieces[k + 1]
      /\ RFrom(u)' = right_pieces[k] /\ RMid(u)' = right_pieces[k] /\ RTo(u)' = right_pieces[k + 1]
  BY <1>3, <1>5, <1>7 DEF LFrom, LMid, LTo, RFrom, RMid, RTo
<1>9. \A s \in DOMAIN threads, d \in {0, 1} : u # Append(s, d)
  <2>1. ASSUME NEW s \in DOMAIN threads, NEW d \in {0, 1} PROVE u # Append(s, d)
    <3>1. Append(s, d) # <<k>>
      BY <1>2, OneParent
    <3>. QED
      BY <3>1 DEF u
  <2>. QED
    BY <2>1
<1>10. \A d \in {0, 1} : Append(u, d) \notin DOMAIN threads'
  <2>1. ASSUME NEW d \in {0, 1} PROVE Append(u, d) # u /\ Append(u, d)[1] = k
    <3>1. u \in Seq(Nat) /\ Len(u) = 1 /\ d \in Nat
      BY <1>4
    <3>2. u # <<>>
      BY <1>4
    <3>3. /\ Append(u, d) \in Seq(Nat) /\ Len(Append(u, d)) = Len(u) + 1
          /\ Append(u, d)[1] = u[1]
      BY <3>1, <3>2, FirstOfChild
    <3>. QED
      BY <1>4, <3>1, <3>3
  <2>2. ~(k \in 1..started)
    BY <1>0, <1>3
  <2>. QED
    BY <1>2, <1>7, <2>1, <2>2
<1>11. CutsAt(LFrom(u)', RFrom(u)') /\ CutsAt(LMid(u)', RMid(u)') /\ CutsAt(LTo(u)', RTo(u)')
  BY <1>3, <1>8
<1>12. \A j \in Nat : u = <<j>> =>
         /\ LFrom(u)' = left_pieces[j] /\ LTo(u)' = left_pieces[j + 1]
         /\ RFrom(u)' = right_pieces[j] /\ RTo(u)' = right_pieces[j + 1]
  BY <1>4, <1>8
<1>. QED
  BY <1>1, <1>6, <1>7, <1>9, <1>10, <1>11, <1>12, RangesGrow

\* A cut at a value, inside a range that is cut out in order, is a cut of both vectors.
LEMMA CutWithin ==
  ASSUME args \in Calls, NEW i \in Nat, NEW j \in Nat, NEW c \in Nat, NEW d \in Nat,
         NEW k \in Nat, NEW l \in Nat, i <= c, c <= k, k <= Len(lhs), j <= d, d <= l, l <= Len(rhs),
         CutsAt(i, j), CutsAt(k, l), NEW v \in Int,
         \A a \in (i + 1)..c : lhs[a] < v, \A a \in (c + 1)..k : v <= lhs[a],
         \A b \in (j + 1)..d : rhs[b] < v, \A b \in (d + 1)..l : v <= rhs[b]
  PROVE  CutsAt(c, d)
<1>1. /\ Len(lhs) \in Nat /\ Len(rhs) \in Nat
      /\ \A a \in 1..Len(lhs) : lhs[a] \in Int
      /\ \A b \in 1..Len(rhs) : rhs[b] \in Int
  BY ArgTypes
<1>2. ASSUME NEW a \in 1..c, NEW b \in (d + 1)..Len(rhs) PROVE lhs[a] <= rhs[b]
  <2>1. a \in 1..Len(lhs) /\ b \in 1..Len(rhs)
    BY <1>1
  <2>2. CASE a <= i
    <3>1. a \in 1..i /\ b \in (j + 1)..Len(rhs)
      BY <2>2
    <3>. QED
      BY <3>1 DEF CutsAt
  <2>3. CASE b > l
    <3>1. a \in 1..k /\ b \in (l + 1)..Len(rhs)
      BY <1>1, <2>3
    <3>. QED
      BY <3>1 DEF CutsAt
  <2>4. CASE a > i /\ b <= l
    <3>1. a \in (i + 1)..c /\ b \in (d + 1)..l
      BY <1>1, <2>4
    <3>. QED
      BY <1>1, <2>1, <3>1
  <2>. QED
    BY <1>1, <2>2, <2>3, <2>4
<1>3. ASSUME NEW a \in (c + 1)..Len(lhs), NEW b \in 1..d PROVE rhs[b] <= lhs[a]
  <2>1. a \in 1..Len(lhs) /\ b \in 1..Len(rhs)
    BY <1>1
  <2>2. CASE b <= j
    <3>1. b \in 1..j /\ a \in (i + 1)..Len(lhs)
      BY <2>2
    <3>. QED
      BY <3>1 DEF CutsAt
  <2>3. CASE a > k
    <3>1. b \in 1..l /\ a \in (k + 1)..Len(lhs)
      BY <1>1, <2>3
    <3>. QED
      BY <3>1 DEF CutsAt
  <2>4. CASE b > j /\ a <= k
    <3>1. b \in (j + 1)..d /\ a \in (c + 1)..k
      BY <1>1, <2>4
    <3>. QED
      BY <1>1, <2>1, <3>1
  <2>. QED
    BY <1>1, <2>2, <2>3, <2>4
<1>. QED
  BY <1>2, <1>3 DEF CutsAt

\* x is the stretch of n elements of s behind the first i, cut at v.
CutStretch(s, i, n, v, x) ==
  /\ x \in Seq(MinT..MaxT) /\ SortedSpan(x) /\ Len(x) = n
  /\ \A k \in 1..n : x[k] = s[i + k]
  /\ LowerBound(x, v) \in 0..n
  /\ \A a \in (i + 1)..(i + LowerBound(x, v)) : s[a] < v
  /\ \A a \in (i + LowerBound(x, v) + 1)..(i + n) : v <= s[a]

\* Every stretch of a sorted vector is.
LEMMA StretchCut ==
  ASSUME NEW s \in Seq(MinT..MaxT), SortedSpan(s), NEW i \in Nat, NEW n \in Nat, i + n <= Len(s),
         NEW v \in Int
  PROVE  CutStretch(s, i, n, v, SubSeq(s, i + 1, i + n))
<1>. DEFINE x == SubSeq(s, i + 1, i + n)
<1>0. MinT \in Int /\ MaxT \in Int
  BY SentinelAssumption
<1>1. \A k \in 1..n : i + k \in 1..Len(s) /\ (i + 1) + k - 1 = i + k
  OBVIOUS
<1>2. /\ x \in Seq(MinT..MaxT) /\ Len(x) = i + n - (i + 1) + 1
      /\ \A k \in 1..(i + n - (i + 1) + 1) : x[k] = s[i + 1 + k - 1]
  <2>1. \A k \in (i + 1)..(i + n) : s[k] \in MinT..MaxT
    <3>1. \A k \in (i + 1)..(i + n) : k \in 1..Len(s)
      OBVIOUS
    <3>. QED
      BY <1>0, <3>1
  <2>2. i + 1 \in Int /\ i + n \in Int
    OBVIOUS
  <2>3. (IF i + 1 <= i + n THEN i + n - (i + 1) + 1 ELSE 0) = i + n - (i + 1) + 1
    OBVIOUS
  <2>4. /\ x \in Seq(MinT..MaxT)
        /\ Len(x) = IF i + 1 <= i + n THEN i + n - (i + 1) + 1 ELSE 0
        /\ \A k \in 1..(i + n - (i + 1) + 1) : x[k] = s[i + 1 + k - 1]
    BY <2>1, <2>2, SubSeqProperties
  <2>. QED
    BY <2>3, <2>4
<1>. HIDE DEF x
<1>3. Len(x) = n /\ \A k \in 1..n : x[k] = s[i + k]
  <2>1. i + n - (i + 1) + 1 = n /\ \A k \in 1..n : i + 1 + k - 1 = i + k
    OBVIOUS
  <2>. QED
    BY <1>2, <2>1
<1>4. SortedSpan(x)
  <2>1. ASSUME NEW k \in 1..n, NEW m \in 1..n, k <= m PROVE s[i + k] <= s[i + m]
    <3>1. i + k \in 1..Len(s) /\ i + m \in 1..Len(s) /\ i + k <= i + m
      BY <1>1, <2>1
    <3>. QED
      BY <3>1 DEF SortedSpan
  <2>. QED
    BY <1>3, <2>1 DEF SortedSpan
<1>. DEFINE p == LowerBound(x, v)
<1>5. p \in 0..Len(x) /\ (\A k \in 1..p : x[k] < v) /\ \A k \in (p + 1)..Len(x) : v <= x[k]
  <2>1. x \in Seq(Int)
    BY <1>0, <1>2
  <2>. QED
    BY <1>4, <2>1, LowerBoundCuts
<1>. HIDE DEF p
<1>6. p \in 0..n /\ (\A k \in 1..p : x[k] < v) /\ \A k \in (p + 1)..n : v <= x[k]
  BY <1>3, <1>5
<1>7. ASSUME NEW a \in (i + 1)..(i + p) PROVE s[a] < v
  <2>1. a - i \in 1..p /\ a - i \in 1..n /\ i + (a - i) = a
    BY <1>6
  <2>2. x[a - i] = s[a] /\ x[a - i] < v
    BY <1>3, <1>6, <2>1
  <2>. QED
    BY <2>2
<1>8. ASSUME NEW a \in (i + p + 1)..(i + n) PROVE v <= s[a]
  <2>1. a - i \in (p + 1)..n /\ a - i \in 1..n /\ i + (a - i) = a
    BY <1>6
  <2>2. x[a - i] = s[a] /\ v <= x[a - i]
    BY <1>3, <1>6, <2>1
  <2>. QED
    BY <2>2
<1>. QED
  BY <1>2, <1>3, <1>4, <1>6, <1>7, <1>8 DEF p, x, CutStretch

\* A thread cuts both of its stretches at the median.
LEMMA DivideCuts ==
  ASSUME TreeOK, RangesOK, NEW t \in DOMAIN threads, NEW v \in Int
  PROVE  /\ LSpan(t) \in Seq(MinT..MaxT) /\ SortedSpan(LSpan(t)) /\ Len(LSpan(t)) = threads[t].l[2]
         /\ RSpan(t) \in Seq(MinT..MaxT) /\ SortedSpan(RSpan(t)) /\ Len(RSpan(t)) = threads[t].r[2]
         /\ CutsAt(LFrom(t) + LowerBound(LSpan(t), v), RFrom(t) + LowerBound(RSpan(t), v))
<1>. DEFINE i == LFrom(t)
            j == RFrom(t)
            m == threads[t].l[2]
            n == threads[t].r[2]
            x == LSpan(t)
            y == RSpan(t)
<1>1. /\ args \in Calls /\ i \in Nat /\ j \in Nat /\ m \in Nat /\ n \in Nat
      /\ i + m <= Len(lhs) /\ j + n <= Len(rhs)
      /\ LTo(t) = i + m /\ RTo(t) = j + n
  BY ThreadRange DEF TreeOK, TypeOK
<1>2. /\ lhs \in Seq(MinT..MaxT) /\ SortedSpan(lhs) /\ rhs \in Seq(MinT..MaxT) /\ SortedSpan(rhs)
      /\ Len(lhs) \in Nat /\ Len(rhs) \in Nat
  BY <1>1, ArgTypes
<1>3. CutsAt(i, j) /\ CutsAt(i + m, j + n)
  BY <1>1 DEF RangesOK
<1>4. x = SubSeq(lhs, i + 1, i + m) /\ y = SubSeq(rhs, j + 1, j + n)
  BY DEF LSpan, RSpan, LFrom, RFrom
<1>. HIDE DEF i, j, m, n, x, y
<1>5. /\ x \in Seq(MinT..MaxT) /\ SortedSpan(x) /\ Len(x) = m
      /\ LowerBound(x, v) \in 0..m
      /\ \A a \in (i + 1)..(i + LowerBound(x, v)) : lhs[a] < v
      /\ \A a \in (i + LowerBound(x, v) + 1)..(i + m) : v <= lhs[a]
  <2>1. i \in Nat /\ m \in Nat /\ i + m <= Len(lhs)
    BY <1>1
  <2>2. CutStretch(lhs, i, m, v, x)
    BY <1>2, <1>4, <2>1, StretchCut
  <2>. QED
    BY <2>2 DEF CutStretch
<1>6. /\ y \in Seq(MinT..MaxT) /\ SortedSpan(y) /\ Len(y) = n
      /\ LowerBound(y, v) \in 0..n
      /\ \A a \in (j + 1)..(j + LowerBound(y, v)) : rhs[a] < v
      /\ \A a \in (j + LowerBound(y, v) + 1)..(j + n) : v <= rhs[a]
  <2>1. j \in Nat /\ n \in Nat /\ j + n <= Len(rhs)
    BY <1>1
  <2>2. CutStretch(rhs, j, n, v, y)
    BY <1>2, <1>4, <2>1, StretchCut
  <2>. QED
    BY <2>2 DEF CutStretch
<1>7. ASSUME NEW p \in 0..m, NEW q \in 0..n,
             \A a \in (i + 1)..(i + p) : lhs[a] < v, \A a \in (i + p + 1)..(i + m) : v <= lhs[a],
             \A a \in (j + 1)..(j + q) : rhs[a] < v, \A a \in (j + q + 1)..(j + n) : v <= rhs[a]
      PROVE  CutsAt(i + p, j + q)
  <2>1. /\ i + p \in Nat /\ j + q \in Nat /\ i + m \in Nat /\ j + n \in Nat
        /\ i <= i + p /\ i + p <= i + m /\ j <= j + q /\ j + q <= j + n
    BY <1>1
  <2>. QED
    BY <1>1, <1>3, <1>7, <2>1, CutWithin
<1>8. CutsAt(i + LowerBound(x, v), j + LowerBound(y, v))
  BY <1>5, <1>6, <1>7
<1>. QED
  BY <1>5, <1>6, <1>8 DEF i, j, m, n, x, y

\* The step in which a thread cuts its range.
LEMMA RangesDivide ==
  ASSUME TreeOK, Nested, RangesOK, NEW t \in DOMAIN threads, Divide(t)
  PROVE  RangesOK'
<1>. DEFINE mid == FindMedian(LSpan(t), RSpan(t))
<1>1. /\ threads[t].pc = "entry" /\ UNCHANGED <<args, split>> /\ mid.tag = "returned"
      /\ threads' = [threads EXCEPT ![t].pc = "spawnL",
                                    ![t].ldist = LowerBound(LSpan(t), mid.val),
                                    ![t].rdist = LowerBound(RSpan(t), mid.val)]
  BY DEF Divide, Searches, Runs, caller
<1>2. mid.val \in Int
  <2>1. /\ LSpan(t) \in Seq(MinT..MaxT) /\ SortedSpan(LSpan(t))
        /\ RSpan(t) \in Seq(MinT..MaxT) /\ SortedSpan(RSpan(t))
    BY DivideCuts
  <2>2. mid.val \in MinT..MaxT
    BY <1>1, <2>1, FindMedianAnswers
  <2>. QED
    BY <2>2, Sentinels
<1>. HIDE DEF mid
<1>3. PICK v \in Int : v = mid.val
  BY <1>2
<1>4. PICK p, q : p = LowerBound(LSpan(t), v) /\ q = LowerBound(RSpan(t), v)
  OBVIOUS
<1>5. CutsAt(LFrom(t) + p, RFrom(t) + q)
  BY <1>4, DivideCuts
<1>6. /\ threads[t] \in ThreadState /\ t \in Seq(Nat)
  BY OneThread DEF ThreadOK
<1>7. /\ DOMAIN threads' = DOMAIN threads
      /\ \A s \in DOMAIN threads \ {t} : threads'[s] = threads[s]
      /\ threads'[t] = [threads[t] EXCEPT !.pc = "spawnL", !.ldist = p, !.rdist = q]
  BY <1>1, <1>3, <1>4
<1>8. /\ threads'[t].l = threads[t].l /\ threads'[t].r = threads[t].r
      /\ threads'[t].ldist = p /\ threads'[t].rdist = q
  BY <1>6, <1>7 DEF ThreadState
<1>9. LMid(t)' = LFrom(t) + p /\ RMid(t)' = RFrom(t) + q
  BY <1>8 DEF LMid, RMid, LFrom, RFrom
<1>10. Append(t, 0) \notin DOMAIN threads /\ Append(t, 1) \notin DOMAIN threads
  <2>1. ASSUME NEW c \in {0, 1} PROVE Append(t, c) \notin DOMAIN threads
    <3>1. Append(t, c) \in Seq(Nat)
      BY <1>6
    <3>2. IsPrefix(Append(t, c), Append(t, c))
      BY <3>1, PrefixOrder
    <3>3. Under(t, Append(t, c))
      BY <1>6, <3>1, <3>2, ChildIsPrefix DEF Under
    <3>. QED
      BY <1>1, <3>3 DEF Nested
  <2>. QED
    BY <2>1
<1>. QED
  BY <1>1, <1>5, <1>7, <1>8, <1>9, <1>10, RangesMove

\* Every step keeps the ranges.
LEMMA NextRanges ==
  ASSUME TreeOK, Nested, RangesOK, [Next]_vars
  PROVE  RangesOK'
<1>1. ASSUME UNCHANGED <<args, split, threads>> PROVE RangesOK'
  <2>1. /\ left_pieces' = left_pieces /\ right_pieces' = right_pieces
        /\ lhs' = lhs /\ rhs' = rhs /\ threads' = threads
    BY <1>1 DEF args, split
  <2>. QED
    BY <2>1 DEF RangesOK, CutsAt, LFrom, LMid, LTo, RFrom, RMid, RTo
<1>2. ASSUME DOMAIN threads = {}, threads' = threads PROVE RangesOK'
  BY <1>2 DEF RangesOK
<1>3. CASE UNCHANGED vars
  BY <1>1, <1>3 DEF vars
<1>4. CASE ReturnOtherSide \/ Enter \/ SplitStep \/ SplitEnd
  <2>1. pc \in {"called", "split"} /\ threads' = threads
    BY <1>4 DEF ReturnOtherSide, Enter, SplitStep, SplitEnd
  <2>. QED
    BY <1>2, <2>1 DEF TreeOK, CallOK
<1>5. CASE SpawnWorker
  BY <1>5, RangesWorker
<1>6. CASE SpawnWorkerFails \/ SpawnEnd \/ JoinWorker \/ Return
  BY <1>1, <1>6 DEF SpawnWorkerFails, Abort, SpawnEnd, JoinWorker, Return
<1>7. ASSUME NEW t \in DOMAIN threads, HighPref_Merge(t) PROVE RangesOK'
  <2>1. CASE StoreFirst(t) \/ StoreSecond(t) \/ StoreOnly(t) \/ JoinL(t) \/ JoinR(t)
    <3>1. PICK at : Goto(t, at)
      BY <2>1 DEF StoreFirst, StoreSecond, StoreOnly, JoinL, JoinR
    <3>2. UNCHANGED <<args, split>>
      BY <2>1 DEF StoreFirst, StoreSecond, StoreOnly, JoinL, JoinR, caller
    <3>. QED
      BY <3>1, <3>2, GotoThread, RangesMove
  <2>2. CASE Divide(t)
    BY <2>2, RangesDivide
  <2>3. CASE MedianThrows(t) \/ SpawnFails(t)
    BY <1>1, <2>3 DEF MedianThrows, SpawnFails, Abort
  <2>4. CASE MedianSpins(t)
    BY <1>1, <2>4 DEF MedianSpins, vars
  <2>5. CASE SpawnL(t)
    <3>1. /\ threads[t].pc = "spawnL" /\ UNCHANGED <<args, split>>
          /\ threads' = WithThread([threads EXCEPT ![t].pc = "spawnR"], Append(t, 0), LChild(t))
      BY <2>5 DEF SpawnL, Runs, caller
    <3>. QED
      BY <3>1, RangesChild
  <2>6. CASE SpawnR(t)
    <3>1. /\ threads[t].pc = "spawnR" /\ UNCHANGED <<args, split>>
          /\ threads' = WithThread([threads EXCEPT ![t].pc = "joinL"], Append(t, 1), RChild(t))
      BY <2>6 DEF SpawnR, Runs, caller
    <3>. QED
      BY <3>1, RangesChild
  <2>. QED
    BY <1>7, <2>1, <2>2, <2>3, <2>4, <2>5, <2>6 DEF HighPref_Merge
<1>. QED
  BY <1>3, <1>4, <1>5, <1>6, <1>7 DEF Next, Caller, Over

\* What stands in a thread's cells stays while the vectors, the thread and the cells do.
LEMMA FilledSame ==
  ASSUME TreeOK, NEW s \in DOMAIN threads, lhs' = lhs, rhs' = rhs,
         threads'[s].l = threads[s].l, threads'[s].r = threads[s].r,
         \A p \in Cells(threads[s]) : res'[p] = res[p]
  PROVE  Filled(s) => Filled(s)'
<1>. SUFFICES ASSUME Filled(s) PROVE Filled(s)'
  OBVIOUS
<1>1. /\ LFrom(s)' = LFrom(s) /\ LTo(s)' = LTo(s) /\ RFrom(s)' = RFrom(s) /\ RTo(s)' = RTo(s)
  BY SpreadSame
<1>2. /\ LFrom(s) \in Nat /\ LTo(s) \in Nat /\ RFrom(s) \in Nat /\ RTo(s) \in Nat
      /\ Cells(threads[s]) = (LFrom(s) + RFrom(s) + 1)..(LTo(s) + RTo(s))
  BY ThreadRange
<1>3. \A p \in (LFrom(s) + RFrom(s) + 1)..(LTo(s) + RTo(s)) : res'[p] = res[p]
  BY <1>2
<1>4. HoldsMerge(res', lhs, rhs, LFrom(s), RFrom(s), LTo(s), RTo(s))
  BY <1>2, <1>3, MergeSame DEF Filled
<1>. QED
  BY <1>1, <1>4 DEF Filled

\* A step in which at most thread t writes or gets ahead, and threads may start.
LEMMA WrittenMove ==
  ASSUME TreeOK, WrittenOK, lhs' = lhs, rhs' = rhs, NEW t,
         \A s \in DOMAIN threads' : s # t /\ threads'[s].pc \in {"exited", "second"} =>
           /\ s \in DOMAIN threads /\ threads'[s] = threads[s]
           /\ \A p \in Cells(threads[s]) : res'[p] = res[p],
         t \in DOMAIN threads' =>
           /\ threads'[t].pc = "exited" => Filled(t)'
           /\ threads'[t].pc = "second" => HalfFilled(t)'
  PROVE  WrittenOK'
<1>1. ASSUME NEW s \in DOMAIN threads', s # t, threads'[s].pc = "exited" PROVE Filled(s)'
  <2>1. /\ s \in DOMAIN threads /\ threads'[s] = threads[s]
        /\ \A p \in Cells(threads[s]) : res'[p] = res[p]
    BY <1>1
  <2>2. Filled(s)
    BY <1>1, <2>1 DEF WrittenOK
  <2>. QED
    BY <2>1, <2>2, FilledSame
<1>2. ASSUME NEW s \in DOMAIN threads', s # t, threads'[s].pc = "second"
      PROVE  HalfFilled(s)'
  <2>1. /\ s \in DOMAIN threads /\ threads'[s] = threads[s] /\ threads[s].pc = "second"
        /\ \A p \in Cells(threads[s]) : res'[p] = res[p]
    BY <1>2
  <2>2. res[LFrom(s) + RFrom(s) + 1] = Smaller(s)
    BY <2>1 DEF WrittenOK, HalfFilled
  <2>3. LFrom(s) + RFrom(s) + 1 \in Cells(threads[s])
    <3>1. threads[s].l[2] = 1 /\ threads[s].r[2] = 1
      BY <2>1, OneThread DEF ThreadOK, ThreadState
    <3>2. /\ LFrom(s) \in Nat /\ RFrom(s) \in Nat
          /\ LTo(s) = LFrom(s) + 1 /\ RTo(s) = RFrom(s) + 1
      BY <2>1, <3>1, ThreadRange
    <3>3. Cells(threads[s]) = (LFrom(s) + RFrom(s) + 1)..(LTo(s) + RTo(s))
      BY <2>1, ThreadRange
    <3>. QED
      BY <3>2, <3>3
  <2>4. /\ LFrom(s)' = LFrom(s) /\ RFrom(s)' = RFrom(s) /\ Smaller(s)' = Smaller(s)
    BY <2>1 DEF LFrom, RFrom, Smaller, LFirst, RFirst
  <2>. QED
    BY <2>1, <2>2, <2>3, <2>4 DEF HalfFilled
<1>. QED
  BY <1>1, <1>2 DEF WrittenOK

\* Nobody writes where a thread has written.
LEMMA StoresElsewhere ==
  ASSUME TreeOK, Nested, Apart, Exits, NEW s \in DOMAIN threads, NEW t \in DOMAIN threads, s # t,
         threads[s].pc \in {"exited", "second"}, threads[t].pc \in {"entry", "second"}
  PROVE  Cells(threads[s]) \cap Cells(threads[t]) = {}
<1>1. ~IsPrefix(t, s)
  BY DEF Nested, Under
<1>2. ~IsPrefix(s, t)
  <2>1. CASE threads[s].pc = "exited"
    BY <2>1 DEF Exits
  <2>2. CASE threads[s].pc = "second"
    BY <2>2 DEF Nested, Under
  <2>. QED
    BY <2>1, <2>2
<1>. QED
  BY <1>1, <1>2 DEF Apart, Related

\* A store of thread t in one of its cells.
Stores(t) == \E p \in Cells(threads[t]), v \in Int : res' = [res EXCEPT ![p] = v]

\* With a store that makes good what the thread itself is to have written, the others keep
\* what they wrote.
LEMMA WrittenStore ==
  ASSUME NEW t \in DOMAIN threads, NEW at \in {"second", "exited"},
         TreeOK, Nested, Apart, Exits, WrittenOK,
         threads[t].pc \in {"entry", "second"}, UNCHANGED caller, Goto(t, at), Stores(t),
         at = "exited" => Filled(t)',
         at = "second" => HalfFilled(t)'
  PROVE  WrittenOK'
<1>0. PICK p \in Cells(threads[t]), v \in Int : res' = [res EXCEPT ![p] = v]
  BY DEF Stores
<1>1. /\ DOMAIN threads' = DOMAIN threads /\ threads'[t].pc = at
      /\ \A s \in DOMAIN threads \ {t} : threads'[s] = threads[s]
  BY GotoThread
<1>2. lhs' = lhs /\ rhs' = rhs
  BY DEF caller, args
<1>3. ASSUME NEW s \in DOMAIN threads', s # t, threads'[s].pc \in {"exited", "second"}
      PROVE  /\ s \in DOMAIN threads /\ threads'[s] = threads[s]
             /\ \A q \in Cells(threads[s]) : res'[q] = res[q]
  <2>1. s \in DOMAIN threads /\ threads'[s] = threads[s] /\ threads[s].pc \in {"exited", "second"}
    BY <1>1, <1>3
  <2>2. p \notin Cells(threads[s])
    BY <1>3, <2>1, StoresElsewhere
  <2>3. Cells(threads[s]) \subseteq DOMAIN res
    BY <2>1, CellsInRes
  <2>. QED
    BY <1>0, <2>1, <2>2, <2>3
<1>. QED
  BY <1>1, <1>2, <1>3, WrittenMove

\* A thread of at most two elements, its elements and its cells.
LEMMA BaseCase ==
  ASSUME TreeOK, NEW t \in DOMAIN threads
  PROVE  /\ LFirst(t) = lhs[LFrom(t) + 1] /\ RFirst(t) = rhs[RFrom(t) + 1]
         /\ threads[t].l[2] = 1 => LFirst(t) \in Int
         /\ threads[t].r[2] = 1 => RFirst(t) \in Int
         /\ Cells(threads[t]) \subseteq DOMAIN res
         /\ Sizes(t) = <<threads[t].l[2], threads[t].r[2]>>
         /\ threads[t].l[2] + threads[t].r[2] >= 1 =>
              threads[t].idx + 1 \in Cells(threads[t])
         /\ threads[t].l[2] + threads[t].r[2] >= 2 =>
              threads[t].idx + 2 \in Cells(threads[t])
<1>1. /\ threads[t].l[2] = 1 => LFirst(t) \in Int
      /\ threads[t].r[2] = 1 => RFirst(t) \in Int
  BY FirstTypes, Sentinels
<1>2. Cells(threads[t]) \subseteq DOMAIN res
  BY CellsInRes
<1>3. /\ LFirst(t) = lhs[LFrom(t) + 1] /\ RFirst(t) = rhs[RFrom(t) + 1]
      /\ Sizes(t) = <<threads[t].l[2], threads[t].r[2]>>
  BY DEF LFirst, RFirst, LFrom, RFrom, Sizes
<1>4. threads[t].idx \in Nat /\ threads[t].l[2] \in Nat /\ threads[t].r[2] \in Nat
  BY OneThread DEF ThreadOK, ThreadState
<1>5. /\ threads[t].l[2] + threads[t].r[2] >= 1 => threads[t].idx + 1 \in Cells(threads[t])
      /\ threads[t].l[2] + threads[t].r[2] >= 2 => threads[t].idx + 2 \in Cells(threads[t])
  BY <1>4 DEF Cells
<1>. QED
  BY <1>1, <1>2, <1>3, <1>5

\* Every store is one.
LEMMA StoreInCells ==
  ASSUME TreeOK, NEW t \in DOMAIN threads, StoreFirst(t) \/ StoreSecond(t) \/ StoreOnly(t)
  PROVE  Stores(t)
<1>1. CASE StoreFirst(t)
  <2>1. threads[t].l[2] = 1 /\ threads[t].r[2] = 1
    BY <1>1 DEF StoreFirst, Sizes
  <2>2. Smaller(t) \in Int
    BY <2>1, BaseCase DEF Smaller
  <2>3. threads[t].idx + 1 \in Cells(threads[t])
    BY <2>1, BaseCase
  <2>. QED
    BY <1>1, <2>2, <2>3 DEF StoreFirst, Stores
<1>2. CASE StoreSecond(t)
  <2>1. threads[t].l[2] = 1 /\ threads[t].r[2] = 1
    BY <1>2, OneThread DEF StoreSecond, Runs, ThreadOK, ThreadState
  <2>2. Larger(t) \in Int
    BY <2>1, BaseCase DEF Larger
  <2>3. threads[t].idx + 2 \in Cells(threads[t])
    BY <2>1, BaseCase
  <2>. QED
    BY <1>2, <2>2, <2>3 DEF StoreSecond, Stores
<1>3. CASE StoreOnly(t)
  <2>1. \/ threads[t].l[2] = 1 /\ threads[t].r[2] = 0 /\ Sizes(t) = <<1, 0>>
        \/ threads[t].l[2] = 0 /\ threads[t].r[2] = 1 /\ Sizes(t) # <<1, 0>>
    BY <1>3 DEF StoreOnly, Sizes
  <2>2. (IF Sizes(t) = <<1, 0>> THEN LFirst(t) ELSE RFirst(t)) \in Int
    BY <2>1, BaseCase
  <2>3. threads[t].idx + 1 \in Cells(threads[t])
    BY <2>1, BaseCase
  <2>. QED
    BY <1>3, <2>2, <2>3 DEF StoreOnly, Stores
<1>. QED
  BY <1>1, <1>2, <1>3

\* The first of two elements.
LEMMA WrittenFirst ==
  ASSUME TreeOK, Nested, Apart, Exits, WrittenOK, NEW t \in DOMAIN threads, StoreFirst(t)
  PROVE  WrittenOK'
<1>1. /\ threads[t].pc = "entry" /\ Goto(t, "second") /\ UNCHANGED caller
      /\ Sizes(t) = <<1, 1>>
      /\ res' = [res EXCEPT ![threads[t].idx + 1] = Smaller(t)]
  BY DEF StoreFirst, Runs
<1>2. threads[t].l[2] = 1 /\ threads[t].r[2] = 1
  BY <1>1 DEF Sizes
<1>3. threads[t].idx + 1 \in Cells(threads[t]) /\ Cells(threads[t]) \subseteq DOMAIN res
  BY <1>2, BaseCase
<1>4. res'[threads[t].idx + 1] = Smaller(t)
  BY <1>1, <1>3
<1>5. /\ threads'[t].l = threads[t].l /\ threads'[t].r = threads[t].r
      /\ lhs' = lhs /\ rhs' = rhs
  BY <1>1, GotoThread DEF caller, args
<1>6. Smaller(t)' = Smaller(t) /\ LFrom(t)' = LFrom(t) /\ RFrom(t)' = RFrom(t)
  BY <1>5 DEF Smaller, LFirst, RFirst, LFrom, RFrom
<1>7. threads[t].idx = LFrom(t) + RFrom(t)
  BY ThreadRange
<1>8. HalfFilled(t)'
  BY <1>4, <1>6, <1>7 DEF HalfFilled
<1>9. Stores(t)
  BY StoreInCells
<1>10. /\ threads[t].pc \in {"entry", "second"} /\ Goto(t, "second") /\ UNCHANGED caller
       /\ "second" = "exited" => Filled(t)'
       /\ "second" = "second" => HalfFilled(t)'
  BY <1>1, <1>8
<1>. QED
  BY <1>9, <1>10, WrittenStore

\* The second.
LEMMA WrittenSecond ==
  ASSUME TreeOK, Nested, Apart, Exits, WrittenOK, NEW t \in DOMAIN threads, StoreSecond(t)
  PROVE  WrittenOK'
<1>1. /\ threads[t].pc = "second" /\ Goto(t, "exited") /\ UNCHANGED caller
      /\ res' = [res EXCEPT ![threads[t].idx + 2] = Larger(t)]
  BY DEF StoreSecond, Runs
<1>2. threads[t].l[2] = 1 /\ threads[t].r[2] = 1
  BY <1>1, OneThread DEF ThreadOK, ThreadState
<1>3. /\ threads[t].idx + 1 \in DOMAIN res /\ threads[t].idx + 2 \in DOMAIN res
      /\ threads[t].idx + 2 \in Cells(threads[t])
  BY <1>2, BaseCase
<1>4. PICK i \in Nat, j \in Nat : i = LFrom(t) /\ j = RFrom(t)
  BY ThreadRange
<1>5. threads[t].idx = i + j /\ LTo(t) = i + 1 /\ RTo(t) = j + 1
  BY <1>2, <1>4, ThreadRange
<1>6. /\ LFirst(t) = lhs[i + 1] /\ RFirst(t) = rhs[j + 1]
      /\ lhs[i + 1] \in Int /\ rhs[j + 1] \in Int
  BY <1>2, <1>4, BaseCase
<1>7. res[i + j + 1] = Smaller(t)
  BY <1>1, <1>4 DEF WrittenOK, HalfFilled
<1>8. res'[i + j + 1] = Smaller(t) /\ res'[i + j + 2] = Larger(t)
  <2>1. i + j + 1 \in DOMAIN res /\ i + j + 2 \in DOMAIN res /\ i + j + 1 # i + j + 2
    BY <1>3, <1>5
  <2>2. res' = [res EXCEPT ![i + j + 2] = Larger(t)]
    BY <1>1, <1>5
  <2>. QED
    BY <1>7, <2>1, <2>2
<1>9. HoldsMerge(res', lhs, rhs, i, j, i + 1, j + 1)
  <2>1. /\ res'[i + j + 1] = IF lhs[i + 1] < rhs[j + 1] THEN lhs[i + 1] ELSE rhs[j + 1]
        /\ res'[i + j + 2] = IF lhs[i + 1] < rhs[j + 1] THEN rhs[j + 1] ELSE lhs[i + 1]
    BY <1>6, <1>8 DEF Smaller, Larger
  <2>. QED
    BY <1>6, <2>1, MergeTwo
<1>10. /\ threads'[t].l = threads[t].l /\ threads'[t].r = threads[t].r
       /\ lhs' = lhs /\ rhs' = rhs
  BY <1>1, GotoThread DEF caller, args
<1>11. Filled(t)'
  <2>1. LFrom(t)' = i /\ RFrom(t)' = j /\ LTo(t)' = i + 1 /\ RTo(t)' = j + 1
    BY <1>4, <1>5, <1>10, SpreadSame
  <2>. QED
    BY <1>9, <1>10, <2>1 DEF Filled
<1>12. Stores(t)
  BY StoreInCells
<1>13. /\ threads[t].pc \in {"entry", "second"} /\ Goto(t, "exited") /\ UNCHANGED caller
       /\ "exited" = "exited" => Filled(t)'
       /\ "exited" = "second" => HalfFilled(t)'
  BY <1>1, <1>11
<1>. QED
  BY <1>12, <1>13, WrittenStore

\* The only one.
LEMMA WrittenOnly ==
  ASSUME TreeOK, Nested, Apart, Exits, WrittenOK, NEW t \in DOMAIN threads, StoreOnly(t)
  PROVE  WrittenOK'
<1>1. /\ threads[t].pc = "entry" /\ Goto(t, "exited") /\ UNCHANGED caller
      /\ Sizes(t) \in {<<1, 0>>, <<0, 1>>}
      /\ res' = [res EXCEPT ![threads[t].idx + 1] =
                   IF Sizes(t) = <<1, 0>> THEN LFirst(t) ELSE RFirst(t)]
  BY DEF StoreOnly, Runs
<1>2. \/ threads[t].l[2] = 1 /\ threads[t].r[2] = 0 /\ Sizes(t) = <<1, 0>>
      \/ threads[t].l[2] = 0 /\ threads[t].r[2] = 1 /\ Sizes(t) # <<1, 0>>
  BY <1>1 DEF Sizes
<1>3. /\ threads[t].idx + 1 \in DOMAIN res /\ threads[t].idx + 1 \in Cells(threads[t])
  BY <1>2, BaseCase
<1>4. PICK i \in Nat, j \in Nat : i = LFrom(t) /\ j = RFrom(t)
  BY ThreadRange
<1>5. /\ threads[t].idx = i + j
      /\ LTo(t) = i + threads[t].l[2] /\ RTo(t) = j + threads[t].r[2]
  BY <1>4, ThreadRange
<1>6. /\ LFirst(t) = lhs[i + 1] /\ RFirst(t) = rhs[j + 1]
      /\ threads[t].l[2] = 1 => lhs[i + 1] \in Int
      /\ threads[t].r[2] = 1 => rhs[j + 1] \in Int
  BY <1>4, BaseCase
<1>7. res'[i + j + 1] = IF Sizes(t) = <<1, 0>> THEN LFirst(t) ELSE RFirst(t)
  BY <1>1, <1>3, <1>5
<1>8. HoldsMerge(res', lhs, rhs, i, j, LTo(t), RTo(t))
  <2>1. CASE threads[t].l[2] = 1 /\ threads[t].r[2] = 0 /\ Sizes(t) = <<1, 0>>
    <3>1. LTo(t) = i + 1 /\ RTo(t) = j
      BY <1>5, <2>1
    <3>2. lhs[i + 1] \in Int /\ res'[i + j + 1] = lhs[i + 1]
      BY <1>6, <1>7, <2>1
    <3>3. HoldsMerge(res', lhs, rhs, i, j, i + 1, j)
      BY <3>2, MergeFew
    <3>. QED
      BY <3>1, <3>3
  <2>2. CASE threads[t].l[2] = 0 /\ threads[t].r[2] = 1 /\ Sizes(t) # <<1, 0>>
    <3>1. LTo(t) = i /\ RTo(t) = j + 1
      BY <1>5, <2>2
    <3>2. rhs[j + 1] \in Int /\ res'[i + j + 1] = rhs[j + 1]
      BY <1>6, <1>7, <2>2
    <3>3. HoldsMerge(res', lhs, rhs, i, j, i, j + 1)
      BY <3>2, MergeFew
    <3>. QED
      BY <3>1, <3>3
  <2>. QED
    BY <1>2, <2>1, <2>2
<1>9. /\ threads'[t].l = threads[t].l /\ threads'[t].r = threads[t].r
      /\ lhs' = lhs /\ rhs' = rhs
  BY <1>1, GotoThread DEF caller, args
<1>10. Filled(t)'
  <2>1. LFrom(t)' = i /\ RFrom(t)' = j /\ LTo(t)' = LTo(t) /\ RTo(t)' = RTo(t)
    BY <1>4, <1>9, SpreadSame
  <2>. QED
    BY <1>8, <1>9, <2>1 DEF Filled
<1>11. Stores(t)
  BY StoreInCells
<1>. QED
  BY <1>1, <1>10, <1>11, WrittenStore

\* A thread that has joined both children finds the merge of its range.
LEMMA HalvesFilled ==
  ASSUME TreeOK, Exits, RangesOK, WrittenOK, NEW t \in DOMAIN threads,
         threads[t].pc = "joinR", threads[Append(t, 1)].pc = "exited"
  PROVE  Filled(t)
<1>1. /\ t \in Seq(Nat) /\ args \in Calls
      /\ Append(t, 0) \in DOMAIN threads /\ Append(t, 1) \in DOMAIN threads
  BY OneThread DEF TreeOK, TypeOK
<1>2. threads[Append(t, 0)].pc = "exited"
  <2>1. Append(t, 0) \in Seq(Nat)
    BY <1>1
  <2>2. IsPrefix(Append(t, 0), Append(t, 0))
    BY <2>1, PrefixOrder
  <2>. QED
    BY <1>1, <2>2 DEF Exits
<1>3. /\ HoldsMerge(res, lhs, rhs, LFrom(t), RFrom(t), LMid(t), RMid(t))
      /\ HoldsMerge(res, lhs, rhs, LMid(t), RMid(t), LTo(t), RTo(t))
  <2>1. Filled(Append(t, 0)) /\ Filled(Append(t, 1))
    BY <1>1, <1>2 DEF WrittenOK
  <2>. QED
    BY <1>1, <2>1 DEF Filled, RangesOK
<1>4. /\ LFrom(t) \in Nat /\ LMid(t) \in Nat /\ LTo(t) \in Nat
      /\ RFrom(t) \in Nat /\ RMid(t) \in Nat /\ RTo(t) \in Nat
      /\ LFrom(t) <= LMid(t) /\ LMid(t) <= LTo(t) /\ LTo(t) <= Len(lhs)
      /\ RFrom(t) <= RMid(t) /\ RMid(t) <= RTo(t) /\ RTo(t) <= Len(rhs)
  BY ThreadRange
<1>5. CutsAt(LMid(t), RMid(t))
  BY DEF RangesOK
<1>6. Divides(lhs, rhs, LFrom(t), RFrom(t), LMid(t), RMid(t), LTo(t), RTo(t))
  BY <1>1, <1>4, <1>5, CutDivides
<1>. QED
  BY <1>3, <1>4, <1>6, MergeJoin DEF Filled

\* No step spoils what the threads have written.
LEMMA NextWritten ==
  ASSUME TreeOK, Nested, Apart, Exits, RangesOK, WrittenOK, [Next]_vars
  PROVE  WrittenOK'
<1>1. ASSUME UNCHANGED <<args, threads, res>> PROVE WrittenOK'
  <2>1. lhs' = lhs /\ rhs' = rhs /\ threads' = threads /\ res' = res
    BY <1>1 DEF args
  <2>. QED
    BY <2>1 DEF WrittenOK, Filled, HalfFilled, Smaller, LFirst, RFirst,
                LFrom, LTo, RFrom, RTo
<1>2. ASSUME DOMAIN threads = {}, threads' = threads PROVE WrittenOK'
  BY <1>2 DEF WrittenOK
<1>3. ASSUME NEW t, NEW u, NEW at \in {"spawnL", "spawnR", "joinL", "joinR"},
             UNCHANGED <<args, res>>, DOMAIN threads' \subseteq DOMAIN threads \cup {u},
             threads'[t].pc = at, u \in DOMAIN threads \/ threads'[u].pc = "entry",
             \A s \in DOMAIN threads \ {t} : threads'[s] = threads[s]
      PROVE  WrittenOK'
  <2>1. lhs' = lhs /\ rhs' = rhs /\ res' = res
    BY <1>3 DEF args
  <2>2. ASSUME NEW s \in DOMAIN threads', s # t, threads'[s].pc \in {"exited", "second"}
        PROVE  s \in DOMAIN threads /\ threads'[s] = threads[s]
    BY <1>3, <2>2
  <2>3. threads'[t].pc # "exited" /\ threads'[t].pc # "second"
    BY <1>3
  <2>. QED
    BY <2>1, <2>2, <2>3, WrittenMove
<1>4. CASE UNCHANGED vars
  BY <1>1, <1>4 DEF vars
<1>5. CASE ReturnOtherSide \/ Enter \/ SplitStep \/ SplitEnd
  <2>1. pc \in {"called", "split"} /\ threads' = threads
    BY <1>5 DEF ReturnOtherSide, Enter, SplitStep, SplitEnd
  <2>. QED
    BY <1>2, <2>1 DEF TreeOK, CallOK
<1>6. CASE SpawnWorker
  <2>. DEFINE u == <<started + 1>>
  <2>1. /\ threads' = WithThread(threads, u, Worker(started + 1)) /\ UNCHANGED <<args, res>>
    BY <1>6 DEF SpawnWorker
  <2>2. Worker(started + 1).pc = "entry"
    BY DEF Worker, Thread
  <2>. HIDE DEF u
  <2>3. /\ DOMAIN threads' = DOMAIN threads \cup {u} /\ threads'[u].pc = "entry"
        /\ \A s \in DOMAIN threads \ {u} : threads'[s] = threads[s]
    BY <2>1, <2>2 DEF WithThread
  <2>4. PICK w : w = u
    OBVIOUS
  <2>5. lhs' = lhs /\ rhs' = rhs /\ res' = res
    BY <2>1 DEF args
  <2>6. ASSUME NEW s \in DOMAIN threads', s # w, threads'[s].pc \in {"exited", "second"}
        PROVE  s \in DOMAIN threads /\ threads'[s] = threads[s]
    BY <2>3, <2>4, <2>6
  <2>7. threads'[w].pc # "exited" /\ threads'[w].pc # "second"
    BY <2>3, <2>4
  <2>. QED
    BY <2>5, <2>6, <2>7, WrittenMove
<1>7. CASE SpawnWorkerFails \/ SpawnEnd \/ JoinWorker \/ Return
  BY <1>1, <1>7 DEF SpawnWorkerFails, Abort, SpawnEnd, JoinWorker, Return
<1>8. ASSUME NEW t \in DOMAIN threads, HighPref_Merge(t) PROVE WrittenOK'
  <2>0. threads[t] \in ThreadState
    BY OneThread DEF ThreadOK
  <2>1. CASE StoreFirst(t) \/ StoreSecond(t) \/ StoreOnly(t)
    BY <2>1, WrittenFirst, WrittenSecond, WrittenOnly
  <2>2. CASE Divide(t)
    <3>1. PICK p, q :
            threads' = [threads EXCEPT ![t].pc = "spawnL", ![t].ldist = p, ![t].rdist = q]
      BY <2>2 DEF Divide
    <3>2. /\ DOMAIN threads' = DOMAIN threads
          /\ \A s \in DOMAIN threads \ {t} : threads'[s] = threads[s]
          /\ threads'[t] = [threads[t] EXCEPT !.pc = "spawnL", !.ldist = p, !.rdist = q]
      BY <3>1
    <3>3. threads'[t].pc = "spawnL" /\ UNCHANGED <<args, res>>
      BY <2>0, <2>2, <3>2 DEF ThreadState, Divide, caller
    <3>. QED
      BY <1>3, <3>2, <3>3
  <2>3. CASE MedianThrows(t) \/ SpawnFails(t)
    BY <1>1, <2>3 DEF MedianThrows, SpawnFails, Abort
  <2>4. CASE MedianSpins(t)
    BY <1>1, <2>4 DEF MedianSpins, vars
  <2>5. CASE SpawnL(t) \/ SpawnR(t)
    <3>1. PICK c \in {0, 1}, at \in {"spawnR", "joinL"}, th \in {LChild(t), RChild(t)} :
            /\ threads' = WithThread([threads EXCEPT ![t].pc = at], Append(t, c), th)
            /\ th.pc = "entry" /\ UNCHANGED <<args, res>>
            /\ threads[t].pc = IF c = 0 THEN "spawnL" ELSE "spawnR"
      <4>1. CASE SpawnL(t)
        BY <4>1, ChildrenOK DEF SpawnL, Runs, caller
      <4>2. CASE SpawnR(t)
        BY <4>2, ChildrenOK DEF SpawnR, Runs, caller
      <4>. QED
        BY <2>5, <4>1, <4>2
    <3>2. PICK u : u = Append(t, c)
      OBVIOUS
    <3>3. u \notin DOMAIN threads
      BY <3>1, <3>2, ChildIsNew
    <3>4. /\ DOMAIN threads' = DOMAIN threads \cup {u} /\ threads'[u] = th
          /\ \A s \in DOMAIN threads :
               threads'[s] = IF s = t THEN [threads[t] EXCEPT !.pc = at] ELSE threads[s]
      BY <3>1, <3>2, <3>3 DEF WithThread
    <3>5. threads'[t].pc = at
      BY <2>0, <3>4 DEF ThreadState
    <3>. QED
      BY <1>3, <3>1, <3>4, <3>5
  <2>6. CASE JoinL(t)
    <3>1. Goto(t, "joinR") /\ UNCHANGED <<args, res>>
      BY <2>6 DEF JoinL, caller
    <3>. QED
      BY <1>3, <3>1, GotoThread
  <2>7. CASE JoinR(t)
    <3>1. /\ threads[t].pc = "joinR" /\ threads[Append(t, 1)].pc = "exited"
          /\ Goto(t, "exited") /\ UNCHANGED <<args, res>>
      BY <2>7 DEF JoinR, Runs, caller
    <3>2. Filled(t)
      BY <3>1, HalvesFilled
    <3>3. /\ DOMAIN threads' = DOMAIN threads /\ threads'[t].pc = "exited"
          /\ threads'[t].l = threads[t].l /\ threads'[t].r = threads[t].r
          /\ \A s \in DOMAIN threads \ {t} : threads'[s] = threads[s]
      BY <3>1, GotoThread
    <3>4. lhs' = lhs /\ rhs' = rhs /\ res' = res
      BY <3>1 DEF args
    <3>5. Filled(t)'
      BY <3>2, <3>3, <3>4, FilledSame
    <3>. QED
      BY <3>3, <3>4, <3>5, WrittenMove
  <2>. QED
    BY <1>8, <2>1, <2>2, <2>3, <2>4, <2>5, <2>6, <2>7 DEF HighPref_Merge
<1>. QED
  BY <1>4, <1>5, <1>6, <1>7, <1>8 DEF Next, Caller, Over

\* The cuts in numbers.
LEMMA CutNumbers ==
  ASSUME TreeOK
  PROVE  /\ pieces \in Nat /\ args \in Calls
         /\ \A j \in 1..pieces : /\ left_pieces[j] \in Nat /\ left_pieces[j] <= Len(lhs)
                                 /\ right_pieces[j] \in Nat /\ right_pieces[j] <= Len(rhs)
                                 /\ CutsAt(left_pieces[j], right_pieces[j])
         /\ \A j, k \in 1..pieces : j <= k => /\ left_pieces[j] <= left_pieces[k]
                                              /\ right_pieces[j] <= right_pieces[k]
<1>1. /\ left_pieces \in Pieces(lhs) /\ right_pieces \in Pieces(rhs) /\ args \in Calls
  BY DEF TreeOK, TypeOK
<1>2. /\ Len(right_pieces) = Len(left_pieces)
      /\ \A j, k \in 1..pieces : j <= k => /\ left_pieces[j] <= left_pieces[k]
                                           /\ right_pieces[j] <= right_pieces[k]
      /\ \A j \in 1..pieces : CutsAt(left_pieces[j], right_pieces[j])
  BY DEF TreeOK, CutsOK, pieces
<1>3. Len(lhs) \in Nat /\ Len(rhs) \in Nat
  BY <1>1, ArgTypes
<1>4. left_pieces \in Seq(0..Len(lhs)) /\ right_pieces \in Seq(0..Len(rhs))
  BY <1>1 DEF Pieces
<1>5. \A j \in 1..pieces : left_pieces[j] \in 0..Len(lhs) /\ right_pieces[j] \in 0..Len(rhs)
  BY <1>2, <1>4 DEF pieces
<1>6. pieces \in Nat
  BY <1>4 DEF pieces
<1>. QED
  BY <1>1, <1>2, <1>3, <1>5, <1>6

\* Nobody writes where a joined worker was to.
LEMMA JoinedStore ==
  ASSUME NEW t \in DOMAIN threads, TreeOK, Nested, Exits, JoinedOK,
         threads[t].pc # "exited", UNCHANGED caller, Stores(t)
  PROVE  JoinedOK'
<1>1. /\ lhs' = lhs /\ rhs' = rhs /\ joined' = joined
      /\ left_pieces' = left_pieces /\ right_pieces' = right_pieces
  BY DEF caller, args, split
<1>2. /\ Split /\ t[1] \in 1..started /\ started \in 0..(pieces - 1) /\ joined \in 0..started
      /\ pieces \in Nat
  <2>1. pieces \in Nat
    BY DEF TreeOK, TypeOK, Pieces, pieces
  <2>. QED
    BY <2>1, OneThread
<1>3. ~(t[1] <= joined)
  BY DEF Exits
<1>4. PICK k, h \in 1..pieces : k = joined + 1 /\ h = t[1] /\ k <= h
  BY <1>2, <1>3
<1>5. /\ left_pieces[k] \in Nat /\ right_pieces[k] \in Nat
      /\ left_pieces[h] \in Nat /\ right_pieces[h] \in Nat
      /\ left_pieces[k] <= left_pieces[h] /\ right_pieces[k] <= right_pieces[h]
  BY <1>4, CutNumbers
<1>6. PICK p \in Cells(threads[t]), v \in Int : res' = [res EXCEPT ![p] = v]
  BY DEF Stores
<1>7. p \in Int /\ p >= left_pieces[h] + right_pieces[h] + 1
  <2>1. p \in PieceCells(h)
    BY <1>4 DEF Nested
  <2>2. p \in Nat
    <3>1. p \in DOMAIN res
      BY CellsInRes
    <3>2. res \in Seq(MinT..MaxT \cup {Unwritten})
      BY OneThread
    <3>. QED
      BY <3>1, <3>2
  <2>. QED
    BY <1>5, <2>1, <2>2 DEF PieceCells
<1>8. HoldsMerge(res, lhs, rhs, 0, 0, left_pieces[k], right_pieces[k])
  BY <1>2, <1>4 DEF JoinedOK
<1>9. \A q \in (0 + 0 + 1)..(left_pieces[k] + right_pieces[k]) : res'[q] = res[q]
  <2>1. ASSUME NEW q \in (0 + 0 + 1)..(left_pieces[k] + right_pieces[k]) PROVE q # p
    BY <1>5, <1>7
  <2>2. res \in Seq(MinT..MaxT \cup {Unwritten})
    BY OneThread
  <2>3. \A q : q # p => res'[q] = res[q]
    BY <1>6, <2>2
  <2>. QED
    BY <2>1, <2>3
<1>10. HoldsMerge(res', lhs, rhs, 0, 0, left_pieces[k], right_pieces[k])
  BY <1>5, <1>8, <1>9, MergeSame
<1>. QED
  BY <1>1, <1>4, <1>10 DEF JoinedOK

\* The caller joins the next worker.
LEMMA JoinedNext ==
  ASSUME TreeOK, RangesOK, WrittenOK, JoinedOK, JoinWorker
  PROVE  JoinedOK'
<1>1. /\ pc = "join" /\ joined < started /\ threads[<<joined + 1>>].pc = "exited"
      /\ joined' = joined + 1 /\ res' = res
      /\ lhs' = lhs /\ rhs' = rhs
      /\ left_pieces' = left_pieces /\ right_pieces' = right_pieces
  BY DEF JoinWorker, args, split
<1>2. /\ args \in Calls /\ Split /\ started \in Nat /\ started <= pieces - 1 /\ joined \in Nat
      /\ pieces \in Nat /\ \A k \in 1..started : <<k>> \in DOMAIN threads
  <2>1. /\ Split /\ pieces \in Nat /\ args \in Calls /\ started \in 0..pieces /\ joined \in 0..started
    BY <1>1 DEF TreeOK, TypeOK, CallOK, Pieces, pieces
  <2>. QED
    BY <2>1 DEF TreeOK, CallOK, Paths
<1>3. PICK k \in 1..pieces : k = joined + 1 /\ k + 1 \in 1..pieces /\ <<k>> \in DOMAIN threads
  BY <1>1, <1>2
<1>4. /\ left_pieces[k] \in Nat /\ right_pieces[k] \in Nat
      /\ left_pieces[k + 1] \in Nat /\ right_pieces[k + 1] \in Nat
      /\ left_pieces[k] <= left_pieces[k + 1] /\ right_pieces[k] <= right_pieces[k + 1]
      /\ left_pieces[k + 1] <= Len(lhs) /\ right_pieces[k + 1] <= Len(rhs)
      /\ CutsAt(left_pieces[k], right_pieces[k])
  <2>1. k <= k + 1
    OBVIOUS
  <2>. QED
    BY <1>3, <2>1, CutNumbers
<1>5. HoldsMerge(res, lhs, rhs, 0, 0, left_pieces[k], right_pieces[k])
  BY <1>2, <1>3 DEF JoinedOK
<1>6. HoldsMerge(res, lhs, rhs, left_pieces[k], right_pieces[k], left_pieces[k + 1], right_pieces[k + 1])
  <2>1. Filled(<<k>>)
    BY <1>1, <1>3 DEF WrittenOK
  <2>. QED
    BY <1>3, <2>1 DEF Filled, RangesOK
<1>7. Divides(lhs, rhs, 0, 0, left_pieces[k], right_pieces[k], left_pieces[k + 1], right_pieces[k + 1])
  <2>1. 0 \in Nat /\ 0 <= left_pieces[k] /\ 0 <= right_pieces[k]
    BY <1>4
  <2>2. args \in Calls
    BY <1>2
  <2>. QED
    BY <1>4, <2>1, <2>2, CutDivides
<1>8. HoldsMerge(res, lhs, rhs, 0, 0, left_pieces[k + 1], right_pieces[k + 1])
  BY <1>4, <1>5, <1>6, <1>7, MergeJoin
<1>9. joined' + 1 = k + 1
  BY <1>1, <1>3
<1>. QED
  BY <1>1, <1>8, <1>9 DEF JoinedOK

\* What stands where the joined workers wrote, and how far the caller is.
LEMMA NextJoined ==
  ASSUME TreeOK, Nested, Exits, RangesOK, WrittenOK, JoinedOK, CallerOK, [Next]_vars
  PROVE  JoinedOK' /\ CallerOK'
<1>1. ASSUME UNCHANGED <<args, split, joined, res>>, Split' => Split PROVE JoinedOK'
  <2>1. /\ lhs' = lhs /\ rhs' = rhs /\ joined' = joined /\ res' = res
        /\ left_pieces' = left_pieces /\ right_pieces' = right_pieces
    BY <1>1 DEF args, split
  <2>. QED
    BY <1>1, <2>1 DEF JoinedOK
<1>2. ASSUME UNCHANGED <<args, split, started, joined>>, pc' = pc \/ pc' \in {"spawn", "aborted"},
             Split' => Split
      PROVE  CallerOK'
  <2>1. started' = started /\ joined' = joined /\ pieces' = pieces
    BY <1>2 DEF split, pieces
  <2>. QED
    BY <1>2, <2>1 DEF CallerOK
<1>3. ASSUME pc' = pc, UNCHANGED args PROVE Split' => Split
  BY <1>3 DEF Split, args
<1>4. CASE UNCHANGED vars
  BY <1>1, <1>2, <1>3, <1>4 DEF vars
<1>5. CASE ReturnOtherSide \/ Enter \/ SplitStep
  <2>1. ~Split'
    BY <1>5 DEF ReturnOtherSide, Enter, SplitStep, Split, args
  <2>. QED
    BY <2>1 DEF JoinedOK, CallerOK
<1>6. CASE SplitEnd
  <2>1. TreeOK'
    BY NextTree
  <2>2. joined' = 0 /\ pc' = "spawn"
    <3>1. pc = "split" /\ joined' = joined /\ pc' = "spawn"
      BY <1>6 DEF SplitEnd
    <3>2. joined = 0
      BY <3>1 DEF TreeOK, CallOK, TypeOK
    <3>. QED
      BY <3>1, <3>2
  <2>3. left_pieces'[1] = 0 /\ right_pieces'[1] = 0
    BY <2>1 DEF TreeOK, TypeOK, Pieces
  <2>4. HoldsMerge(res', lhs', rhs', 0, 0, 0, 0)
    BY MergeFew
  <2>. QED
    BY <2>2, <2>3, <2>4 DEF JoinedOK, CallerOK
<1>7. CASE SpawnWorker \/ SpawnWorkerFails
  <2>1. /\ pc = "spawn" /\ pc' \in {"spawn", "aborted"} /\ UNCHANGED <<args, split, joined, res>>
    BY <1>7 DEF SpawnWorker, SpawnWorkerFails, Abort
  <2>2. Split' => Split
    BY <2>1 DEF Split, args
  <2>3. CallerOK'
    BY <2>1 DEF CallerOK
  <2>. QED
    BY <1>1, <2>1, <2>2, <2>3
<1>8. CASE SpawnEnd
  <2>1. /\ pc = "spawn" /\ pc' = "join" /\ UNCHANGED <<args, split, started, joined, res>>
        /\ started = pieces - 1
    BY <1>8 DEF SpawnEnd, pieces
  <2>2. Split' => Split
    BY <2>1 DEF Split, args
  <2>3. CallerOK'
    BY <2>1 DEF CallerOK, pieces, split
  <2>. QED
    BY <1>1, <2>1, <2>2, <2>3
<1>9. CASE JoinWorker
  <2>1. /\ pc = "join" /\ pc' = "join" /\ started' = started /\ UNCHANGED <<args, split>>
    BY <1>9 DEF JoinWorker
  <2>2. CallerOK'
    BY <1>3, <2>1 DEF CallerOK, pieces, split
  <2>. QED
    BY <1>9, <2>2, JoinedNext
<1>10. CASE Return
  <2>1. /\ pc = "join" /\ pc' = "done" /\ UNCHANGED <<args, split, started, joined, res>>
        /\ joined = started
    BY <1>10 DEF Return
  <2>2. Split' => Split
    BY <2>1 DEF Split, args
  <2>3. CallerOK'
    BY <2>1, <2>2 DEF CallerOK, pieces, split
  <2>. QED
    BY <1>1, <2>1, <2>2, <2>3
<1>11. ASSUME NEW t \in DOMAIN threads, HighPref_Merge(t) PROVE JoinedOK' /\ CallerOK'
  <2>1. CASE StoreFirst(t) \/ StoreSecond(t) \/ StoreOnly(t)
    <3>1. UNCHANGED caller /\ threads[t].pc # "exited"
      BY <2>1 DEF StoreFirst, StoreSecond, StoreOnly, Runs
    <3>2. Stores(t)
      BY <2>1, StoreInCells
    <3>3. JoinedOK'
      BY <3>1, <3>2, JoinedStore
    <3>4. CallerOK'
      BY <1>2, <1>3, <3>1 DEF caller
    <3>. QED
      BY <3>3, <3>4
  <2>2. CASE Divide(t) \/ SpawnL(t) \/ SpawnR(t) \/ JoinL(t) \/ JoinR(t)
    <3>1. UNCHANGED <<args, pc, split, started, joined, res>>
      BY <2>2 DEF Divide, SpawnL, SpawnR, JoinL, JoinR, caller
    <3>. QED
      BY <1>1, <1>2, <1>3, <3>1
  <2>3. CASE MedianThrows(t) \/ SpawnFails(t)
    <3>1. pc' = "aborted" /\ UNCHANGED <<args, split, started, joined, res>> /\ Split
      BY <2>3, OneThread DEF MedianThrows, SpawnFails, Abort
    <3>. QED
      BY <1>1, <1>2, <3>1
  <2>4. CASE MedianSpins(t)
    <3>1. UNCHANGED <<args, pc, split, started, joined, res>>
      BY <2>4 DEF MedianSpins, vars
    <3>. QED
      BY <1>1, <1>2, <1>3, <3>1
  <2>. QED
    BY <1>11, <2>1, <2>2, <2>3, <2>4 DEF HighPref_Merge
<1>. QED
  BY <1>4, <1>5, <1>6, <1>7, <1>8, <1>9, <1>10, <1>11 DEF Next, Caller, Over

\* With nothing on one side, the other side.
OtherSide == pc = "done" /\ ~Split => res = IF lhs = <<>> THEN rhs ELSE lhs

\* No step takes that back: the call is over, or has values on both sides.
LEMMA NextOtherSide ==
  ASSUME TreeOK, OtherSide, [Next]_vars
  PROVE  OtherSide'
<1>1. CASE UNCHANGED vars
  BY <1>1 DEF vars, args, OtherSide, Split
<1>2. CASE Caller
  <2>1. CASE ReturnOtherSide
    BY <2>1 DEF ReturnOtherSide, OtherSide, Split, args
  <2>2. CASE Return
    <3>1. Split
      BY <2>2 DEF Return, TreeOK, CallOK
    <3>2. Split'
      BY <2>2, <3>1 DEF Return, Split, args
    <3>. QED
      BY <3>2 DEF OtherSide
  <2>3. CASE Enter \/ SplitStep \/ SplitEnd \/ SpawnWorker \/ SpawnWorkerFails \/ SpawnEnd \/ JoinWorker
    BY <2>3 DEF Enter, SplitStep, SplitEnd, SpawnWorker, SpawnWorkerFails, SpawnEnd, JoinWorker,
                Abort, OtherSide
  <2>. QED
    BY <1>2, <2>1, <2>2, <2>3 DEF Caller
<1>3. ASSUME NEW t \in DOMAIN threads, HighPref_Merge(t) PROVE OtherSide'
  <2>1. Split
    BY OneThread
  <2>2. UNCHANGED args /\ pc' \in {pc, "aborted"}
    BY <1>3 DEF HighPref_Merge, StoreFirst, StoreSecond, StoreOnly, Divide, MedianThrows, MedianSpins,
                SpawnL, SpawnR, SpawnFails, JoinL, JoinR, Abort, caller, vars
  <2>3. Split'
    BY <2>1, <2>2 DEF Split, args
  <2>. QED
    BY <2>3 DEF OtherSide
<1>4. CASE Over
  BY <1>1, <1>4 DEF Over
<1>. QED
  BY <1>1, <1>2, <1>3, <1>4 DEF Next

\* PMerge returns nothing but the merge, also of vectors with repeated values.
Returned ==
  pc = "done" => res = IF lhs = <<>> THEN rhs ELSE IF rhs = <<>> THEN lhs ELSE Merged(lhs, rhs)

\* Once the last worker is joined, the merge of the last cut is the merge of the vectors.
LEMMA JoinedReturns == TreeOK /\ JoinedOK /\ CallerOK /\ OtherSide => Returned
<1>. SUFFICES ASSUME TreeOK, JoinedOK, CallerOK, OtherSide, pc = "done"
              PROVE  res = IF lhs = <<>> THEN rhs ELSE IF rhs = <<>> THEN lhs ELSE Merged(lhs, rhs)
  BY DEF Returned
<1>1. CASE ~Split
  <2>1. lhs = <<>> \/ rhs = <<>>
    BY <1>1 DEF Split
  <2>. QED
    BY <1>1, <2>1 DEF OtherSide
<1>2. CASE Split
  <2>1. /\ args \in Calls /\ res \in Seq(MinT..MaxT \cup {Unwritten}) /\ Len(res) = z_val
        /\ left_pieces[pieces] = Len(lhs) /\ right_pieces[pieces] = Len(rhs)
    BY <1>2 DEF TreeOK, TypeOK, CallOK
  <2>2. /\ lhs \in Seq(Int) /\ rhs \in Seq(Int)
        /\ Len(lhs) \in Nat /\ Len(rhs) \in Nat /\ z_val = Len(lhs) + Len(rhs)
    BY <2>1, ArgTypes DEF z_val
  <2>3. joined + 1 = pieces
    <3>1. joined = pieces - 1
      BY <1>2 DEF CallerOK
    <3>2. pieces \in Nat
      BY CutNumbers
    <3>. QED
      BY <3>1, <3>2
  <2>4. HoldsMerge(res, lhs, rhs, 0, 0, Len(lhs), Len(rhs))
    BY <1>2, <2>1, <2>3 DEF JoinedOK
  <2>5. \A p \in 1..Len(res) : res[p] \in Int
    <3>1. \A p \in (0 + 0 + 1)..(Len(lhs) + Len(rhs)) : res[p] \in Int
      BY <2>4 DEF HoldsMerge
    <3>2. \A p \in 1..Len(res) : p \in (0 + 0 + 1)..(Len(lhs) + Len(rhs))
      BY <2>1, <2>2
    <3>. QED
      BY <3>1, <3>2
  <2>6. Vector(lhs, Len(lhs)) /\ Vector(rhs, Len(rhs)) /\ Vector(res, Len(lhs) + Len(rhs))
    <3>1. res \in Seq(Int)
      BY <2>1, <2>5, ElementOfSeq, SeqDef
    <3>. QED
      BY <2>1, <2>2, <3>1 DEF Vector
  <2>7. res = Merged(lhs, rhs)
    BY <2>2, <2>4, <2>6, MergeAll
  <2>. QED
    BY <1>2, <2>7 DEF Split
<1>. QED
  BY <1>1, <1>2

---------------------------------------------------------------------------------
(* The arithmetic of the split loop. *)

\* The split loop leaves the last worker nothing.
NothingLeft == LastPieceEmpty(z_val, n_workers)

\* How many values lie in front of a cut.
CutSum(k) == left_pieces[k] + right_pieces[k]

\* No piece cut inside the loop is empty, and what is left of the loop decides whether the
\* last one is.
LoopOK ==
  /\ pc = "split" =>
       /\ \A k \in 1..(pieces - 1) : CutSum(k) < CutSum(k + 1)
       /\ count < z_val => NothingLeft = CutLoop(z_val, n_workers)[<<count, idx>>]
       /\ count = z_val => NothingLeft = (CutSum(pieces) = z_val)
  /\ Split =>
       /\ pieces >= 2
       /\ \A k \in 1..(pieces - 2) : CutSum(k) < CutSum(k + 1)
       /\ NothingLeft = (CutSum(pieces - 1) = z_val)

\* The cuts of a longer sequence.
LEMMA AppendSums ==
  ASSUME TreeOK, NEW i \in Nat, NEW j \in Nat,
         left_pieces' = Append(left_pieces, i), right_pieces' = Append(right_pieces, j)
  PROVE  /\ pieces' = pieces + 1 /\ pieces \in Nat /\ pieces >= 1
         /\ \A k \in 1..pieces : left_pieces'[k] + right_pieces'[k] = CutSum(k)
         /\ left_pieces'[pieces + 1] + right_pieces'[pieces + 1] = i + j
<1>1. /\ left_pieces \in Seq(Nat) /\ right_pieces \in Seq(Nat) /\ Len(right_pieces) = Len(left_pieces)
      /\ left_pieces # <<>>
  <2>1. left_pieces \in Seq(0..Len(lhs)) /\ right_pieces \in Seq(0..Len(rhs)) /\ left_pieces # <<>>
    BY DEF TreeOK, TypeOK, Pieces
  <2>2. Len(right_pieces) = Len(left_pieces)
    BY DEF TreeOK, CutsOK, pieces
  <2>3. /\ \A k \in 1..Len(left_pieces) : left_pieces[k] \in Nat
        /\ \A k \in 1..Len(right_pieces) : right_pieces[k] \in Nat
    BY <2>1
  <2>. QED
    BY <2>1, <2>2, <2>3
<1>2. pieces' = pieces + 1 /\ pieces \in Nat /\ pieces >= 1
  BY <1>1 DEF pieces
<1>3. \A k \in 1..pieces : left_pieces'[k] = left_pieces[k] /\ right_pieces'[k] = right_pieces[k]
  BY <1>1 DEF pieces
<1>4. left_pieces'[pieces + 1] = i /\ right_pieces'[pieces + 1] = j
  BY <1>1 DEF pieces
<1>5. \A k \in 1..pieces : left_pieces'[k] + right_pieces'[k] = CutSum(k)
  BY <1>3 DEF CutSum
<1>. QED
  BY <1>2, <1>4, <1>5

\* One turn of the split loop, and what it does to the question.
LEMMA SplitLoop ==
  ASSUME TreeOK, LoopOK, SplitStep
  PROVE  LoopOK'
<1>1. /\ pc = "split" /\ pc' = "split" /\ count < z_val /\ count' = count + 1 /\ UNCHANGED args
  BY DEF SplitStep
<1>2. /\ args \in Calls /\ count \in 0..z_val /\ idx \in Nat \ {0} /\ z_val \in Nat /\ z_val' = z_val
      /\ n_workers' = n_workers /\ n_workers \in Nat /\ n_workers > 0
      /\ left_idx \in Nat /\ right_idx \in Nat
  <2>1. args \in Calls /\ count \in 0..z_val /\ idx \in 1..(z_val + 1)
        /\ left_idx \in 0..Len(lhs) /\ right_idx \in 0..Len(rhs)
    BY DEF TreeOK, TypeOK
  <2>2. z_val' = z_val /\ n_workers' = n_workers
    BY <1>1 DEF args, z_val
  <2>. QED
    BY <2>1, <2>2, ArgTypes
<1>3. /\ left_idx' \in Nat /\ right_idx' \in Nat /\ left_idx' + right_idx' = count + 1
      /\ count = left_idx + right_idx
  <2>1. CutsAt(left_idx, right_idx) /\ count = left_idx + right_idx /\ TypeOK
    BY <1>1 DEF TreeOK, SplitOK
  <2>. QED
    BY <1>1, <2>1, StepKeepsCut
<1>4. CutSum(pieces) <= count /\ pieces \in Nat /\ pieces >= 1
  <2>1. /\ left_pieces[pieces] <= left_idx /\ right_pieces[pieces] <= right_idx
    BY <1>1 DEF TreeOK, SplitOK
  <2>2. pieces \in 1..pieces /\ pieces \in Nat
    <3>1. left_pieces \in Seq(0..Len(lhs)) /\ left_pieces # <<>>
      BY DEF TreeOK, TypeOK, Pieces
    <3>. QED
      BY <3>1 DEF pieces
  <2>3. left_pieces[pieces] \in Nat /\ right_pieces[pieces] \in Nat
    BY <2>2, CutNumbers
  <2>. QED
    BY <1>2, <1>3, <2>1, <2>2, <2>3 DEF CutSum
<1>5. NothingLeft = CutTurn(z_val, n_workers, CutLoop(z_val, n_workers), count, idx)
  <2>1. count \in 0..(z_val - 1)
    BY <1>1, <1>2
  <2>2. CutLoop(z_val, n_workers)[<<count, idx>>]
        = CutTurn(z_val, n_workers, CutLoop(z_val, n_workers), count, idx)
    BY <1>2, <2>1, CutLoopTurn
  <2>. QED
    BY <1>1, <2>2 DEF LoopOK
<1>6. NothingLeft' = NothingLeft
  BY <1>2 DEF NothingLeft
<1>7. /\ count = z_val - 1 => NothingLeft = Cuts
      /\ count # z_val - 1 =>
           NothingLeft = CutLoop(z_val, n_workers)[<<count + 1, IF Cuts THEN idx + 1 ELSE idx>>]
  BY <1>5 DEF CutTurn, Cuts
<1>8. idx' = IF Cuts THEN idx + 1 ELSE idx
  BY DEF SplitStep
<1>9. count' < z_val' => NothingLeft' = CutLoop(z_val', n_workers')[<<count', idx'>>]
  <2>. SUFFICES ASSUME count' < z_val' PROVE NothingLeft' = CutLoop(z_val', n_workers')[<<count', idx'>>]
    OBVIOUS
  <2>1. count # z_val - 1
    BY <1>1, <1>2
  <2>. QED
    BY <1>1, <1>2, <1>6, <1>7, <1>8, <2>1
<1>10. ~Split'
  BY <1>1 DEF Split
<1>11. CASE Cuts
  <2>1. left_pieces' = Append(left_pieces, left_idx') /\ right_pieces' = Append(right_pieces, right_idx')
    BY <1>11 DEF SplitStep
  <2>2. /\ pieces' = pieces + 1
        /\ \A k \in 1..pieces : CutSum(k) = left_pieces'[k] + right_pieces'[k]
        /\ left_pieces'[pieces + 1] + right_pieces'[pieces + 1] = count + 1
    BY <1>3, <2>1, AppendSums
  <2>3. ASSUME NEW k \in 1..(pieces' - 1)
        PROVE  left_pieces'[k] + right_pieces'[k] < left_pieces'[k + 1] + right_pieces'[k + 1]
    <3>1. CASE k = pieces
      <4>1. left_pieces'[k] + right_pieces'[k] = CutSum(pieces)
        BY <1>4, <2>2, <3>1
      <4>2. left_pieces'[k + 1] + right_pieces'[k + 1] = count + 1
        BY <2>2, <3>1
      <4>3. CutSum(pieces) \in Int
        <5>1. pieces \in 1..pieces
          BY <1>4
        <5>. QED
          BY <5>1, CutNumbers DEF CutSum
      <4>. QED
        BY <1>2, <1>4, <4>1, <4>2, <4>3
    <3>2. CASE k # pieces
      <4>1. k \in 1..(pieces - 1) /\ k \in 1..pieces /\ k + 1 \in 1..pieces
        BY <1>4, <2>2, <3>2
      <4>2. CutSum(k) < CutSum(k + 1)
        BY <1>1, <4>1 DEF LoopOK
      <4>. QED
        BY <2>2, <4>1, <4>2
    <3>. QED
      BY <3>1, <3>2
  <2>4. count' = z_val' => NothingLeft' = (left_pieces'[pieces'] + right_pieces'[pieces'] = z_val')
    <3>. SUFFICES ASSUME count + 1 = z_val
                  PROVE  NothingLeft = (left_pieces'[pieces + 1] + right_pieces'[pieces + 1] = z_val)
      BY <1>1, <1>2, <1>6, <2>2
    <3>1. NothingLeft = Cuts
      BY <1>2, <1>7
    <3>. QED
      BY <1>11, <2>2, <3>1 DEF Cuts
  <2>. QED
    BY <1>1, <1>9, <1>10, <2>3, <2>4 DEF LoopOK, CutSum
<1>12. CASE ~Cuts
  <2>1. left_pieces' = left_pieces /\ right_pieces' = right_pieces /\ pieces' = pieces
    BY <1>12 DEF SplitStep, pieces
  <2>2. \A k \in 1..(pieces - 1) : CutSum(k) < CutSum(k + 1)
    BY <1>1 DEF LoopOK
  <2>3. count' = z_val' => NothingLeft' = (CutSum(pieces) = z_val')
    <3>. SUFFICES ASSUME count + 1 = z_val PROVE NothingLeft = (CutSum(pieces) = z_val)
      BY <1>1, <1>2, <1>6
    <3>1. NothingLeft = Cuts
      BY <1>2, <1>7
    <3>2. CutSum(pieces) # z_val
      BY <1>2, <1>4
    <3>. QED
      BY <1>12, <3>1, <3>2 DEF Cuts
  <2>. QED
    BY <1>1, <1>9, <1>10, <2>1, <2>2, <2>3 DEF LoopOK, CutSum
<1>. QED
  BY <1>11, <1>12

\* The end of the split loop.
LEMMA SplitEndLoop ==
  ASSUME TreeOK, LoopOK, SplitEnd
  PROVE  LoopOK'
<1>1. /\ pc = "split" /\ pc' = "spawn" /\ count >= z_val /\ UNCHANGED args
      /\ left_pieces' = Append(left_pieces, left_idx) /\ right_pieces' = Append(right_pieces, right_idx)
  BY DEF SplitEnd
<1>2. /\ args \in Calls /\ count \in 0..z_val /\ z_val \in Nat /\ z_val' = z_val
      /\ n_workers' = n_workers /\ left_idx \in Nat /\ right_idx \in Nat
  <2>1. args \in Calls /\ count \in 0..z_val
        /\ left_idx \in 0..Len(lhs) /\ right_idx \in 0..Len(rhs)
    BY DEF TreeOK, TypeOK
  <2>2. z_val' = z_val /\ n_workers' = n_workers
    BY <1>1 DEF args, z_val
  <2>. QED
    BY <2>1, <2>2, ArgTypes
<1>3. /\ pieces' = pieces + 1 /\ pieces \in Nat /\ pieces >= 1
      /\ \A k \in 1..pieces : left_pieces'[k] + right_pieces'[k] = CutSum(k)
  BY <1>1, <1>2, AppendSums
<1>4. NothingLeft' = NothingLeft /\ NothingLeft = (CutSum(pieces) = z_val)
  <2>1. count = z_val
    BY <1>1, <1>2
  <2>. QED
    BY <1>1, <1>2, <2>1 DEF NothingLeft, LoopOK
<1>5. pieces' >= 2 /\ pieces' - 1 = pieces /\ pieces' - 2 = pieces - 1
  BY <1>3
<1>6. \A k \in 1..(pieces - 1) : left_pieces'[k] + right_pieces'[k] < left_pieces'[k + 1] + right_pieces'[k + 1]
  <2>. SUFFICES ASSUME NEW k \in 1..(pieces - 1)
                PROVE  left_pieces'[k] + right_pieces'[k] < left_pieces'[k + 1] + right_pieces'[k + 1]
    OBVIOUS
  <2>1. k \in 1..pieces /\ k + 1 \in 1..pieces
    BY <1>3
  <2>2. CutSum(k) < CutSum(k + 1)
    BY <1>1 DEF LoopOK
  <2>. QED
    BY <1>3, <2>1, <2>2
<1>7. NothingLeft' = (left_pieces'[pieces' - 1] + right_pieces'[pieces' - 1] = z_val')
  <2>1. pieces \in 1..pieces
    BY <1>3
  <2>. QED
    BY <1>2, <1>3, <1>4, <1>5, <2>1
<1>8. pc' # "split"
  BY <1>1
<1>. QED
  BY <1>5, <1>6, <1>7, <1>8 DEF LoopOK, CutSum

\* Every step keeps that: outside the loop it only has to stay as it is.
LEMMA NextLoop ==
  ASSUME TreeOK, LoopOK, [Next]_vars
  PROVE  LoopOK'
<1>1. ASSUME UNCHANGED <<args, split>>, pc' = pc \/ (pc # "called" /\ pc # "split"), pc' # "split" \/ pc = "split",
             Split' => Split
      PROVE  LoopOK'
  <2>1. /\ left_pieces' = left_pieces /\ right_pieces' = right_pieces /\ pieces' = pieces
        /\ count' = count /\ idx' = idx /\ z_val' = z_val /\ n_workers' = n_workers
        /\ NothingLeft' = NothingLeft
    BY <1>1 DEF args, split, pieces, z_val, NothingLeft
  <2>. QED
    BY <1>1, <2>1 DEF LoopOK, CutSum
<1>2. CASE UNCHANGED vars
  BY <1>1, <1>2 DEF vars, Split, args
<1>3. CASE ReturnOtherSide
  <2>1. ~Split' /\ pc' # "split"
    BY <1>3 DEF ReturnOtherSide, Split, args
  <2>. QED
    BY <2>1 DEF LoopOK
<1>4. CASE Enter
  <2>1. /\ left_pieces' = <<0>> /\ count' = 0 /\ idx' = 1 /\ z_val' = z_val /\ n_workers' = n_workers
        /\ pc' = "split" /\ lhs # <<>> /\ rhs # <<>>
    <3>1. pc = "called" /\ pc' = "split" /\ UNCHANGED <<args, split>> /\ lhs # <<>> /\ rhs # <<>>
      BY <1>4 DEF Enter
    <3>2. left_pieces = <<0>> /\ count = 0 /\ idx = 1
      BY <3>1 DEF TreeOK, CallOK
    <3>. QED
      BY <3>1, <3>2 DEF args, split, z_val
  <2>2. pieces' = 1
    BY <2>1 DEF pieces
  <2>3. z_val > 0
    <3>1. args \in Calls
      BY DEF TreeOK, TypeOK
    <3>2. lhs \in Seq(Int) /\ rhs \in Seq(Int)
      BY <3>1, ArgTypes
    <3>3. Len(lhs) \in Nat /\ Len(rhs) \in Nat /\ Len(lhs) > 0 /\ Len(rhs) > 0
      BY <2>1, <3>2
    <3>. QED
      BY <3>3 DEF z_val
  <2>4. NothingLeft' = CutLoop(z_val', n_workers')[<<count', idx'>>]
    BY <2>1, CutLoopChoice DEF NothingLeft
  <2>5. ~Split' /\ z_val' # 0
    BY <2>1, <2>3 DEF Split
  <2>6. \A k \in 1..(pieces' - 1) : CutSum(k)' < CutSum(k + 1)'
    BY <2>2
  <2>. QED
    BY <2>1, <2>4, <2>5, <2>6 DEF LoopOK, CutSum
<1>5. CASE SpawnWorker \/ SpawnWorkerFails \/ SpawnEnd \/ JoinWorker \/ Return
  <2>1. UNCHANGED <<args, split>> /\ pc \in {"spawn", "join"} /\ pc' # "split" /\ pc' # "called"
    BY <1>5 DEF SpawnWorker, SpawnWorkerFails, SpawnEnd, JoinWorker, Return, Abort
  <2>2. Split
    BY <2>1 DEF TreeOK, CallOK
  <2>. QED
    BY <1>1, <2>1, <2>2
<1>6. ASSUME NEW t \in DOMAIN threads, HighPref_Merge(t) PROVE LoopOK'
  <2>1. Split
    BY OneThread
  <2>2. UNCHANGED <<args, split>> /\ pc' \in {pc, "aborted"}
    BY <1>6 DEF HighPref_Merge, StoreFirst, StoreSecond, StoreOnly, Divide, MedianThrows, MedianSpins,
                SpawnL, SpawnR, SpawnFails, JoinL, JoinR, Abort, caller, vars
  <2>. QED
    BY <1>1, <2>1, <2>2 DEF Split
<1>. QED
  BY <1>2, <1>3, <1>4, <1>5, <1>6, SplitLoop, SplitEndLoop DEF Next, Caller, Over

---------------------------------------------------------------------------------
(* Empty pieces. *)

Empty(t) == threads[t].l[2] = 0 /\ threads[t].r[2] = 0

\* A thread with nothing to merge gets no further than FindMedian.
Stuck == \A t \in DOMAIN threads : Empty(t) => threads[t].pc = "entry"

\* A step of a thread keeps what it merges; it starts children with new ones.
LEMMA MoveStuck ==
  ASSUME TreeOK, Stuck, NEW t \in DOMAIN threads, ~Empty(t),
         DOMAIN threads' = DOMAIN threads,
         threads'[t].l = threads[t].l, threads'[t].r = threads[t].r,
         \A s \in DOMAIN threads \ {t} : threads'[s] = threads[s]
  PROVE  Stuck'
<1>. SUFFICES ASSUME NEW s \in DOMAIN threads', Empty(s)' PROVE threads'[s].pc = "entry"
  BY DEF Stuck
<1>1. s # t
  BY DEF Empty
<1>2. threads'[s] = threads[s] /\ s \in DOMAIN threads
  BY <1>1
<1>. QED
  BY <1>2 DEF Stuck, Empty

\* A thread is started at its entry, by one with something to merge or by the caller.
LEMMA GrowStuck ==
  ASSUME Stuck, NEW t, NEW u, NEW th, NEW at, th.pc = "entry",
         threads' = WithThread([threads EXCEPT ![t].pc = at], u, th) \/ threads' = WithThread(threads, u, th),
         t \in DOMAIN threads => ~Empty(t), \A s \in DOMAIN threads : threads[s] \in ThreadState
  PROVE  Stuck'
<1>. SUFFICES ASSUME NEW s \in DOMAIN threads', Empty(s)' PROVE threads'[s].pc = "entry"
  BY DEF Stuck
<1>1. CASE s = u
  BY <1>1 DEF WithThread
<1>2. CASE s # u
  <2>1. s \in DOMAIN threads
    BY <1>2 DEF WithThread
  <2>2. threads'[s] = threads[s] \/ (s = t /\ threads'[s] = [threads[s] EXCEPT !.pc = at])
    BY <1>2, <2>1 DEF WithThread
  <2>3. threads'[s].l = threads[s].l /\ threads'[s].r = threads[s].r
    BY <2>1, <2>2 DEF ThreadState
  <2>4. Empty(s)
    BY <2>3 DEF Empty
  <2>5. threads'[s] = threads[s]
    BY <2>1, <2>2, <2>4
  <2>. QED
    BY <2>1, <2>4, <2>5 DEF Stuck
<1>. QED
  BY <1>1, <1>2

\* FindMedian throws on nothing, so no step takes a thread with nothing to merge further.
LEMMA NextStuck ==
  ASSUME TreeOK, RangesOK, Stuck, [Next]_vars
  PROVE  Stuck'
<1>1. ASSUME UNCHANGED threads PROVE Stuck'
  BY <1>1 DEF Stuck, Empty
<1>2. CASE SpawnWorker
  <2>1. /\ started < Len(left_pieces) - 1
        /\ threads' = WithThread(threads, <<started + 1>>, Worker(started + 1))
    BY <1>2 DEF SpawnWorker
  <2>2. Worker(started + 1).pc = "entry"
    BY DEF Worker, Thread
  <2>3. \A s \in DOMAIN threads : threads[s] \in ThreadState
    BY DEF TreeOK, Paths
  <2>4. PICK t : t \notin DOMAIN threads
    <3>1. <<>> \notin DOMAIN threads
      BY OneThread
    <3>. QED
      BY <3>1
  <2>. QED
    BY <2>1, <2>2, <2>3, <2>4, GrowStuck
<1>3. ASSUME NEW t \in DOMAIN threads, HighPref_Merge(t) PROVE Stuck'
  <2>1. threads[t] \in ThreadState /\ threads[t].l[2] \in Nat /\ threads[t].r[2] \in Nat
    BY OneThread, ThreadRange DEF ThreadOK
  <2>2. CASE StoreFirst(t) \/ StoreSecond(t) \/ StoreOnly(t) \/ JoinL(t) \/ JoinR(t)
    <3>1. PICK at : Goto(t, at)
      BY <2>2 DEF StoreFirst, StoreSecond, StoreOnly, JoinL, JoinR
    <3>2. /\ DOMAIN threads' = DOMAIN threads
          /\ \A s \in DOMAIN threads \ {t} : threads'[s] = threads[s]
          /\ threads'[t].l = threads[t].l /\ threads'[t].r = threads[t].r
      BY <3>1, GotoThread
    <3>3. ~Empty(t)
      <4>1. CASE StoreFirst(t) \/ StoreOnly(t)
        BY <4>1 DEF StoreFirst, StoreOnly, Sizes, Empty
      <4>2. CASE StoreSecond(t) \/ JoinL(t) \/ JoinR(t)
        BY <4>2 DEF StoreSecond, JoinL, JoinR, Runs, Stuck
      <4>. QED
        BY <2>2, <4>1, <4>2
    <3>. QED
      BY <3>2, <3>3, MoveStuck
  <2>3. CASE Divide(t)
    <3>1. PICK l, r : threads' = [threads EXCEPT ![t].pc = "spawnL", ![t].ldist = l, ![t].rdist = r]
      BY <2>3 DEF Divide
    <3>2. /\ DOMAIN threads' = DOMAIN threads
          /\ \A s \in DOMAIN threads \ {t} : threads'[s] = threads[s]
          /\ threads'[t].l = threads[t].l /\ threads'[t].r = threads[t].r
      BY <2>1, <3>1 DEF ThreadState
    <3>3. ~Empty(t)
      <4>. SUFFICES ASSUME Empty(t) PROVE FALSE
        OBVIOUS
      <4>1. FindMedian(LSpan(t), RSpan(t)).tag = "returned"
        BY <2>3 DEF Divide
      <4>2. /\ LSpan(t) \in Seq(MinT..MaxT) /\ RSpan(t) \in Seq(MinT..MaxT)
            /\ Len(LSpan(t)) = threads[t].l[2] /\ Len(RSpan(t)) = threads[t].r[2]
            /\ SortedSpan(LSpan(t)) /\ SortedSpan(RSpan(t))
        <5>1. 0 \in Int
          OBVIOUS
        <5>. QED
          BY <5>1, DivideCuts
      <4>3. FindMedian(LSpan(t), RSpan(t)).tag = "threw"
        <5>1. Len(LSpan(t)) + Len(RSpan(t)) = 0
          BY <4>2 DEF Empty
        <5>. QED
          BY <4>2, <5>1, FindMedianAnswers, Zenon
      <4>. QED
        BY <4>1, <4>3
    <3>. QED
      BY <3>2, <3>3, MoveStuck
  <2>4. CASE SpawnL(t)
    <3>1. ~Empty(t) /\ \A s \in DOMAIN threads : threads[s] \in ThreadState
      BY <2>4 DEF SpawnL, Runs, Stuck, TreeOK, Paths
    <3>2. threads' = WithThread([threads EXCEPT ![t].pc = "spawnR"], Append(t, 0), LChild(t))
      BY <2>4 DEF SpawnL
    <3>. QED
      BY <3>1, <3>2, ChildrenOK, GrowStuck
  <2>5. CASE SpawnR(t)
    <3>1. ~Empty(t) /\ \A s \in DOMAIN threads : threads[s] \in ThreadState
      BY <2>5 DEF SpawnR, Runs, Stuck, TreeOK, Paths
    <3>2. threads' = WithThread([threads EXCEPT ![t].pc = "joinL"], Append(t, 1), RChild(t))
      BY <2>5 DEF SpawnR
    <3>. QED
      BY <3>1, <3>2, ChildrenOK, GrowStuck
  <2>6. CASE MedianThrows(t) \/ MedianSpins(t) \/ SpawnFails(t)
    BY <1>1, <2>6 DEF MedianThrows, MedianSpins, SpawnFails, Abort, vars
  <2>. QED
    BY <1>3, <2>2, <2>3, <2>4, <2>5, <2>6 DEF HighPref_Merge
<1>4. CASE Caller
  BY <1>1, <1>2, <1>4 DEF Caller, ReturnOtherSide, Enter, SplitStep, SplitEnd, SpawnWorkerFails, SpawnEnd,
                         JoinWorker, Return, Abort
<1>. QED
  BY <1>1, <1>3, <1>4 DEF Next, Over, vars

\* So a call that leaves the last worker nothing does not return.
LEMMA NothingLeftStays ==
  ASSUME TreeOK, LoopOK, Stuck, Exits, CallerOK, RangesOK, Split, pc = "done"
  PROVE  ~NothingLeft
<1>. SUFFICES ASSUME NothingLeft PROVE FALSE
  OBVIOUS
<1>1. /\ pieces \in Nat /\ pieces >= 2 /\ CutSum(pieces - 1) = z_val
      /\ left_pieces[pieces] = Len(lhs) /\ right_pieces[pieces] = Len(rhs)
      /\ started = pieces - 1 /\ joined = started /\ Len(lhs) \in Nat /\ Len(rhs) \in Nat
  <2>1. pieces >= 2 /\ CutSum(pieces - 1) = z_val
    BY DEF LoopOK
  <2>2. left_pieces[pieces] = Len(lhs) /\ right_pieces[pieces] = Len(rhs)
    BY DEF TreeOK, CallOK
  <2>3. args \in Calls
    BY DEF TreeOK, TypeOK
  <2>. QED
    BY <2>1, <2>2, <2>3, ArgTypes, CutNumbers DEF CallerOK
<1>2. PICK k \in 1..(pieces - 1) : k = pieces - 1 /\ k \in Nat /\ k \in 1..pieces /\ k + 1 = pieces
  BY <1>1
<1>3. left_pieces[k] = Len(lhs) /\ right_pieces[k] = Len(rhs)
  <2>1. /\ left_pieces[k] \in Nat /\ left_pieces[k] <= Len(lhs)
        /\ right_pieces[k] \in Nat /\ right_pieces[k] <= Len(rhs)
    BY <1>2, CutNumbers
  <2>2. left_pieces[k] + right_pieces[k] = Len(lhs) + Len(rhs)
    BY <1>1, <1>2 DEF CutSum, z_val
  <2>. QED
    BY <1>1, <2>1, <2>2
<1>4. <<k>> \in DOMAIN threads
  BY <1>1, <1>2 DEF TreeOK, Paths
<1>5. /\ LFrom(<<k>>) = Len(lhs) /\ LTo(<<k>>) = Len(lhs)
      /\ RFrom(<<k>>) = Len(rhs) /\ RTo(<<k>>) = Len(rhs)
  <2>1. left_pieces[k + 1] = Len(lhs) /\ right_pieces[k + 1] = Len(rhs)
    BY <1>1, <1>2
  <2>. QED
    BY <1>2, <1>3, <1>4, <2>1 DEF RangesOK
<1>6. Empty(<<k>>)
  <2>1. /\ threads[<<k>>].l[2] \in Nat /\ threads[<<k>>].r[2] \in Nat
        /\ LTo(<<k>>) = LFrom(<<k>>) + threads[<<k>>].l[2] /\ RTo(<<k>>) = RFrom(<<k>>) + threads[<<k>>].r[2]
    BY <1>4, ThreadRange
  <2>. QED
    BY <1>1, <1>5, <2>1 DEF Empty
<1>7. threads[<<k>>].pc = "entry"
  BY <1>4, <1>6 DEF Stuck
<1>8. threads[<<k>>].pc = "exited"
  BY <1>4 DEF Exits
<1>. QED
  BY <1>7, <1>8

---------------------------------------------------------------------------------
(* Ordinary calls whose last worker has something to do. *)

\* The first cell of a thread, the first of its second half, and the last, in res.
From(t) == LFrom(t) + RFrom(t)
Mid(t) == LMid(t) + RMid(t)
To(t) == LTo(t) + RTo(t)

\* Both halves have something in them.
Divided(t) == From(t) < Mid(t) /\ Mid(t) < To(t)

HasChild(t) == \E c \in {0, 1} : Append(t, c) \in DOMAIN threads

\* Every thread has something to merge, and gives each child a part of it.
Proper ==
  \A t \in DOMAIN threads :
    /\ From(t) < To(t)
    /\ threads[t].pc \notin {"entry", "second", "exited"} \/ HasChild(t) => Divided(t)

\* Every thread was started by the caller or by a thread.
Rooted ==
  \A t \in DOMAIN threads : \/ \E k \in Nat : t = <<k>>
                            \/ \E s \in DOMAIN threads, c \in {0, 1} : t = Append(s, c)

\* The same ranges, the same numbers.
LEMMA NumbersSame ==
  ASSUME NEW s, threads'[s].l = threads[s].l, threads'[s].r = threads[s].r
  PROVE  /\ From(s)' = From(s) /\ To(s)' = To(s)
         /\ threads'[s].ldist = threads[s].ldist /\ threads'[s].rdist = threads[s].rdist =>
              /\ Mid(s)' = Mid(s) /\ Divided(s)' = Divided(s)
BY SpreadSame DEF From, Mid, To, Divided

\* A step of a thread that cuts nothing, or leaves both halves something, keeps it proper.
LEMMA ProperMove ==
  ASSUME Proper, NEW t \in DOMAIN threads,
         DOMAIN threads' = DOMAIN threads,
         \A s \in DOMAIN threads \ {t} : threads'[s] = threads[s],
         threads'[t].l = threads[t].l, threads'[t].r = threads[t].r,
         \/ /\ threads'[t].ldist = threads[t].ldist /\ threads'[t].rdist = threads[t].rdist
            /\ threads[t].pc \notin {"entry", "second", "exited"} \/ threads'[t].pc \in {"second", "exited"}
         \/ Divided(t)'
  PROVE  Proper'
<1>. SUFFICES ASSUME NEW s \in DOMAIN threads
              PROVE  /\ From(s)' < To(s)'
                     /\ threads'[s].pc \notin {"entry", "second", "exited"} \/ HasChild(s)' => Divided(s)'
  BY DEF Proper
<1>1. From(s)' < To(s)'
  <2>1. From(s)' = From(s) /\ To(s)' = To(s)
    BY NumbersSame
  <2>. QED
    BY <2>1 DEF Proper
<1>2. HasChild(s)' <=> HasChild(s)
  BY DEF HasChild
<1>3. CASE s = t /\ Divided(t)'
  BY <1>1, <1>3
<1>4. CASE s # t
  <2>1. threads'[s] = threads[s] /\ Divided(s)' = Divided(s)
    BY <1>4, NumbersSame
  <2>. QED
    BY <1>1, <1>2, <2>1 DEF Proper
<1>5. CASE /\ s = t
           /\ threads'[t].ldist = threads[t].ldist /\ threads'[t].rdist = threads[t].rdist
           /\ threads[t].pc \notin {"entry", "second", "exited"} \/ threads'[t].pc \in {"second", "exited"}
  <2>1. Divided(t)' = Divided(t)
    BY <1>5, NumbersSame
  <2>. QED
    BY <1>1, <1>2, <1>5, <2>1 DEF Proper
<1>. QED
  BY <1>3, <1>4, <1>5

\* So does the start of a thread with something to merge, under one that has cut.
LEMMA ProperGrow ==
  ASSUME Proper, NEW u, u \notin DOMAIN threads,
         DOMAIN threads' = DOMAIN threads \cup {u},
         \A s \in DOMAIN threads :
           /\ threads'[s].l = threads[s].l /\ threads'[s].r = threads[s].r
           /\ threads'[s].ldist = threads[s].ldist /\ threads'[s].rdist = threads[s].rdist
           /\ threads'[s].pc = threads[s].pc \/ Divided(s)
           /\ \A c \in {0, 1} : Append(s, c) = u => Divided(s),
         threads'[u].pc = "entry", From(u)' < To(u)',
         \A c \in {0, 1} : Append(u, c) \notin DOMAIN threads'
  PROVE  Proper'
<1>. SUFFICES ASSUME NEW s \in DOMAIN threads'
              PROVE  /\ From(s)' < To(s)'
                     /\ threads'[s].pc \notin {"entry", "second", "exited"} \/ HasChild(s)' => Divided(s)'
  BY DEF Proper
<1>1. CASE s = u
  <2>1. ~HasChild(u)'
    BY DEF HasChild
  <2>. QED
    BY <1>1, <2>1
<1>2. CASE s # u
  <2>1. /\ s \in DOMAIN threads
        /\ From(s)' = From(s) /\ To(s)' = To(s) /\ Divided(s)' = Divided(s)
    BY <1>2, NumbersSame
  <2>2. From(s)' < To(s)'
    BY <2>1 DEF Proper
  <2>3. CASE Divided(s)
    BY <2>1, <2>2, <2>3
  <2>4. CASE ~Divided(s)
    <3>1. threads'[s].pc = threads[s].pc /\ \A c \in {0, 1} : Append(s, c) # u
      BY <2>1, <2>4
    <3>2. HasChild(s)' <=> HasChild(s)
      BY <3>1 DEF HasChild
    <3>. QED
      BY <2>1, <2>2, <3>1, <3>2 DEF Proper
  <2>. QED
    BY <2>3, <2>4
<1>. QED
  BY <1>1, <1>2

\* Where there is nobody yet.
LEMMA NothingUnder ==
  ASSUME TreeOK, Nested, NEW t \in DOMAIN threads, NEW c \in {0, 1}, NEW d \in {0, 1}
  PROVE  /\ threads[t].pc \in {"entry", "second", "spawnL"} => Append(t, c) \notin DOMAIN threads
         /\ threads[t].pc = (IF c = 0 THEN "spawnL" ELSE "spawnR") =>
              Append(t, c) \notin DOMAIN threads /\ Append(Append(t, c), d) \notin DOMAIN threads
<1>. DEFINE u == Append(t, c)
            w == Append(u, d)
<1>1. t \in Seq(Nat)
  BY OneThread
<1>2. u \in Seq(Nat) /\ w \in Seq(Nat)
  BY <1>1
<1>3. IsPrefix(u, u)
  BY <1>2, PrefixOrder
<1>4. IsPrefix(u, w)
  <2>1. u \in Seq(Nat) /\ d \in Nat
    BY <1>2
  <2>. QED
    BY <1>3, <2>1, PrefixOfChild
<1>5. /\ Under(t, u) /\ u[Len(t) + 1] = c
      /\ Under(t, w) /\ w[Len(t) + 1] = c
  <2>1. \A x \in Seq(Nat) : IsPrefix(u, x) => Under(t, x) /\ x[Len(t) + 1] = c
    <3>1. c \in Nat
      OBVIOUS
    <3>. QED
      BY <1>1, <3>1, ChildIsPrefix DEF Under
  <2>. QED
    BY <1>2, <1>3, <1>4, <2>1
<1>. HIDE DEF u, w
<1>6. /\ threads[t].pc \in {"entry", "second", "spawnL"} => u \notin DOMAIN threads
      /\ threads[t].pc = (IF c = 0 THEN "spawnL" ELSE "spawnR") => u \notin DOMAIN threads /\ w \notin DOMAIN threads
  BY <1>5 DEF Nested
<1>. QED
  BY <1>6 DEF u, w

\* The values of an ordinary call.
LEMMA OrdinaryValues ==
  ASSUME args \in Calls, Ordinary
  PROVE  /\ \A i \in 1..Len(lhs) : MinT < lhs[i] /\ lhs[i] < MaxT
         /\ \A i \in 1..Len(rhs) : MinT < rhs[i] /\ rhs[i] < MaxT
         /\ AllDiffer(lhs, rhs)
<1>1. /\ lhs \in Seq(MinT..MaxT) /\ rhs \in Seq(MinT..MaxT) /\ lhs \in Seq(Int) /\ rhs \in Seq(Int)
      /\ Len(lhs) \in Nat /\ Len(rhs) \in Nat
  BY ArgTypes
<1>. DEFINE t == lhs \o rhs
            m == Len(lhs)
            n == Len(rhs)
<1>2. /\ Len(t) = m + n /\ m \in Nat /\ n \in Nat
      /\ \A i \in 1..m : t[i] = lhs[i]
      /\ \A i \in 1..n : t[m + i] = rhs[i]
  BY <1>1, JoinedSeqs
<1>3. /\ \A i, j \in 1..(m + n) : t[i] = t[j] => i = j
      /\ \A i \in 1..(m + n) : t[i] # MinT /\ t[i] # MaxT
  <2>1. Distinct(t) /\ \A i \in 1..z_val : t[i] \notin {MinT, MaxT}
    BY DEF Ordinary
  <2>. QED
    BY <1>2, <2>1 DEF Distinct, z_val
<1>4. /\ \A i \in 1..m : lhs[i] \in MinT..MaxT
      /\ \A i \in 1..n : rhs[i] \in MinT..MaxT
  BY <1>1, Sentinels
<1>. HIDE DEF t, m, n
<1>5. /\ \A i \in 1..m : i \in 1..(m + n)
      /\ \A i \in 1..n : m + i \in 1..(m + n) /\ m + i \notin 1..m
  BY <1>2
<1>6. /\ \A i \in 1..m : lhs[i] # MinT /\ lhs[i] # MaxT
      /\ \A i \in 1..n : rhs[i] # MinT /\ rhs[i] # MaxT
  BY <1>2, <1>3, <1>5
<1>7. /\ \A i \in 1..m : MinT < lhs[i] /\ lhs[i] < MaxT
      /\ \A i \in 1..n : MinT < rhs[i] /\ rhs[i] < MaxT
  BY <1>4, <1>6, Sentinels
<1>8. \A i, j \in 1..m : i # j => lhs[i] # lhs[j]
  BY <1>2, <1>3, <1>5
<1>9. \A i, j \in 1..n : i # j => rhs[i] # rhs[j]
  <2>. SUFFICES ASSUME NEW i \in 1..n, NEW j \in 1..n, rhs[i] = rhs[j] PROVE i = j
    OBVIOUS
  <2>1. m + i = m + j
    BY <1>2, <1>3, <1>5
  <2>. QED
    BY <1>2, <2>1
<1>10. \A i \in 1..m, j \in 1..n : lhs[i] # rhs[j]
  BY <1>2, <1>3, <1>5
<1>. QED
  BY <1>7, <1>8, <1>9, <1>10 DEF AllDiffer, m, n

\* What an ordinary thread hands to FindMedian.
LEMMA OrdinarySpans ==
  ASSUME TreeOK, RangesOK, Ordinary, NEW t \in DOMAIN threads
  PROVE  /\ LSpan(t) \in Seq(MinT..MaxT) /\ SortedSpan(LSpan(t)) /\ Len(LSpan(t)) = threads[t].l[2]
         /\ RSpan(t) \in Seq(MinT..MaxT) /\ SortedSpan(RSpan(t)) /\ Len(RSpan(t)) = threads[t].r[2]
         /\ threads[t].l[2] \in Nat /\ threads[t].r[2] \in Nat
         /\ AllDiffer(LSpan(t), RSpan(t))
         /\ threads[t].l[2] + threads[t].r[2] > 0 => Searchable(LSpan(t), RSpan(t))
<1>. DEFINE i == LFrom(t)
            j == RFrom(t)
            m == threads[t].l[2]
            n == threads[t].r[2]
            x == LSpan(t)
            y == RSpan(t)
<1>1. /\ args \in Calls /\ i \in Nat /\ j \in Nat /\ m \in Nat /\ n \in Nat
      /\ i + m <= Len(lhs) /\ j + n <= Len(rhs)
  BY ThreadRange DEF TreeOK, TypeOK
<1>2. /\ lhs \in Seq(Int) /\ rhs \in Seq(Int) /\ Len(lhs) \in Nat /\ Len(rhs) \in Nat
  BY <1>1, ArgTypes
<1>3. /\ x \in Seq(MinT..MaxT) /\ SortedSpan(x) /\ Len(x) = m
      /\ y \in Seq(MinT..MaxT) /\ SortedSpan(y) /\ Len(y) = n
  <2>1. 0 \in Int
    OBVIOUS
  <2>. QED
    BY <2>1, DivideCuts
<1>4. x = SubSeq(lhs, i + 1, i + m) /\ y = SubSeq(rhs, j + 1, j + n)
  BY DEF LSpan, RSpan, LFrom, RFrom
<1>5. /\ \A k \in 1..Len(lhs) : MinT < lhs[k] /\ lhs[k] < MaxT
      /\ \A k \in 1..Len(rhs) : MinT < rhs[k] /\ rhs[k] < MaxT
      /\ AllDiffer(lhs, rhs)
  BY <1>1, OrdinaryValues
<1>. HIDE DEF i, j, m, n, x, y
<1>6. /\ \A k \in 1..m : x[k] = lhs[i + k] /\ i + k \in 1..Len(lhs)
      /\ \A k \in 1..n : y[k] = rhs[j + k] /\ j + k \in 1..Len(rhs)
  <2>1. ASSUME NEW s \in Seq(Int), NEW a \in Nat, NEW b \in Nat, a + b <= Len(s)
        PROVE  \A k \in 1..b : SubSeq(s, a + 1, a + b)[k] = s[a + k] /\ a + k \in 1..Len(s)
    BY <2>1
  <2>. QED
    BY <1>1, <1>2, <1>4, <2>1
<1>7. /\ \A k, l \in 1..m : k # l => i + k # i + l
      /\ \A k, l \in 1..n : k # l => j + k # j + l
  BY <1>1
<1>8. AllDiffer(x, y)
  <2>1. /\ \A k, l \in 1..Len(lhs) : k # l => lhs[k] # lhs[l]
        /\ \A k, l \in 1..Len(rhs) : k # l => rhs[k] # rhs[l]
        /\ \A k \in 1..Len(lhs), l \in 1..Len(rhs) : lhs[k] # rhs[l]
    BY <1>5 DEF AllDiffer
  <2>2. /\ \A k, l \in 1..m : k # l => x[k] # x[l]
        /\ \A k, l \in 1..n : k # l => y[k] # y[l]
        /\ \A k \in 1..m, l \in 1..n : x[k] # y[l]
    BY <1>6, <1>7, <2>1
  <2>. QED
    BY <1>3, <2>2 DEF AllDiffer
<1>9. ASSUME m + n > 0 PROVE Searchable(x, y)
  <2>1. /\ \A k \in 1..Len(x) : MinT < x[k] /\ x[k] < MaxT
        /\ \A k \in 1..Len(y) : MinT < y[k] /\ y[k] < MaxT
    BY <1>3, <1>5, <1>6
  <2>2. Len(x) + Len(y) > 0
    BY <1>3, <1>9
  <2>. QED
    BY <1>8, <2>1, <2>2 DEF Searchable, AllDiffer
<1>. QED
  BY <1>1, <1>3, <1>8, <1>9 DEF i, j, m, n, x, y

\* The median leaves something on both sides.
LEMMA DivideProper ==
  ASSUME TreeOK, RangesOK, Ordinary, Proper, NEW t \in DOMAIN threads, Divide(t)
  PROVE  /\ DOMAIN threads' = DOMAIN threads
         /\ \A s \in DOMAIN threads \ {t} : threads'[s] = threads[s]
         /\ threads'[t].l = threads[t].l /\ threads'[t].r = threads[t].r
         /\ Divided(t)'
<1>1. PICK mid : mid = FindMedian(LSpan(t), RSpan(t))
  OBVIOUS
<1>2. /\ mid.tag = "returned" /\ Sizes(t) \notin {<<1, 1>>, <<1, 0>>, <<0, 1>>}
      /\ threads' = [threads EXCEPT ![t].pc = "spawnL",
                                    ![t].ldist = LowerBound(LSpan(t), mid.val),
                                    ![t].rdist = LowerBound(RSpan(t), mid.val)]
  BY <1>1 DEF Divide, Searches
<1>3. /\ LSpan(t) \in Seq(MinT..MaxT) /\ SortedSpan(LSpan(t)) /\ Len(LSpan(t)) = threads[t].l[2]
      /\ RSpan(t) \in Seq(MinT..MaxT) /\ SortedSpan(RSpan(t)) /\ Len(RSpan(t)) = threads[t].r[2]
      /\ threads[t].l[2] \in Nat /\ threads[t].r[2] \in Nat
      /\ AllDiffer(LSpan(t), RSpan(t))
  BY OrdinarySpans
<1>4. PICK m \in Nat, n \in Nat : m = threads[t].l[2] /\ n = threads[t].r[2]
  BY <1>3
<1>5. /\ LFrom(t) \in Nat /\ RFrom(t) \in Nat
      /\ LTo(t) = LFrom(t) + m /\ RTo(t) = RFrom(t) + n
  BY <1>4, ThreadRange
<1>6. m + n >= 2
  <2>1. m + n > 0
    <3>1. From(t) < To(t)
      BY DEF Proper
    <3>. QED
      BY <1>5, <3>1 DEF From, To
  <2>2. <<m, n>> # <<1, 1>> /\ <<m, n>> # <<1, 0>> /\ <<m, n>> # <<0, 1>>
    BY <1>2, <1>4 DEF Sizes
  <2>3. ~(m = 1 /\ n = 0) /\ ~(m = 0 /\ n = 1)
    BY <2>2
  <2>. QED
    BY <2>1, <2>3
<1>7. IsMedian(LSpan(t), RSpan(t), mid.val) /\ mid.val \in MinT..MaxT
  BY <1>1, <1>2, <1>3, FindMedianAnswers, Zenon
<1>8. PICK v \in Int : v = mid.val
  BY <1>7, Sentinels
<1>9. /\ LSpan(t) \in Seq(Int) /\ RSpan(t) \in Seq(Int)
  BY <1>3, Sentinels
<1>10. PICK p \in Nat, q \in Nat :
         /\ p = LowerBound(LSpan(t), v) /\ q = LowerBound(RSpan(t), v)
         /\ p + q >= 1 /\ p + q < m + n
  <2>1. Len(LSpan(t)) + Len(RSpan(t)) >= 2
    BY <1>3, <1>4, <1>6
  <2>2. /\ LowerBound(LSpan(t), v) + LowerBound(RSpan(t), v) >= 1
        /\ LowerBound(LSpan(t), v) + LowerBound(RSpan(t), v) < Len(LSpan(t)) + Len(RSpan(t))
    BY <1>3, <1>7, <1>8, <1>9, <2>1, MedianSplits
  <2>3. LowerBound(LSpan(t), v) \in Nat /\ LowerBound(RSpan(t), v) \in Nat
    BY <1>3, LowerBoundRange
  <2>. QED
    BY <1>3, <1>4, <2>2, <2>3
<1>11. threads[t] \in ThreadState
  BY OneThread DEF ThreadOK
<1>12. /\ DOMAIN threads' = DOMAIN threads
       /\ \A s \in DOMAIN threads \ {t} : threads'[s] = threads[s]
       /\ threads'[t] = [threads[t] EXCEPT !.pc = "spawnL", !.ldist = p, !.rdist = q]
  BY <1>2, <1>8, <1>10
<1>13. /\ threads'[t].l = threads[t].l /\ threads'[t].r = threads[t].r
       /\ threads'[t].ldist = p /\ threads'[t].rdist = q
  BY <1>11, <1>12 DEF ThreadState
<1>14. LMid(t)' = LFrom(t) + p /\ RMid(t)' = RFrom(t) + q
  BY <1>13 DEF LMid, RMid, LFrom, RFrom
<1>15. From(t)' = From(t) /\ To(t)' = To(t)
  BY <1>13, NumbersSame
<1>16. Divided(t)'
  <2>1. Mid(t)' = (LFrom(t) + p) + (RFrom(t) + q)
    BY <1>14 DEF Mid
  <2>2. From(t) = LFrom(t) + RFrom(t) /\ To(t) = (LFrom(t) + m) + (RFrom(t) + n)
    BY <1>5 DEF From, To
  <2>3. From(t) < Mid(t)' /\ Mid(t)' < To(t)
    BY <1>5, <1>10, <2>1, <2>2
  <2>. QED
    BY <1>15, <2>3 DEF Divided
<1>. QED
  BY <1>12, <1>13, <1>16

\* A half that has something in it is a proper range for a child.
LEMMA ChildProper ==
  ASSUME TreeOK, Nested, RangesOK, Proper, NEW t \in DOMAIN threads, NEW c \in {0, 1}, NEW at,
         threads[t].pc = IF c = 0 THEN "spawnL" ELSE "spawnR",
         threads' = WithThread([threads EXCEPT ![t].pc = at], Append(t, c),
                               IF c = 0 THEN LChild(t) ELSE RChild(t)),
         UNCHANGED <<args, split>>
  PROVE  Proper'
<1>. DEFINE u == Append(t, c)
            th == IF c = 0 THEN LChild(t) ELSE RChild(t)
<1>0. RangesOK'
  BY RangesChild
<1>1. /\ t \in Seq(Nat) /\ threads[t] \in ThreadState
      /\ \A s \in DOMAIN threads : s \in Seq(Nat)
  BY OneThread DEF ThreadOK
<1>2. u \notin DOMAIN threads /\ \A d \in {0, 1} : Append(u, d) \notin DOMAIN threads
  BY NothingUnder
<1>3. /\ u \in Seq(Nat)
      /\ \A s \in DOMAIN threads, d \in {0, 1} : Append(s, d) = u => s = t
      /\ \A d \in {0, 1} : Append(u, d) # u
  <2>1. ASSUME NEW s \in DOMAIN threads, NEW d \in {0, 1}, Append(s, d) = Append(t, c)
        PROVE  s = t
    <3>1. /\ c \in Nat /\ d \in Nat /\ s \in Seq(Nat) /\ t \in Seq(Nat)
          /\ Append(t, c) = Append(s, d)
      BY <1>1, <2>1
    <3>. QED
      BY <3>1, SameParent
  <2>2. Append(t, c) \in Seq(Nat)
    BY <1>1
  <2>3. ASSUME NEW d \in {0, 1} PROVE Append(u, d) # u
    <3>1. Len(Append(u, d)) = Len(u) + 1 /\ Len(u) \in Nat
      BY <2>2
    <3>. QED
      BY <3>1
  <2>. QED
    BY <2>1, <2>2, <2>3
<1>4. Divided(t)
  BY DEF Proper
<1>5. th.pc = "entry"
  BY ChildrenOK
<1>. HIDE DEF u, th
<1>6. /\ DOMAIN threads' = DOMAIN threads \cup {u}
      /\ threads'[u] = th
      /\ \A s \in DOMAIN threads :
           threads'[s] = IF s = t THEN [threads[t] EXCEPT !.pc = at] ELSE threads[s]
  BY <1>2 DEF WithThread, u, th
<1>7. /\ threads'[t].l = threads[t].l /\ threads'[t].r = threads[t].r
      /\ threads'[t].ldist = threads[t].ldist /\ threads'[t].rdist = threads[t].rdist
  BY <1>1, <1>6 DEF ThreadState
<1>8. \A s \in DOMAIN threads :
        /\ threads'[s].l = threads[s].l /\ threads'[s].r = threads[s].r
        /\ threads'[s].ldist = threads[s].ldist /\ threads'[s].rdist = threads[s].rdist
        /\ threads'[s].pc = threads[s].pc \/ Divided(s)
        /\ \A d \in {0, 1} : Append(s, d) = u => Divided(s)
  BY <1>3, <1>4, <1>6, <1>7
<1>9. /\ From(t)' = From(t) /\ Mid(t)' = Mid(t) /\ To(t)' = To(t)
  BY <1>7, NumbersSame
<1>10. From(u)' < To(u)'
  <2>1. t \in DOMAIN threads' /\ u \in DOMAIN threads'
    BY <1>6
  <2>2. CASE c = 0
    <3>1. /\ LFrom(u)' = LFrom(t)' /\ LTo(u)' = LMid(t)'
          /\ RFrom(u)' = RFrom(t)' /\ RTo(u)' = RMid(t)'
      BY <1>0, <2>1, <2>2 DEF RangesOK, u
    <3>2. From(u)' = From(t)' /\ To(u)' = Mid(t)'
      BY <3>1 DEF From, Mid, To
    <3>. QED
      BY <1>4, <1>9, <3>2 DEF Divided
  <2>3. CASE c = 1
    <3>1. /\ LFrom(u)' = LMid(t)' /\ LTo(u)' = LTo(t)'
          /\ RFrom(u)' = RMid(t)' /\ RTo(u)' = RTo(t)'
      BY <1>0, <2>1, <2>3 DEF RangesOK, u
    <3>2. From(u)' = Mid(t)' /\ To(u)' = To(t)'
      BY <3>1 DEF From, Mid, To
    <3>. QED
      BY <1>4, <1>9, <3>2 DEF Divided
  <2>. QED
    BY <2>2, <2>3
<1>11. threads'[u].pc = "entry" /\ \A d \in {0, 1} : Append(u, d) \notin DOMAIN threads'
  <2>1. \A d \in {0, 1} : Append(u, d) \notin DOMAIN threads
    BY <1>2
  <2>. QED
    BY <1>3, <1>5, <1>6, <2>1
<1>12. u \notin DOMAIN threads
  BY <1>2
<1>. QED
  BY <1>6, <1>8, <1>10, <1>11, <1>12, ProperGrow

\* A worker starts on a piece, and none is empty.
LEMMA WorkerProper ==
  ASSUME TreeOK, RangesOK, LoopOK, ~NothingLeft, Proper, SpawnWorker
  PROVE  Proper'
<1>0. PICK k \in Nat : k = started + 1
  BY DEF TreeOK, TypeOK
<1>. DEFINE u == <<k>>
<1>1. /\ threads' = WithThread(threads, u, Worker(k)) /\ UNCHANGED <<args, split>>
      /\ started < pieces - 1 /\ pc = "spawn"
  BY <1>0 DEF SpawnWorker, pieces
<1>2. /\ pieces \in Nat /\ started \in Nat /\ k \in 1..(pieces - 1) /\ Split
      /\ left_pieces' = left_pieces /\ right_pieces' = right_pieces
  <2>1. /\ pieces \in Nat /\ started \in Nat
    BY CutNumbers DEF TreeOK, TypeOK
  <2>2. Split
    BY <1>1 DEF TreeOK, CallOK
  <2>. QED
    BY <1>0, <1>1, <2>1, <2>2 DEF split
<1>3. RangesOK'
  BY RangesWorker
<1>4. \A s \in DOMAIN threads : s \in Seq(Nat) /\ s # <<>> /\ s[1] # k
  <2>1. \A s \in DOMAIN threads : s \in Seq(Nat) /\ s # <<>> /\ s[1] \in 1..started
    BY OneThread
  <2>2. k \notin 1..started
    BY <1>0, <1>2
  <2>. QED
    BY <2>1, <2>2
<1>5. u \notin DOMAIN threads /\ \A d \in {0, 1} : Append(u, d) \notin DOMAIN threads /\ Append(u, d) # u
  <2>1. u[1] = k /\ u \notin DOMAIN threads
    BY <1>4
  <2>2. ASSUME NEW d \in {0, 1} PROVE Append(u, d) \notin DOMAIN threads /\ Append(u, d) # u
    <3>1. u \in Seq(Nat) /\ d \in Nat /\ u # <<>>
      OBVIOUS
    <3>2. Append(u, d)[1] = k /\ Len(Append(u, d)) = Len(u) + 1 /\ Len(u) \in Nat
      BY <3>1, <2>1, FirstOfChild
    <3>3. Append(u, d) # u
      BY <3>2
    <3>. QED
      BY <1>4, <3>2, <3>3
  <2>. QED
    BY <2>1, <2>2
<1>6. \A s \in DOMAIN threads, d \in {0, 1} : Append(s, d) # u
  <2>. SUFFICES ASSUME NEW s \in DOMAIN threads, NEW d \in {0, 1}, Append(s, d) = u PROVE FALSE
    OBVIOUS
  <2>1. s \in Seq(Nat) /\ s # <<>> /\ d \in Nat
    BY <1>4
  <2>2. Append(s, d)[1] = s[1]
    BY <2>1, FirstOfChild
  <2>3. Append(s, d)[1] = k
    OBVIOUS
  <2>. QED
    BY <1>4, <2>2, <2>3
<1>. HIDE DEF u
<1>7. /\ DOMAIN threads' = DOMAIN threads \cup {u}
      /\ threads'[u] = Worker(k)
      /\ \A s \in DOMAIN threads : threads'[s] = threads[s]
  BY <1>1, <1>5 DEF WithThread
<1>8. From(u)' < To(u)'
  <2>1. /\ LFrom(u)' = left_pieces[k] /\ LTo(u)' = left_pieces[k + 1]
        /\ RFrom(u)' = right_pieces[k] /\ RTo(u)' = right_pieces[k + 1]
    BY <1>2, <1>3, <1>7 DEF RangesOK, u
  <2>2. From(u)' = CutSum(k) /\ To(u)' = CutSum(k + 1)
    BY <2>1 DEF From, To, CutSum
  <2>3. CASE k \in 1..(pieces - 2)
    BY <1>2, <2>2, <2>3 DEF LoopOK
  <2>4. CASE k = pieces - 1
    <3>1. CutSum(k) # z_val
      BY <1>2, <2>4 DEF LoopOK
    <3>2. CutSum(k + 1) = z_val
      <4>1. k + 1 = pieces
        BY <1>2, <2>4
      <4>2. left_pieces[pieces] = Len(lhs) /\ right_pieces[pieces] = Len(rhs)
        BY <1>2 DEF TreeOK, CallOK
      <4>. QED
        BY <4>1, <4>2 DEF CutSum, z_val
    <3>3. CutSum(k) <= CutSum(k + 1) /\ CutSum(k) \in Nat /\ CutSum(k + 1) \in Nat
      <4>1. k \in 1..pieces /\ k + 1 \in 1..pieces /\ k <= k + 1
        BY <1>2
      <4>2. /\ left_pieces[k] \in Nat /\ right_pieces[k] \in Nat
            /\ left_pieces[k + 1] \in Nat /\ right_pieces[k + 1] \in Nat
            /\ left_pieces[k] <= left_pieces[k + 1] /\ right_pieces[k] <= right_pieces[k + 1]
        BY <4>1, CutNumbers
      <4>. QED
        BY <4>2 DEF CutSum
    <3>. QED
      BY <2>2, <3>1, <3>2, <3>3
  <2>. QED
    BY <1>2, <2>3, <2>4
<1>9. threads'[u].pc = "entry" /\ \A d \in {0, 1} : Append(u, d) \notin DOMAIN threads'
  <2>1. Worker(k).pc = "entry"
    BY DEF Worker, Thread
  <2>. QED
    BY <1>5, <1>7, <2>1
<1>. QED
  BY <1>5, <1>6, <1>7, <1>8, <1>9, ProperGrow

\* Every step of an ordinary call keeps every thread proper, unless the last piece is empty.
LEMMA NextProper ==
  ASSUME TreeOK, Nested, RangesOK, LoopOK, Ordinary, ~NothingLeft, Proper, [Next]_vars
  PROVE  Proper'
<1>1. ASSUME UNCHANGED threads PROVE Proper'
  BY <1>1 DEF Proper, HasChild, Divided, From, Mid, To, LFrom, LMid, LTo, RFrom, RMid, RTo
<1>2. CASE Caller
  <2>1. CASE SpawnWorker
    BY <2>1, WorkerProper
  <2>2. CASE ReturnOtherSide \/ Enter \/ SplitStep \/ SplitEnd \/ SpawnWorkerFails \/ SpawnEnd \/ JoinWorker \/ Return
    BY <1>1, <2>2 DEF ReturnOtherSide, Enter, SplitStep, SplitEnd, SpawnWorkerFails, SpawnEnd,
                      JoinWorker, Return, Abort
  <2>. QED
    BY <1>2, <2>1, <2>2 DEF Caller
<1>3. ASSUME NEW t \in DOMAIN threads, HighPref_Merge(t) PROVE Proper'
  <2>1. CASE StoreFirst(t) \/ StoreSecond(t) \/ StoreOnly(t) \/ JoinL(t) \/ JoinR(t)
    <3>1. PICK at : /\ Goto(t, at)
                    /\ threads[t].pc \notin {"entry", "second", "exited"} \/ at \in {"second", "exited"}
      BY <2>1 DEF StoreFirst, StoreSecond, StoreOnly, JoinL, JoinR, Runs
    <3>. QED
      BY <3>1, GotoThread, ProperMove
  <2>2. CASE Divide(t)
    BY <2>2, DivideProper, ProperMove
  <2>3. CASE MedianThrows(t) \/ MedianSpins(t) \/ SpawnFails(t)
    BY <1>1, <2>3 DEF MedianThrows, MedianSpins, SpawnFails, Abort, vars
  <2>4. CASE SpawnL(t)
    <3>1. /\ threads[t].pc = "spawnL" /\ UNCHANGED <<args, split>>
          /\ threads' = WithThread([threads EXCEPT ![t].pc = "spawnR"], Append(t, 0), LChild(t))
      BY <2>4 DEF SpawnL, Runs, caller
    <3>. QED
      BY <3>1, ChildProper
  <2>5. CASE SpawnR(t)
    <3>1. /\ threads[t].pc = "spawnR" /\ UNCHANGED <<args, split>>
          /\ threads' = WithThread([threads EXCEPT ![t].pc = "joinL"], Append(t, 1), RChild(t))
      BY <2>5 DEF SpawnR, Runs, caller
    <3>. QED
      BY <3>1, ChildProper
  <2>. QED
    BY <1>3, <2>1, <2>2, <2>3, <2>4, <2>5 DEF HighPref_Merge
<1>. QED
  BY <1>1, <1>2, <1>3 DEF Next, Over, vars

\* Threads are started under what is there, and never removed.
LEMMA NextRooted ==
  ASSUME TreeOK, Rooted, [Next]_vars
  PROVE  Rooted'
<1>1. ASSUME DOMAIN threads' = DOMAIN threads PROVE Rooted'
  BY <1>1 DEF Rooted
<1>2. CASE SpawnWorker
  <2>1. started \in Nat /\ DOMAIN threads' = DOMAIN threads \cup {<<started + 1>>}
    BY <1>2 DEF SpawnWorker, WithThread, TreeOK, TypeOK
  <2>2. started + 1 \in Nat
    BY <2>1
  <2>. QED
    BY <2>1, <2>2 DEF Rooted
<1>3. ASSUME NEW t \in DOMAIN threads, HighPref_Merge(t) PROVE Rooted'
  <2>1. CASE SpawnL(t)
    <3>1. DOMAIN threads' = DOMAIN threads \cup {Append(t, 0)}
      BY <2>1 DEF SpawnL, WithThread
    <3>2. 0 \in {0, 1}
      OBVIOUS
    <3>. QED
      BY <3>1, <3>2 DEF Rooted
  <2>2. CASE SpawnR(t)
    <3>1. DOMAIN threads' = DOMAIN threads \cup {Append(t, 1)}
      BY <2>2 DEF SpawnR, WithThread
    <3>2. 1 \in {0, 1}
      OBVIOUS
    <3>. QED
      BY <3>1, <3>2 DEF Rooted
  <2>3. CASE ~SpawnL(t) /\ ~SpawnR(t)
    BY <1>1, <1>3, <2>3 DEF HighPref_Merge, StoreFirst, StoreSecond, StoreOnly, Divide, MedianThrows,
         MedianSpins, SpawnFails, JoinL, JoinR, Goto, Abort, vars
  <2>. QED
    BY <2>1, <2>2, <2>3
<1>4. CASE Caller /\ ~SpawnWorker
  BY <1>1, <1>4 DEF Caller, ReturnOtherSide, Enter, SplitStep, SplitEnd, SpawnWorkerFails, SpawnEnd,
                     JoinWorker, Return, Abort
<1>. QED
  BY <1>1, <1>2, <1>3, <1>4 DEF Next, Over, vars

\* No two threads cut at the same place.
LEMMA MidsApart ==
  ASSUME TreeOK, Nested, Apart, NEW s \in DOMAIN threads, NEW t \in DOMAIN threads,
         Divided(s), Divided(t), Mid(s) = Mid(t)
  PROVE  s = t
<1>1. ASSUME NEW u \in DOMAIN threads
      PROVE  /\ From(u) \in Nat /\ Mid(u) \in Nat /\ To(u) \in Nat
             /\ Cells(threads[u]) = (From(u) + 1)..To(u)
             /\ HalfCells(threads[u], 0) = (From(u) + 1)..Mid(u)
             /\ HalfCells(threads[u], 1) = (Mid(u) + 1)..To(u)
  <2>1. /\ LFrom(u) \in Nat /\ LMid(u) \in Nat /\ LTo(u) \in Nat
        /\ RFrom(u) \in Nat /\ RMid(u) \in Nat /\ RTo(u) \in Nat
        /\ threads[u].idx = LFrom(u) + RFrom(u)
        /\ Cells(threads[u]) = (LFrom(u) + RFrom(u) + 1)..(LTo(u) + RTo(u))
    BY ThreadRange
  <2>2. threads[u].ldist \in Nat /\ threads[u].rdist \in Nat
    BY OneThread DEF ThreadOK, ThreadState
  <2>3. threads[u].idx + threads[u].ldist + threads[u].rdist = Mid(u)
    <3>1. \A a, b, d, e \in Nat : a + b + d + e = (a + d) + (b + e)
      OBVIOUS
    <3>2. Mid(u) = (LFrom(u) + threads[u].ldist) + (RFrom(u) + threads[u].rdist)
      BY DEF Mid, LMid, RMid, LFrom, RFrom
    <3>. QED
      BY <2>1, <2>2, <3>1, <3>2
  <2>4. threads[u].idx + threads[u].l[2] + threads[u].r[2] = To(u)
    BY <2>1, ThreadRange DEF To
  <2>5. threads[u].idx = From(u) /\ From(u) \in Nat /\ Mid(u) \in Nat /\ To(u) \in Nat
    BY <2>1 DEF From, Mid, To
  <2>6. Cells(threads[u]) = (From(u) + 1)..To(u)
    BY <2>1 DEF From, To
  <2>. QED
    BY <2>3, <2>4, <2>5, <2>6 DEF HalfCells
<1>2. ASSUME NEW u \in DOMAIN threads, NEW w \in DOMAIN threads, Divided(w), Under(u, w)
      PROVE  Mid(u) # Mid(w)
  <2>1. u \in Seq(Nat) /\ w \in Seq(Nat) /\ u # <<>> /\ \A i \in 2..Len(w) : w[i] \in {0, 1}
    BY OneThread
  <2>2. Len(u) + 1 \in 2..Len(w)
    <3>1. /\ Len(u) <= Len(w) /\ \A i \in 1..Len(u) : u[i] = w[i]
      BY <1>2, <2>1, PrefixElements DEF Under
    <3>2. Len(u) # Len(w)
      BY <1>2, <2>1, <3>1, SeqEqual DEF Under
    <3>3. Len(u) \in Nat /\ Len(w) \in Nat /\ Len(u) # 0
      BY <2>1
    <3>. QED
      BY <3>1, <3>2, <3>3
  <2>3. PICK c \in {0, 1} : c = w[Len(u) + 1]
    BY <2>1, <2>2
  <2>4. Cells(threads[w]) \subseteq HalfCells(threads[u], c)
    BY <1>2, <2>3 DEF Nested
  <2>5. Mid(w) \in Cells(threads[w]) /\ Mid(w) + 1 \in Cells(threads[w])
    <3>1. From(w) < Mid(w) /\ Mid(w) < To(w)
      BY <1>2 DEF Divided
    <3>. QED
      BY <1>1, <3>1
  <2>6. Mid(w) \in HalfCells(threads[u], c) /\ Mid(w) + 1 \in HalfCells(threads[u], c)
    BY <2>4, <2>5
  <2>7. Mid(u) \in Nat /\ Mid(w) \in Nat /\ From(u) \in Nat /\ To(u) \in Nat
    BY <1>1
  <2>8. CASE c = 0
    BY <1>1, <2>6, <2>7, <2>8
  <2>9. CASE c = 1
    BY <1>1, <2>6, <2>7, <2>9
  <2>. QED
    BY <2>8, <2>9
<1>3. CASE Related(s, t)
  <2>1. s = t \/ Under(s, t) \/ Under(t, s)
    BY <1>3 DEF Related, Under
  <2>. QED
    BY <1>2, <2>1
<1>4. CASE ~Related(s, t)
  <2>1. Cells(threads[s]) \cap Cells(threads[t]) = {}
    BY <1>4 DEF Apart
  <2>2. ASSUME NEW u \in DOMAIN threads, Divided(u) PROVE Mid(u) \in Cells(threads[u])
    <3>1. From(u) < Mid(u) /\ Mid(u) < To(u)
      BY <2>2 DEF Divided
    <3>. QED
      BY <1>1, <3>1
  <2>3. Mid(s) \in Cells(threads[s]) /\ Mid(t) \in Cells(threads[t])
    BY <2>2
  <2>. QED
    BY <2>1, <2>3
<1>. QED
  BY <1>3, <1>4

\* A number for every thread: workers below 1, the children of a thread by where it cuts.
Code(t) == IF Len(t) = 1 THEN 1 - t[1]
           ELSE 2 * Mid(SubSeq(t, 1, Len(t) - 1)) + t[Len(t)]

\* The number says which thread it is: a worker, or which child of which cut.
LEMMA CodeOf ==
  ASSUME TreeOK, Proper, Rooted, NEW t \in DOMAIN threads
  PROVE  \/ \E k \in 1..n_workers : t = <<k>> /\ Code(t) = 1 - k
         \/ \E s \in DOMAIN threads, c \in {0, 1} :
              /\ t = Append(s, c) /\ Code(t) = 2 * Mid(s) + c
              /\ Divided(s) /\ Mid(s) \in 1..(z_val - 1)
<1>1. CASE \E k \in Nat : t = <<k>>
  <2>1. PICK k \in Nat : t = <<k>>
    BY <1>1
  <2>2. k \in 1..started /\ started \in 0..(pieces - 1)
    <3>1. t[1] = k
      BY <2>1
    <3>. QED
      BY <3>1, OneThread
  <2>3. pieces - 1 <= n_workers /\ pieces \in Nat /\ n_workers \in Nat
    BY ArgTypes, CutNumbers DEF TreeOK, TypeOK, CutsOK
  <2>4. k \in 1..n_workers
    BY <2>2, <2>3
  <2>5. Code(t) = 1 - k
    BY <2>1 DEF Code
  <2>. QED
    BY <2>1, <2>4, <2>5
<1>2. CASE \E s \in DOMAIN threads, c \in {0, 1} : t = Append(s, c)
  <2>1. PICK s \in DOMAIN threads, c \in {0, 1} : t = Append(s, c)
    BY <1>2
  <2>2. s \in Seq(Nat) /\ s # <<>> /\ c \in Nat
    BY OneThread
  <2>3. Len(t) # 1 /\ SubSeq(t, 1, Len(t) - 1) = s /\ t[Len(t)] = c
    <3>1. Len(t) = Len(s) + 1 /\ Len(s) \in Nat /\ Len(s) # 0
      BY <2>1, <2>2
    <3>2. t \in Seq(Nat) /\ \A i \in 1..Len(s) : t[i] = s[i]
      BY <2>1, <2>2
    <3>3. /\ SubSeq(t, 1, Len(s)) \in Seq(Nat) /\ Len(SubSeq(t, 1, Len(s))) = Len(s)
          /\ \A i \in 1..Len(s) : SubSeq(t, 1, Len(s))[i] = t[i]
      BY <3>1, <3>2
    <3>4. SubSeq(t, 1, Len(s)) = s
      BY <2>2, <3>2, <3>3, SeqEqual
    <3>5. t[Len(s) + 1] = c
      BY <2>1, <2>2
    <3>6. Len(t) - 1 = Len(s)
      BY <3>1
    <3>. QED
      BY <3>1, <3>4, <3>5, <3>6
  <2>4. Code(t) = 2 * Mid(s) + c
    BY <2>3 DEF Code
  <2>5. Divided(s)
    <3>1. HasChild(s)
      BY <2>1 DEF HasChild
    <3>. QED
      BY <3>1 DEF Proper
  <2>6. Mid(s) \in 1..(z_val - 1)
    <3>1. /\ LFrom(s) \in Nat /\ LMid(s) \in Nat /\ LTo(s) \in Nat
          /\ RFrom(s) \in Nat /\ RMid(s) \in Nat /\ RTo(s) \in Nat
          /\ LTo(s) <= Len(lhs) /\ RTo(s) <= Len(rhs)
      BY ThreadRange
    <3>2. Len(lhs) \in Nat /\ Len(rhs) \in Nat
      BY ArgTypes DEF TreeOK, TypeOK
    <3>3. From(s) \in Nat /\ Mid(s) \in Nat /\ To(s) \in Nat /\ To(s) <= z_val /\ z_val \in Nat
      BY <3>1, <3>2 DEF From, Mid, To, z_val
    <3>. QED
      BY <2>5, <3>3 DEF Divided
  <2>. QED
    BY <2>1, <2>4, <2>5, <2>6
<1>. QED
  BY <1>1, <1>2 DEF Rooted

\* As no two threads cut at the same place, no two have the same number.
LEMMA CodesDiffer ==
  ASSUME TreeOK, Nested, Apart, Proper, Rooted,
         NEW t \in DOMAIN threads, NEW u \in DOMAIN threads, Code(t) = Code(u)
  PROVE  t = u
<1>1. \/ \E k \in 1..n_workers : t = <<k>> /\ Code(t) = 1 - k
      \/ \E s \in DOMAIN threads, c \in {0, 1} :
           /\ t = Append(s, c) /\ Code(t) = 2 * Mid(s) + c
           /\ Divided(s) /\ Mid(s) \in 1..(z_val - 1)
  BY CodeOf
<1>2. \/ \E k \in 1..n_workers : u = <<k>> /\ Code(u) = 1 - k
      \/ \E s \in DOMAIN threads, c \in {0, 1} :
           /\ u = Append(s, c) /\ Code(u) = 2 * Mid(s) + c
           /\ Divided(s) /\ Mid(s) \in 1..(z_val - 1)
  BY CodeOf
<1>3. n_workers \in Nat /\ z_val \in Nat
  BY ArgTypes DEF TreeOK, TypeOK
<1>4. CASE /\ \E k \in 1..n_workers : t = <<k>> /\ Code(t) = 1 - k
           /\ \E k \in 1..n_workers : u = <<k>> /\ Code(u) = 1 - k
  <2>1. PICK j \in 1..n_workers, k \in 1..n_workers :
          t = <<j>> /\ u = <<k>> /\ Code(t) = 1 - j /\ Code(u) = 1 - k
    BY <1>4
  <2>2. j = k
    <3>1. 1 - j = 1 - k
      BY <2>1
    <3>. QED
      BY <1>3, <3>1
  <2>. QED
    BY <2>1, <2>2
<1>5. CASE /\ \E k \in 1..n_workers : Code(t) = 1 - k
           /\ \E s \in DOMAIN threads, c \in {0, 1} : Code(u) = 2 * Mid(s) + c /\ Mid(s) \in 1..(z_val - 1)
  <2>1. PICK k \in 1..n_workers : Code(t) = 1 - k
    BY <1>5
  <2>2. PICK m \in 1..(z_val - 1), c \in {0, 1} : Code(u) = 2 * m + c
    BY <1>5
  <2>3. 1 - k = 2 * m + c
    BY <2>1, <2>2
  <2>4. FALSE
    BY <1>3, <2>3
  <2>. QED
    BY <2>4
<1>6. CASE /\ \E k \in 1..n_workers : Code(u) = 1 - k
           /\ \E s \in DOMAIN threads, c \in {0, 1} : Code(t) = 2 * Mid(s) + c /\ Mid(s) \in 1..(z_val - 1)
  <2>1. PICK k \in 1..n_workers : Code(u) = 1 - k
    BY <1>6
  <2>2. PICK m \in 1..(z_val - 1), c \in {0, 1} : Code(t) = 2 * m + c
    BY <1>6
  <2>3. 1 - k = 2 * m + c
    BY <2>1, <2>2
  <2>4. FALSE
    BY <1>3, <2>3
  <2>. QED
    BY <2>4
<1>7. CASE /\ \E s \in DOMAIN threads, c \in {0, 1} :
                /\ t = Append(s, c) /\ Code(t) = 2 * Mid(s) + c
                /\ Divided(s) /\ Mid(s) \in 1..(z_val - 1)
           /\ \E s \in DOMAIN threads, c \in {0, 1} :
                /\ u = Append(s, c) /\ Code(u) = 2 * Mid(s) + c
                /\ Divided(s) /\ Mid(s) \in 1..(z_val - 1)
  <2>1. PICK r \in DOMAIN threads, b \in {0, 1} :
          /\ t = Append(r, b) /\ Code(t) = 2 * Mid(r) + b
          /\ Divided(r) /\ Mid(r) \in 1..(z_val - 1)
    BY <1>7
  <2>2. PICK s \in DOMAIN threads, c \in {0, 1} :
          /\ u = Append(s, c) /\ Code(u) = 2 * Mid(s) + c
          /\ Divided(s) /\ Mid(s) \in 1..(z_val - 1)
    BY <1>7
  <2>3. Mid(r) = Mid(s) /\ b = c
    <3>1. \A m, n \in Nat : 2 * m + b = 2 * n + c => m = n /\ b = c
      OBVIOUS
    <3>. QED
      BY <1>3, <2>1, <2>2, <3>1
  <2>4. r = s
    BY <2>1, <2>2, <2>3, MidsApart
  <2>. QED
    BY <2>1, <2>2, <2>3, <2>4
<1>. QED
  BY <1>1, <1>2, <1>4, <1>5, <1>6, <1>7

\* There are threads enough: at most one for each piece and two for each place to cut at.
LEMMA ThreadsEnough ==
  ASSUME TreeOK, Nested, Apart, Proper, Rooted, Ordinary
  PROVE  ~ThreadsExhausted
<1>1. /\ n_workers \in Nat /\ z_val \in Nat /\ max_threads \in Nat
      /\ max_threads > n_workers + 2 * z_val
  <2>1. args \in Calls
    BY DEF TreeOK, TypeOK
  <2>2. max_threads \in Nat
    <3>1. args \in Seq(MinT..MaxT) \X Seq(MinT..MaxT) \X (Nat \ {0}) \X Nat
      BY <2>1, CallAssumption
    <3>. QED
      BY <3>1 DEF args
  <2>. QED
    BY <2>1, <2>2, ArgTypes DEF Ordinary
<1>. DEFINE T == (1 - n_workers)..(2 * z_val - 1)
            f == [t \in Live |-> Code(t)]
<1>2. IsFiniteSet(T) /\ Cardinality(T) < n_workers + 2 * z_val
  <2>1. 1 - n_workers \in Int /\ 2 * z_val - 1 \in Int
    BY <1>1
  <2>2. IsFiniteSet(T) /\ Cardinality(T) = IF 1 - n_workers > 2 * z_val - 1 THEN 0
                                          ELSE (2 * z_val - 1) - (1 - n_workers) + 1
    BY <2>1, FS_Interval
  <2>3. n_workers + 2 * z_val > 0
    <3>1. n_workers > 0
      BY ArgTypes DEF TreeOK, TypeOK
    <3>. QED
      BY <1>1, <3>1
  <2>. QED
    BY <1>1, <2>2, <2>3
<1>3. \A t \in Live : t \in DOMAIN threads
  BY DEF Live
<1>4. \A t \in Live : Code(t) \in T
  <2>. SUFFICES ASSUME NEW t \in Live PROVE Code(t) \in (1 - n_workers)..(2 * z_val - 1)
    OBVIOUS
  <2>1. \/ \E k \in 1..n_workers : Code(t) = 1 - k
        \/ \E s \in DOMAIN threads, c \in {0, 1} : Code(t) = 2 * Mid(s) + c /\ Mid(s) \in 1..(z_val - 1)
    BY <1>3, CodeOf
  <2>2. ASSUME NEW k \in 1..n_workers PROVE 1 - k \in (1 - n_workers)..(2 * z_val - 1)
    <3>1. z_val > 0
      <4>1. Split /\ args \in Calls
        BY <1>3, OneThread DEF TreeOK, TypeOK
      <4>2. lhs # <<>> /\ lhs \in Seq(Int) /\ rhs \in Seq(Int)
        BY <4>1, ArgTypes DEF Split
      <4>3. Len(lhs) \in Nat /\ Len(lhs) # 0 /\ Len(rhs) \in Nat
        BY <4>2
      <4>. QED
        BY <4>3 DEF z_val
    <3>. QED
      BY <1>1, <3>1
  <2>3. ASSUME NEW m \in 1..(z_val - 1), NEW c \in {0, 1}
        PROVE  2 * m + c \in (1 - n_workers)..(2 * z_val - 1)
    BY <1>1
  <2>. QED
    BY <2>1, <2>2, <2>3
<1>5. \A t, u \in Live : Code(t) = Code(u) => t = u
  BY <1>3, CodesDiffer
<1>6. f \in Injection(Live, T)
  BY <1>4, <1>5 DEF Injection, IsInjective
<1>7. IsFiniteSet(Live) /\ Cardinality(Live) <= Cardinality(T)
  BY <1>2, <1>6, FS_Injection
<1>8. Cardinality(Live) \in Nat /\ Cardinality(T) \in Nat
  BY <1>2, <1>7, FS_CardinalityType
<1>. QED
  BY <1>1, <1>2, <1>7, <1>8 DEF ThreadsExhausted

---------------------------------------------------------------------------------
(* The contract. *)

MergeInv ==
  /\ TreeOK /\ Nested /\ Apart /\ Exits
  /\ Results /\ OtherSide
  /\ LoopOK /\ Stuck /\ Rooted
  /\ Ordinary /\ ~NothingLeft => Proper

\* The arguments never change.
LEMMA NextArgs ==
  ASSUME [Next]_vars
  PROVE  UNCHANGED args /\ Ordinary' = Ordinary /\ NothingLeft' = NothingLeft
<1>1. UNCHANGED args
  <2>1. ASSUME NEW t \in DOMAIN threads, HighPref_Merge(t) PROVE UNCHANGED args
    BY <2>1 DEF HighPref_Merge, StoreFirst, StoreSecond, StoreOnly, Divide, MedianThrows, MedianSpins,
                SpawnL, SpawnR, SpawnFails, JoinL, JoinR, Abort, caller, vars
  <2>2. CASE Caller
    BY <2>2 DEF Caller, ReturnOtherSide, Enter, SplitStep, SplitEnd, SpawnWorker, SpawnWorkerFails,
                SpawnEnd, JoinWorker, Return, Abort
  <2>. QED
    BY <2>1, <2>2 DEF Next, Over, vars
<1>2. z_val' = z_val /\ lhs' = lhs /\ rhs' = rhs /\ n_workers' = n_workers /\ max_threads' = max_threads
  BY <1>1 DEF args, z_val
<1>. QED
  BY <1>1, <1>2 DEF Ordinary, NothingLeft

\* The whole invariant, at every step.
LEMMA MergeInvariant == Spec => []MergeInv
<1>1. Init => MergeInv
  <2>. SUFFICES ASSUME Init PROVE MergeInv
    OBVIOUS
  <2>1. DOMAIN threads = {} /\ pc = "called" /\ joined = 0
    BY DEF Init
  <2>2. Nested /\ Apart /\ Exits
    BY <2>1 DEF Nested, Apart, Exits
  <2>3. RangesOK /\ WrittenOK /\ JoinedOK /\ CallerOK /\ OtherSide
    BY <2>1 DEF RangesOK, WrittenOK, JoinedOK, CallerOK, OtherSide, Split
  <2>4. LoopOK /\ Stuck /\ Rooted /\ Proper
    BY <2>1 DEF LoopOK, Stuck, Rooted, Proper, Split
  <2>. QED
    BY <2>2, <2>3, <2>4, InitTree DEF MergeInv, Results
<1>2. MergeInv /\ [Next]_vars => MergeInv'
  <2>. SUFFICES ASSUME MergeInv, [Next]_vars PROVE MergeInv'
    OBVIOUS
  <2>1. TreeOK' /\ Nested' /\ Apart' /\ Exits'
    BY NextTree, NextCells, NextExits DEF MergeInv
  <2>2. Results' /\ OtherSide'
    BY NextRanges, NextWritten, NextJoined, NextOtherSide DEF MergeInv, Results
  <2>3. LoopOK' /\ Stuck' /\ Rooted'
    BY NextLoop, NextStuck, NextRooted DEF MergeInv, Results
  <2>4. (Ordinary /\ ~NothingLeft => Proper)'
    <3>1. (Ordinary' => Ordinary) /\ (~NothingLeft' => ~NothingLeft)
      BY NextArgs
    <3>2. Ordinary /\ ~NothingLeft => Proper'
      BY NextProper DEF MergeInv, Results
    <3>. QED
      BY <3>1, <3>2
  <2>. QED
    BY <2>1, <2>2, <2>3, <2>4 DEF MergeInv
<1>. QED
  BY <1>1, <1>2, PTL DEF Spec

\* PMerge returns nothing but the merge, whatever the interleaving of the threads, the number
\* of pieces and the depth of the tree, repeated values included (pmergejoin.h:163-271).
THEOREM MergeReturned == Spec => []Returned
<1>1. MergeInv => Returned
  BY JoinedReturns DEF MergeInv, Results
<1>. QED
  BY <1>1, MergeInvariant, PTL

\* Only a call that leaves the last worker nothing, or is not ordinary, ends the process.
LEMMA OrdinaryGoesOn ==
  ASSUME MergeInv, Ordinary, ~NothingLeft, pc # "aborted", [Next]_vars
  PROVE  pc' # "aborted"
<1>1. /\ TreeOK /\ Nested /\ Apart /\ RangesOK /\ Rooted /\ Proper
  BY DEF MergeInv, Results
<1>2. ~ThreadsExhausted
  BY <1>1, ThreadsEnough
<1>3. ASSUME NEW t \in DOMAIN threads, HighPref_Merge(t) PROVE pc' # "aborted"
  <2>1. ~SpawnFails(t)
    BY <1>2 DEF SpawnFails
  <2>2. ~MedianThrows(t)
    <3>1. threads[t].l[2] + threads[t].r[2] > 0
      <4>1. /\ LFrom(t) \in Nat /\ RFrom(t) \in Nat
            /\ threads[t].l[2] \in Nat /\ threads[t].r[2] \in Nat
            /\ LTo(t) = LFrom(t) + threads[t].l[2] /\ RTo(t) = RFrom(t) + threads[t].r[2]
        BY <1>1, ThreadRange
      <4>2. From(t) < To(t)
        BY <1>1 DEF Proper
      <4>. QED
        BY <4>1, <4>2 DEF From, To
    <3>2. /\ LSpan(t) \in Seq(MinT..MaxT) /\ SortedSpan(LSpan(t))
          /\ RSpan(t) \in Seq(MinT..MaxT) /\ SortedSpan(RSpan(t))
          /\ Searchable(LSpan(t), RSpan(t))
      BY <1>1, <3>1, OrdinarySpans
    <3>3. FindMedian(LSpan(t), RSpan(t)).tag = "returned"
      BY <3>2, FindMedianAnswers, Zenon
    <3>. QED
      BY <3>3 DEF MedianThrows
  <2>3. pc' = pc
    BY <1>3, <2>1, <2>2 DEF HighPref_Merge, StoreFirst, StoreSecond, StoreOnly, Divide, MedianSpins,
                SpawnL, SpawnR, JoinL, JoinR, caller, vars
  <2>. QED
    BY <2>3
<1>4. CASE Caller
  <2>1. ~SpawnWorkerFails
    BY <1>2 DEF SpawnWorkerFails
  <2>2. ~SplitStep \/ pc' = pc
    BY DEF SplitStep
  <2>. QED
    BY <1>4, <2>1, <2>2 DEF Caller, ReturnOtherSide, Enter, SplitEnd, SpawnWorker,
                SpawnEnd, JoinWorker, Return
<1>. QED
  BY <1>3, <1>4 DEF Next, Over, vars

\* The process ends while the call runs, and behind the split loop.
LEMMA AbortsRunning ==
  ASSUME MergeInv, pc # "aborted", pc' = "aborted", [Next]_vars
  PROVE  Split /\ pc # "done"
<1>1. TreeOK /\ Exits
  BY DEF MergeInv
<1>2. ASSUME NEW t \in DOMAIN threads, HighPref_Merge(t) PROVE Split /\ pc # "done"
  <2>1. Split
    BY <1>1, OneThread
  <2>2. MedianThrows(t) \/ SpawnFails(t)
    BY <1>2 DEF HighPref_Merge, StoreFirst, StoreSecond, StoreOnly, Divide, MedianSpins,
                SpawnL, SpawnR, JoinL, JoinR, caller, vars
  <2>3. threads[t].pc # "exited"
    BY <2>2 DEF MedianThrows, Searches, SpawnFails, Runs
  <2>. QED
    BY <1>1, <2>1, <2>3 DEF Exits
<1>3. CASE Caller
  <2>1. SpawnWorkerFails
    BY <1>3 DEF Caller, ReturnOtherSide, Enter, SplitStep, SplitEnd, SpawnWorker, SpawnEnd, JoinWorker, Return
  <2>2. pc = "spawn"
    BY <2>1 DEF SpawnWorkerFails
  <2>. QED
    BY <1>1, <2>2 DEF TreeOK, CallOK
<1>. QED
  BY <1>2, <1>3 DEF Next, Over, vars

\* Who is done or dead stays so.
LEMMA OverStays ==
  ASSUME MergeInv, pc \in {"done", "aborted"}, [Next]_vars
  PROVE  pc' = pc /\ (pc = "done" => res' = res)
<1>1. TreeOK /\ Exits
  BY DEF MergeInv
<1>2. ASSUME NEW t \in DOMAIN threads, HighPref_Merge(t) PROVE FALSE
  <2>1. pc # "aborted" /\ threads[t].pc # "exited"
    BY <1>2 DEF HighPref_Merge, StoreFirst, StoreSecond, StoreOnly, Divide, MedianThrows, MedianSpins,
                SpawnL, SpawnR, SpawnFails, JoinL, JoinR, Searches, Runs
  <2>. QED
    BY <1>1, <2>1 DEF Exits
<1>3. CASE Caller
  BY <1>3 DEF Caller, ReturnOtherSide, Enter, SplitStep, SplitEnd, SpawnWorker, SpawnWorkerFails,
              SpawnEnd, JoinWorker, Return
<1>. QED
  BY <1>2, <1>3 DEF Next, Over, vars

\* The outcome, in the words of the contract.
LEMMA OutcomeOf ==
  ASSUME MergeInv
  PROVE  Contract!MergeOutcome(lhs, rhs, n_workers) =
           IF lhs = <<>> THEN [tag |-> "done", val |-> rhs]
           ELSE IF rhs = <<>> THEN [tag |-> "done", val |-> lhs]
           ELSE IF NothingLeft THEN [tag |-> "aborted", val |-> <<>>]
           ELSE [tag |-> "done", val |-> Merged(lhs, rhs)]
<1>1. Contract!LastPieceEmpty(Len(lhs) + Len(rhs), n_workers) = NothingLeft
  BY DEF Contract!LastPieceEmpty, LastPieceEmpty, NothingLeft, z_val
<1>2. Contract!Merged(lhs, rhs) = Merged(lhs, rhs)
  BY DEF Contract!Merged, Merged, Contract!Sorted, Sorted, Contract!Preceding, Preceding,
         Contract!Cardinality, Cardinality
<1>. QED
  BY <1>1, <1>2 DEF Contract!MergeOutcome

\* Seen from the caller, a step is the answer of the contract, a failure it allows, or nothing.
LEMMA StepKeepsContract ==
  ASSUME MergeInv, MergeInv', [Next]_vars
  PROVE  [Contract!Answer \/ Contract!Fail]_(Contract!vars)
<1>. DEFINE st == IF pc \in {"done", "aborted"} THEN pc ELSE "running"
            rs == IF pc = "done" THEN res ELSE <<>>
<1>1. /\ UNCHANGED args /\ Ordinary' = Ordinary /\ NothingLeft' = NothingLeft
      /\ lhs' = lhs /\ rhs' = rhs
  BY NextArgs DEF args
<1>2. CASE pc \in {"done", "aborted"}
  <2>1. pc' = pc /\ (pc = "done" => res' = res)
    BY <1>2, OverStays
  <2>2. st' = st /\ rs' = rs
    BY <2>1
  <2>. QED
    BY <1>1, <2>2 DEF Contract!vars
<1>3. CASE pc \notin {"done", "aborted"} /\ pc' \notin {"done", "aborted"}
  <2>1. st' = st /\ rs' = rs
    BY <1>3
  <2>. QED
    BY <1>1, <2>1 DEF Contract!vars
<1>4. CASE pc \notin {"done", "aborted"} /\ pc' = "done"
  <2>1. res' = IF lhs = <<>> THEN rhs ELSE IF rhs = <<>> THEN lhs ELSE Merged(lhs, rhs)
    <3>2. Returned'
      <4>1. TreeOK' /\ JoinedOK' /\ CallerOK' /\ OtherSide'
        BY DEF MergeInv, Results
      <4>. QED
        BY <4>1, JoinedReturns, PTL
    <3>. QED
      BY <1>1, <1>4, <3>2 DEF Returned
  <2>2. lhs # <<>> /\ rhs # <<>> => ~NothingLeft
    <3>. SUFFICES ASSUME lhs # <<>>, rhs # <<>> PROVE ~NothingLeft
      OBVIOUS
    <3>1. Split'
      BY <1>1, <1>4 DEF Split
    <3>2. (pc = "done")'
      BY <1>4
    <3>3. (TreeOK /\ LoopOK /\ Stuck /\ Exits /\ CallerOK /\ RangesOK)'
      BY DEF MergeInv, Results
    <3>4. (~NothingLeft)'
      BY <3>1, <3>2, <3>3, NothingLeftStays, PTL
    <3>. QED
      BY <1>1, <3>4
  <2>3. Contract!MergeOutcome(lhs, rhs, n_workers) = [tag |-> "done", val |-> res']
    BY <2>1, <2>2, OutcomeOf
  <2>4. st = "running" /\ st' = "done" /\ rs' = res'
    BY <1>4
  <2>5. Contract!Answer
    BY <1>1, <2>3, <2>4 DEF Contract!Answer, args
  <2>. QED
    BY <2>5
<1>5. CASE pc \notin {"done", "aborted"} /\ pc' = "aborted"
  <2>1. Split
    BY <1>5, AbortsRunning
  <2>2. st = "running" /\ st' = "aborted" /\ rs = <<>> /\ rs' = <<>>
    BY <1>5
  <2>3. CASE NothingLeft
    <3>1. Contract!MergeOutcome(lhs, rhs, n_workers) = [tag |-> "aborted", val |-> <<>>]
      BY <2>1, <2>3, OutcomeOf DEF Split
    <3>2. Contract!Answer
      BY <1>1, <2>2, <3>1 DEF Contract!Answer, args
    <3>. QED
      BY <3>2
  <2>4. CASE ~NothingLeft
    <3>1. ~Ordinary
      BY <1>5, <2>4, OrdinaryGoesOn
    <3>2. Contract!Fail
      BY <1>1, <2>2, <3>1 DEF Contract!Fail
    <3>. QED
      BY <3>2
  <2>. QED
    BY <2>3, <2>4
<1>. QED
  BY <1>2, <1>3, <1>4, <1>5

\* The thread tree implements the safety part of the contract PMergeSort is modelled with:
\* whatever the number of workers, the length of the vectors and the interleaving, a call comes
\* in one visible step to the merged vector, or to the end of the process when the split loop
\* leaves the last worker nothing, and an ordinary call to nothing else (pmergejoin.h:163-271).
THEOREM MergeImplementsContract == Spec => ImplementsContract
<1>1. Init => Contract!Init
  <2>. SUFFICES ASSUME Init PROVE Contract!Init
    OBVIOUS
  <2>1. pc = "called"
    BY DEF Init
  <2>2. args \in Calls
    BY InitTree DEF TreeOK, TypeOK
  <2>3. Ordinary \in BOOLEAN
    BY DEF Ordinary
  <2>. QED
    BY <2>1, <2>2, <2>3 DEF Contract!Init
<1>2. MergeInv /\ MergeInv' /\ [Next]_vars => [Contract!Answer \/ Contract!Fail]_(Contract!vars)
  BY StepKeepsContract
<1>. QED
  BY <1>1, <1>2, MergeInvariant, PTL DEF Spec, ImplementsContract, Contract!Safety
=================================================================================
