-------------------------------- MODULE Exercises -------------------------------
(***************************************************************************)
(* The sorting exercises under practise: MergeSort (mergeSort.h), whose    *)
(* Merge compares with elements behind the ends of its two arrays, and     *)
(* initial_sort (example_th.cpp).  Arrays start at 0, as in the code.      *)
(***************************************************************************)
EXTENDS Integers, SequencesExt

CONSTANTS Element,    \* the integers that are sorted
          Garbage,    \* what a read behind an array may give
          MaxArray,   \* bounds the arrays
          Threads     \* the arguments num_threads

ASSUME ExercisesAssumption ==
  /\ Element \subseteq Int /\ Garbage \subseteq Int
  /\ MaxArray \in Nat /\ Threads \subseteq Nat \ {0}

VARIABLES
  exercise,       \* "merge_sort", "initial_sort", or "none"
  input, array,   \* as it was given, and as it is
  calls,          \* the calls of Merge that are left
  merge,          \* the one under way, or NoMerge
  slices          \* initial_sort: num_threads and the slices sorted

evars == <<exercise, input, array, calls, merge, slices>>

NoMerge == [key |-> -1]
NoSlices == [threads |-> 0, sorted |-> 0]
N == Cardinality(DOMAIN array)

\* The calls of Merge that MergeSort(array, begin, end) makes, in their order.
MergeCalls(size) ==
  LET from[range \in (0..size) \X (0..size)] ==
        LET b == range[1]
            e == range[2]
            middle == (e + b) \div 2
        IN IF b + 1 < e
           THEN from[<<b, middle>>] \o from[<<middle, e>>]
                  \o <<[begin |-> b, middle |-> middle, end |-> e]>>
           ELSE <<>>
  IN from[<<0, size>>]

NoExercise ==
  exercise = "none" /\ input = <<>> /\ array = <<>> /\ calls = <<>> /\ merge = NoMerge
    /\ slices = NoSlices

EInit ==
  /\ \E size \in 0..MaxArray : input \in [0..(size - 1) -> Element]
  /\ array = input /\ merge = NoMerge
  /\ \/ exercise = "merge_sort" /\ calls = MergeCalls(N) /\ slices = NoSlices
     \/ exercise = "initial_sort" /\ calls = <<>> /\ slices \in [threads : Threads, sorted : {0}]

---------------------------------------------------------------------------------
(* Merge. *)

Copied(from, to) == [k \in 0..(to - from - 1) |-> array[from + k]]

Merge ==
  /\ exercise = "merge_sort" /\ merge = NoMerge /\ calls # <<>>
  /\ LET c == Head(calls)
     IN merge' = [left |-> Copied(c.begin, c.middle), right |-> Copied(c.middle, c.end),
                  n1 |-> c.middle - c.begin, n2 |-> c.end - c.middle,
                  i |-> 0, j |-> 0, key |-> c.begin, end |-> c.end]
  /\ UNCHANGED <<exercise, input, array, calls, slices>>

ReadAt(s, k) == IF k \in DOMAIN s THEN {s[k]} ELSE Garbage

\* The four branches in their order, with what the comparisons read as left[i] and right[j].
\* In NoRest, a mutant, the last branch is forgotten.
LeftNext(m, r) == m.i < m.n1 /\ m.left[m.i] <= r
RightNext(m, l) == m.j < m.n2 /\ (l >= m.right[m.j] \/ m.i = m.n1)
NoRest(m) == FALSE
LeftRest(m) == m.j = m.n2 /\ m.i < m.n1

Insert ==
  /\ exercise = "merge_sort" /\ merge # NoMerge /\ merge.key < merge.end
  /\ \E l \in ReadAt(merge.left, merge.i), r \in ReadAt(merge.right, merge.j) :
       LET takeLeft == LeftNext(merge, r) \/ (~RightNext(merge, l) /\ LeftRest(merge))
           takeRight == ~LeftNext(merge, r) /\ RightNext(merge, l)
       IN CASE takeLeft  -> /\ array' = [array EXCEPT ![merge.key] = merge.left[merge.i]]
                            /\ merge' = [merge EXCEPT !.i = @ + 1, !.key = @ + 1]
            [] takeRight -> /\ array' = [array EXCEPT ![merge.key] = merge.right[merge.j]]
                            /\ merge' = [merge EXCEPT !.j = @ + 1, !.key = @ + 1]
            [] OTHER     -> array' = array /\ merge' = [merge EXCEPT !.key = @ + 1]
  /\ UNCHANGED <<exercise, input, calls, slices>>

EndMerge ==
  /\ exercise = "merge_sort" /\ merge # NoMerge /\ merge.key = merge.end
  /\ merge' = NoMerge /\ calls' = Tail(calls)
  /\ UNCHANGED <<exercise, input, array, slices>>

---------------------------------------------------------------------------------
(* initial_sort.  It starts no thread: the slices are sorted one by one.   *)

SliceSize == N \div slices.threads

\* The array with the elements from begin to before end in order.
SortedBetween(begin, end) ==
  LET sorted == SortSeq([k \in 1..(end - begin) |-> array[begin + k - 1]], LAMBDA a, b : a < b)
  IN [k \in DOMAIN array |-> IF begin <= k /\ k < end THEN sorted[k - begin + 1] ELSE array[k]]

SortSlice ==
  /\ exercise = "initial_sort" /\ slices.sorted < slices.threads
  /\ LET offset == slices.sorted * SliceSize
     IN array' = SortedBetween(offset, Min({offset + SliceSize, N}))
  /\ slices' = [slices EXCEPT !.sorted = @ + 1]
  /\ UNCHANGED <<exercise, input, calls, merge>>

---------------------------------------------------------------------------------
Ended ==
  CASE exercise = "merge_sort"   -> calls = <<>>
    [] exercise = "initial_sort" -> slices.sorted = slices.threads
    [] OTHER                     -> TRUE

ENext == Merge \/ Insert \/ EndMerge \/ SortSlice

---------------------------------------------------------------------------------
AscendsBetween(begin, end) == \A i, j \in begin..(end - 1) : i <= j => array[i] <= array[j]
Count(a, x) == Cardinality({k \in DOMAIN a : a[k] = x})

\* MergeSort returns its input in order, whatever Merge reads behind left and right once one
\* of them is used up (mergeSort.h:23-25): the branch that is taken then is the right one
\* either way.
SortsWhateverItReads ==
  exercise = "merge_sort" /\ Ended =>
    AscendsBetween(0, N) /\ \A x \in Element : Count(array, x) = Count(input, x)

\* "Take input, divide it into num_threads equal-sized pieces, and sort each piece.  We
\* return the size of the first num_threads - 1 pieces (the last part is the left overs)"
\* (example_th.cpp:14-18).
SortsLeftOvers ==
  exercise = "initial_sort" /\ Ended =>
    /\ \A k \in 0..(slices.threads - 2) : AscendsBetween(k * SliceSize, (k + 1) * SliceSize)
    /\ AscendsBetween((slices.threads - 1) * SliceSize, N)
=================================================================================
