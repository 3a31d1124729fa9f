# Verification of the parallel merge sort and of skipjoin

The repository holds a merge sort, a group of programs around one index, and some exercises:

* `MergeJoin/Mergejoin/pmergejoin.h`, a parallel merge sort after
  `MergeJoin/requirement/nwang.pdf`, and its `main` in `MergeJoin/MergeJoin.cpp`;
* `MergeJoin/skipjoin/`, an append-only index for temporal events (the stab forest) with
  temporal joins and window queries on it, and six command line programs that prepare data
  sets and measure these operations;
* `MergeJoin/practise/`, exercise code that neither program uses;
* `MergeJoin/boost/`, vendored.

All paths below are relative to `src/MergeJoin/`; `stab_forest.hpp` and its neighbours are in
`skipjoin/source/`.

## 1. The system

### Parallel merge sort

| part | state | operations | correct when |
|---|---|---|---|
| `FindMedian` | loop bounds `begin`, `end`; which span is probed | one probe per iteration, over spans extended by the sentinels `INT_MIN`, `INT_MAX` | what it returns is the element of rank n/2; it returns whenever the spans have no tie |
| `HighPref_Merge` | ranges of both vectors, a position in `res`, two child threads | write one or two elements, or find the median and start two threads | no two threads write one element; no thread is left behind |
| `PMerge` | the split loop, the workers, `res` | cut the input in pieces, start a worker for each, join them | returns the sorted union |
| `PMergeSort` | lists `jobs` and `res` of sorted vectors | split and sort jobs, rounds of pairwise merges | nothing lost, ends, sorted |

`PMergeSort` calls `PMerge` once per pair of jobs; `PMerge` starts threads running
`HighPref_Merge`, each of which starts two more. All share `lhs` and `rhs`, read only, and
`res`, without locks: they are kept apart only by the ranges computed. An exception in any of
them, from `FindMedian` or from a thread that cannot be started, ends the process. Hard here:
interleavings of the thread tree, lifetimes, ties, integer boundaries of the split loop.

### skipjoin

| part | state | operations | correct when |
|---|---|---|---|
| `stab_forest` | event list, stab-tree nodes, forest-points (roots), tail | `append_event`, `stab_search` | a stab returns exactly the active events |
| `stab_forward_helper` | position in the event list, the node to start from, the nodes and left-list positions of earlier stabs | `++`, `stab_forward` under one of three jump policies | each stab writes what is active and not yet passed, once |
| `forward_scan`, `forward_skip_join` | two positions (helpers), the output | step or jump one side | exactly the overlapping pairs, once each |
| `measure_multi_window` | a helper, a window | stab at a window's start, scan to its end | exactly the events of the windows, once each |
| `block_list` | chain of blocks, last block and offset | append, pop, swap, move, destroy, iterate, `repoint_iterator` | a stack; iterators stay good, in the list their chain is in |
| `dataset.hpp`, `tool_split`, `min_max` | the data file, the two halves, the extremes found so far | read, shuffle and split; search | reads the numbers that are there or refuses; the halves are of the data; the extremes are |
| `measure_insert`, `measure_jump`, `measure_part_join`, `measure_window` | the data read, two forests, a loop counter | build forests of growing size, run joins and queries on them | append in order, join what they say they do, end |

The joins and the query call the helper, which calls back into the forest
(`navigate_index`), which calls back into the helper (`left_child`, `right_child`,
`select_node`, `before_trees`, `after_trees`). Everything is sequential. Hard here: long
sequences of legal calls (cascading merges, stabs that rely on the memory of earlier stabs),
list orders that searches take for granted, and boundaries between equal timestamps. The
programs hand files to each other: `tool_split` writes what `measure_part_join` and
`measure_window` read, and sorts one of its two files only. It empties both before it converts
its argument and reads the data, so that when either fails the last split is gone.

### Exercises

`practise/mergeSort.h` sorts an array by merges whose comparisons read behind their arrays;
`practise/example_th.cpp` sorts slices of an array. `practise/doublelinkedlist.h` does not
compile.

`PROJECT.json` lists every component, and under `hazards` what in this code is hard to test,
line by line, with the properties that cover it.

## 2. The modules

| module | models | state and actions |
|---|---|---|
| `MedianOps` | one probe of `FindMedian`, the search as a function | none |
| `MedianSearch` | `FindMedian` | `pass`, `begin`, `end`, `result`; one action per branch of the loops |
| `MergeOps` | merged vectors, the arithmetic of the split loop | none |
| `MergeLemmas` | lemmas on what the operators of `MedianOps` and `MergeOps` compute | |
| `PMerge` | one call of `PMerge` with its thread tree | caller: split loop, spawn, join; a thread, named by its path in the tree, steps from one access to `res`, thread creation or join to the next |
| `PMergeProofs` | theorems on `PMerge` | |
| `MergeContract` | what `PMergeSort` relies on | one step: `Answer`, or `Fail` for a call with ties, sentinels or too few threads |
| `PMergeSort` | `PMergeSort`, over `MergeOutcome` | `jobs`, `res`, `count`, `idx`; the split, a merge, the end of a round |
| `PMergeSortProofs` | theorems on `PMergeSort` and `MedianSearch` | |
| `Events` | intervals, copy functions, three-way merge | none |
| `ForestOps` | the forest as a value: append, merge, navigate, stab | none |
| `StabForest` | `stab_forest` | `forest`; `Append_event` |
| `StabForestProofs` | theorems on the forest's shape and lists, and the lemmas on its operators | |
| `ForwardOps` | the helper as a value, the policies | none |
| `StabForward` | a helper on a forest | `Fill`, `Stab_forward_search`, `Increment`, `Stab_forward` |
| `StabSearchProofs` | theorems on searches and on `StabForward` | |
| `EventLists`, `ForestLists` | the lists that joins and queries are given, `left` and `right`, and the forests over them | none |
| `SweepJoin` | the loop that both joins share | `lit`, `rit`, `pairs`; no actions |
| `JoinContract` | what every sweep join promises | `Pass` |
| `ForwardScan` | `forward_scan` | `JoinLeft`, `JoinRight` |
| `SkipJoin` | `forward_skip_join` on two forests and helpers | `policy_l`, `policy_r`; step or jump, on either side |
| `MultiWindow` | `measure_multi_window` on a forest and a helper | `Stab`, `Scan`, `NextWindow` |
| `Measures` | the measure functions: one of the three modules above on two lists | theirs |
| `MeasuresProofs` | theorems on `ForwardScan`, `MultiWindow`, `SkipJoin` and `Measures` | |
| `BlockStack` | what `block_list`s promise | push, pop, swap, destroy |
| `BlockList` | two `block_list`s and one iterator that a user holds | the lists' and the iterator's operations |
| `BlockListProofs` | theorems on `BlockList` | |
| `DataSet` | data files as texts, `to_unsigned`, `read_events`, writing events | none |
| `Tools` | the command line programs, one after another on the same files | `files`, `split` (history: what the last `tool_split` read), `program`, its data sets, forests and counter; a start, the steps of the loop and an end for each program; `Replace_data`, the user who puts another data file in place |
| `Exercises` | `MergeSort` and `initial_sort` | `Merge`, `Insert`, `EndMerge`; `SortSlice` |
| `Programs` | the tools beside the exercises | theirs |
| `ProgramsProofs` | theorems on `Tools` and `Exercises` as `Programs` composes them | |

`PMerge` implements `MergeContract`, both joins implement `JoinContract` (the skipping one
where no event is lost: both sides scan, or starts are distinct) and `BlockList` implements
`BlockStack`, each checked as a property of a run and proved as well (section 4). `PMergeSort` is composed with `PMerge` through the contract: its step
`MergeFrontTwo` is `MergeOutcome`, and `MergeImplementsContract` says that the whole thread tree
comes to it. `SkipJoin` and `MultiWindow` use the very operators
(`StabForwardOp`, `ForestOf`) that `StabForward` and `StabForest` take their actions from, and
`Measures` extends both beside `ForwardScan` over one pair of lists. A forest in `Tools`
is the list of the events appended to it, since what a list of appended events answers is
the subject of `StabForest` and `Measures`.

Conventions. Vectors are sequences; positions in `MedianOps` and `PMerge` are 0-based as in
the code, positions in event lists are 1-based with `Len + 1` for `end()`. Nodes and
forest-points are records in two sequences and a pointer names a sequence and a position. The
three parts of `ll_raw_data` are three fields (`nsa`, `ded`, `ned`). Values, timestamps and
events are small integers and pairs of them; the forest only compares them, adds one and
subtracts one. `Tools` computes with them as the code does, modulo `UIntMax + 1`. A file is a
sequence of texts and a text a sequence of characters, digits or `Other`. A definition marked "Mutant" is a slip the checks must notice; no behaviour
uses it.

## 3. What is checked

### Passing runs

| run | bounds | shows |
|---|---|---|
| `median` | sorted spans up to 4 values each, of 5 values with both sentinels among them | a returned value is the median; a throw means a tie, a sentinel or nothing to search; no other input loops |
| `merge` | every deal of up to 5 distinct values to 1 to 4 workers; up to 4 values out of 4, ties and sentinels included, to 1 to 3 workers with room for 7 threads | no race, no thread outlives the call, pieces in order; every interleaving is one step of `MergeContract` (`ImplementsContract`), and ends with distinct values and threads enough (`AnswersOrdinary`) |
| `sort` | up to 24 values in three arrangements, 1 to 9 workers | jobs sorted and disjoint, rounds end, nothing lost with 1, 2, 3 and 5 workers |
| `forest` | every list of up to 5 events between 4 timestamps, repetitions included, with helpers on those of up to 4; up to 9 events, a start each, of 2 durations; index policy, and check policy with factor 1 | stabs exact; left-lists share out the events, in order; the index is a binary counter; nodes inside trees are never written again; a stab of a helper writes nothing twice, nothing inactive or passed, may lose events of the current start only, and stops in the right place |
| `measures` | every pair of lists that 6 events make, and short lists with repetitions, any of the three policies on each side | `forward_scan` implements `JoinContract`, each pair once; `forward_skip_join` writes no wrong or repeated pair, implements the contract with list jumps or distinct starts, and jumps only from the first event of a start; the query is exact with list jumps after each window; with any policy over windows that follow each other, and with the check policy that `measure_window` uses over any, it writes nothing twice or outside them and stabs from the index only where that is legal |
| `blocks` | two lists in blocks of 2, up to 5 values together | two stacks; iterators stable across swaps, `repoint_iterator` right, the destructor destroys exactly the values, traversals right unless a block was refilled |
| `programs` | files of up to 4 events or 4 texts, numbers up to 15, replaced by one that is not readable or by one of 3 other events; any order of programs; arrays of up to 5 elements | files are read as the numbers they hold or refused; every forest is appended to in order; `measure_part_join` joins the two halves of what the last `tool_split` read, of nothing if that failed, whatever the data file is since; the lists of `measure_jump` have no pair; `min_max` right where some event has a duration between the extremes; `MergeSort` right whatever lies behind its arrays; all programs end but for two loops |

Why these bounds. Four workers and five values are the least with which the split loop both
cuts in the middle and behind the last value and the thread tree has three levels beside
other workers. Four jobs are the least that `PMergeSort` loses one of, nine the least with
three lossy rounds. In the forest, two equal timestamps, an event that spans several starts
and four leaves (five different starts) are needed for a navigation-key list to be split
again; eight leaves give a cascade of three merges and trees of height three. A block of two
has a boundary on both sides of each value, and with five values both lists can be in their
second block at once. Numbers up to 15 have one and two digits, and the largest does
not end in nine, like 2^32 - 1. `Parts` is 2 where the code has 10, so that files of two to four
events are files with enough periods and one event a file with too few. Two files to put in
place are enough: a `tool_split` after a split either fails, on the argument or on the file, or
reads events that the split before did not have. In `measures` the lists have an event far
behind two that start together, so that the check policy stabs from the index after overlapping
windows too. `forest` uses a
CONSTRAINT that keeps TLC to two families of event lists, all short ones and the long ones
with a start per event; every prefix of a member is a member, so all of them are reached. No
liveness is checked in that run.

### Runs that refute a statement of the code base

| run | refuted | why |
|---|---|---|
| `merge_small` | `nwang.pdf` p. 1, `n` "the number of threads we can use" | line 238 of `pmergejoin.h` cuts behind the last value; the last worker gets nothing, throws and ends the process |
| `sort_four` | `nwang.pdf` p. 1, "while \|X\| >= 2 ... the first two lists" | line 303 compares a growing index with a shrinking size; a round of four jobs loses one |
| `skip_join_loses` | `stab_forest.hpp:807-812`, `temporal_join.hpp:151`, the definition of the join | `start_at_after < nkey - 1` (lines 1031, 1060) skips a list that has events starting at `nkey - 1`: pairs are missing |
| `min_max` | `README.pdf` section 3, "a dataset analysis tool to find the events with minimal and maximal duration" | `max` starts at zero and only a duration above it counts (`min_max.cpp:64`): where all events are moments, an event never assigned is printed |
| `left_overs` | `example_th.cpp:15-17`, "divide it into `num_threads` equal-sized pieces ... (the last part is the left overs)" | the loop sorts slices of the quotient and nothing behind them |

Passing properties delimit six more departures from what a comment says:

* `FindMedian` throws, or never ends, on a tie between its spans, although it is to "find the
  median val" (`pmergejoin.h:49`): `ThrowsOnlyUnsearchable`, `SearchReturns`.
* A stab of the helper loses an event only if it starts with the current one
  (`LosesOnlyCurrentStart`), the cause of `skip_join_loses`. The multi-window query loses
  events for the same reason under the index and check policies, so `ExactSoFar` is about the
  list policy.
* The multi-window query stabs at every window's start (`measure_join.hpp:84`), also where the
  scan before has passed it, although `stab_forward` is to be called from the first event of its
  start (`stab_forest.hpp:809-811`). From the index such a stab would move the helper back and
  write events again. With the check policy, which `measure_window` uses, such a start is never
  behind that of the event `threshold` places ahead (`stab_forest.hpp:872`), so the stab goes along
  the list and stays: `StabsAhead` and `WritesWindowsOnly` say so over any windows. For the index
  policy both are about windows that follow each other; no program combines it with the query.
* After a block list has shrunk into a block and filled it again, `++` from the last value does
  not give `end()` (`block_list.hpp:188`): `Traversals` with `RefilledBlock`. It needs more than
  32 forest-points, hence more than 2^32 starts, to touch the stab forest itself.
* Two loops of the programs make no progress and are excluded from `AllEnd`, which shows that
  all others do: `measure_insert.cpp:133` with step size zero, and `measure_window.cpp:39` with
  fewer than ten periods.
* A lone forest-point has height zero, where `stab_forest.hpp:348-350` says at least one;
  `BinaryCounter` holds with the heights as they are.

### Fairness

Four runs check liveness: `median` (`SearchReturns`), `merge` (`AnswersOrdinary`: the contract's step is fair for ordinary calls),
`sort` (`Ends`) and `programs` (`AllEnd`). The fairness is weak fairness of the next step in the first three: a
sequential program that can take its next statement takes it, and of a set of threads some
runnable one runs. In `programs` it is weak fairness of the work of a started program
(`Work`) and of an exercise (`Practise`), and none of starting one. No
fairness between threads is assumed. The endless second loop of `FindMedian` is a step
that changes nothing, so weak fairness does not help it along, and the contract promises an
answer to ordinary calls only. Deadlock is checked in `merge`, `sort` and `blocks` (an ended
call stutters explicitly, and a list can always be asked for an iterator); the other specifications end when their input does, and say so.

## 4. What is proved

For every value of the constants, with TLAPS.

`PMergeSortProofs`, on `FindMedian`, for all inputs that are sorted sequences over `MinT..MaxT`
(`InputAssumption`, `SentinelAssumption`):

* `SearchInvariant`: `SearchSpec => []SearchInv`. `LoopTypeOK` alone does not say why a value that
  separates is the median, nor why reaching the end of both loops means the input was
  unanswerable. The strengthening is `Narrowed`: each position left of `begin` has a value
  smaller than its counterpart at the rank, each one from `end` on a larger one, and the
  second loop runs only once the first has narrowed `m1` to nothing. A step that moves a
  bound extends one half of `Narrowed` by monotony of the sentinel-extended spans.
* `SearchTypeOK`, `SearchReturnsMedian`, `SearchThrowsOnlyUnsearchable` follow from it.
  The last rests on the lemma that spans without ties or sentinels hold their
  median at a position that neither loop can exclude.
* `SearchAgreesWithFindMedian`: the loops, step by step, end in what the function `FindMedian` of
  `MedianOps` computes, which `Divide` in `PMerge` takes its median from. The invariant is
  `StillAnswers`: the loop function applied to the range left is what it was applied to the
  whole, which each branch keeps since the function unfolds to the same branch.

`PMergeProofs`, for every pair of sorted vectors, number of workers, limit on threads
(`CallAssumption`) and interleaving:

* `MergeTree`: `Spec => []TreeOK`. `TypeOK` alone is not inductive: that a cut stays inside the
  vectors needs `SplitOK` (where the split loop is and that it never passes a value greater than
  one behind it) and `CutsOK`, and that a child's range does needs `Paths`, which says which
  threads there are. `MergeTypeOK` and `MergePiecesInOrder` follow.
* `MergeRaceFree` needs in addition `Nested`: a thread writes inside its worker's piece and inside
  the half that each thread above it gave away, and a thread that has not started a child has
  nothing below it there. `Apart` then holds for the new thread against every other by
  cases on where their paths part.
* `MergeNoThreadOutlivesCall` needs `Exits`: what a thread or the call has joined, has exited with
  everything below it.
* `MergeReturned`: whatever a call returns is the sorted union of its arguments, repeated values and
  sentinels included. `Results` strengthens it: every range is cut out of both vectors in
  order, and a child's range is the half its parent gave away (`RangesOK`); where a thread
  that exited was to write stands the merge of its range (`WrittenOK`), and so for the
  pieces of the workers joined (`JoinedOK`). A merge is identified by ranks, since `Merged` is
  defined by them: a stretch of `res` is the merge of two ranges if it ascends and has as many
  values below each bound as they have (`HoldsMerge`). With that the merges of two halves
  that a cut divides join (`MergeJoin`), a step elsewhere in `res` changes nothing
  (`MergeSame`), and the merge of everything is `Merged` (`MergeAll`).
* `MergeImplementsContract`: `Spec => ImplementsContract`. Every step maps to `Answer`, to `Fail` or
  to no step. That a call which may not fail does not abort needs four more parts. `LoopOK`:
  the turns left to the split loop decide whether its last piece is empty, as the contract's
  `LastPieceEmpty` foretells. `Stuck`: a thread with nothing to merge never gets past its entry, so
  a call whose last piece is empty does not return. `Proper`: in an ordinary call with no
  empty piece every thread has something to merge and, past its median, something in both
  halves (`MedianSplits`), so no child is empty and `FindMedian` has an answer. `Rooted` with `Proper` numbers
  the threads (`Code`), which bounds how many there are by `n_workers + 2 * z_val`: an ordinary
  call never runs out of threads (`ThreadsEnough`).

`MergeLemmas` has what these proofs and those on `FindMedian` and `PMergeSort` need of the operators:
that the recursive `FindMedian` answers with a median on searchable spans (`FindMedianAnswers`), that
a median divides them (`MedianSplits`), and what `Sorted` and `Merged` return (`SortedUnique`, `MergedUnique`).

`PMergeSortProofs`, on `PMergeSort`, for inputs of any length and any number of workers (`CallAssumption`; the
contract of a merge is `MergeOutcome`): `SortInv`, from which `SortTypeOK`, `SortSortedAndApart` and
`SortNothingLost` follow. The invariant says what of the input the jobs dealt out have
(`SplitInv`), and, for the rounds, which sizes of `jobs` and `res` go with which index
(`LosslessLoop`): with 1, 2, 3 or 5 jobs one is left over at most, and `RoundEnd` carries it. What
`Sorted` returns is proved from its definition by ranks (`SortedFacts`), and that a merge of sorted
vectors is the only ascending order of their values (`AscendingUnique`).

`BlockListProofs`, for any number of lists, values and block size (`BlockAssumption`): `BlockListInv`
says of each list that its end is at the place its size gives and that the cells before it, in all
blocks, are those that hold values, and of the iterator held that it stands for its value
(`StandsFor`: at its cell, or behind the last cell of the block before). `BlockListTypeOK`,
`BlockListIteratorsStable`, `BlockListTraversals` follow, and `BlockListImplementsStack`: a step maps to the step
of `BlockStack` on the sequence of the values at places 1 to `size`, or to none.

`StabForestProofs`, for any events and any number of appends (`EventAssumption`):

* `ForestInvHolds`: `Spec => []ForestInv(forest)`. That the heights are the digits of a binary counter
  (`BinaryCounter`) is not inductive: a merge makes a tree of two, so the invariant has to say
  what the trees are. `Shape` says that the forest-points stand over consecutive segments of
  2^height nodes; that a forest-point is the copy of the last node of its segment, which
  is itself still without children; that the node at `j` of height `h` has its children at
  `j - 2^(h-1)` and `j + 2^(h-1)`, inside its segment (`TreesOK`); and that the intervals of
  the nodes follow each other (`KeysOK`). `BuildLeaf` and `MergeForestPoints` keep it, the latter between
  two forest-points of one height (`MergeShape`), so every turn of the loop of `maintain_index`
  does; and when the loop stops the heights descend strictly and are linked (`Linked`).
* `ForestBinaryCounter` and `ForestTypeOK` follow: all pointers lead to nodes that exist, though
  merges destroy forest-points. So does `ForestPlacedNodesStay`: what is in a tree is in no
  forest-point's `replacement_node` (`Settled`), and only those are written.
* `ForestPathsDescend`: a search from the first forest-point for an indexed value ends at the node
  that has it, over ever lower nodes. `InRange` is the invariant of the walk: the
  value lies between the first key and the last of what a pointer leads to.
* `ForestContentHolds`: `Spec => []ContentInv(forest)`, which adds what the lists hold, stated with
  multiplicities (`Holds(s, all, C)`: `s` has each event of `C` as often as `all` has it, and no
  other). A node over the nodes from `a` to `b` has in its data list the events that start at its
  `dkey`, in its navigation lists those that start between the `nkey` of `a` and its own and last until then, in both
  cases only what ends before the interval behind `b` (`NodeHolds`); a forest-point has its lists without
  that last condition (`PointHolds`). `CutOK` says that the positions kept in the nodes cut the
  list of events at their keys. `MergeForestPoints` divides the lists of the left forest-point by
  exactly that condition (`MergedRootSides`, `MergedPointSides`); TLC had found no state against
  `ListsHold` and `CutOK` on the bounds of the run `forest` before the proof was begun.
  `ForestListsOrdered` follows.

`StabSearchProofs`, for the same forests, every value, and every sequence of steps and stabs under
each jump policy (`PolicyAssumption`):

* `ForestSearchExact`: `Spec => []StabSearchExact`, for every forest, value and number of events.
  The walk carries a pair of bounds (`Place`): what is still to be found below a pointer are the active
  events in `gone` that start from `low` on. To the left of a node remain those that end before its
  `nkey`, to the right those that start after its `dkey`, and the node gives the rest
  (`LeftHolds`, `RightHolds`, `SelectHolds`), so that what is copied along the path is all there is
  (`PathFinds`). Behind the last node the forest-points and the tail give everything
  (`IndexGives`, `TailActive`).
* `ForestEventsOnce`: `Spec => []EachEventOnce`, which counts over all nodes. An event that a node has
  reaches over that node's interval and not beyond the nodes in its segment (`HasAt`). So if
  two nodes had it, each would be in the other's segment, and then they are one
  (`SpansApart`, `OnlyOneHas`). That one node does have it is a walk like that of `ForestSearchExact`,
  down to the first node whose interval the event reaches over (`SomeHas`).
* `ForwardInvHolds`: `FSpec => []FInv`. That a stab writes what it should is not inductive, since it
  depends on what earlier stabs left in the helper. `Knows(f, h, x)` says what that memory means
  when all starts up to `x` are passed. An entry of `visited_nodes` counts for
  the pointer it names only: what that node's left-list has before `start_asc_it` starts no later
  than `x`, unless the node's key is passed, and then no later stab goes left there (`Remembers`). `first_left_parent` is a forest-point
  whose tree begins no later than behind `x` (`KnowsLeft`), so nothing that is still to be found lies to its left,
  also after steps and list scans which leave it behind. `StabAhead` is the step: a
  stab that its caller may make (`MayAsk`), under whichever policy and whether it ends before, in
  or behind the trees, leaves a helper that knows what has been passed then, at the first
  event that starts after its value, and what it wrote is right (`Right`). The walks are those of
  `ForestSearchExact` with `start_at_after`: what a node gives from a start on is compared with what a search
  would copy there (`Forwards`, `ForwardsBoth`).
* `ForwardWritesOnlyExpected`, `ForwardLosesOnlyCurrentStart` and `ForwardStopsAfterValue` follow. The middle one
  is as strong as the code allows: with the index policy an event with the start of the
  current one is lost indeed (run `skip_join_loses`).

`MeasuresProofs`, for all ordered lists (`EventAssumption`, `ListsAssumption`):

* `ScanKeepsType`; `ScanWritesPassed`: the pairs written are those that overlap with an event
  passed, which is inductive with `ScanTypeOK`. The step needs that the scan of the other list,
  which stops at the first event starting after the current one ends, sees every
  partner at or behind the position, and that there is none before it that was not
  written (lemmas `UpToAll`, `LeftAdds`, `RightAdds`).
* `ScanComplete`: when the sweep stops, all overlapping pairs are written.
* `ScanWritesOnce`: no step writes a pair again.
* `ScanImplementsJoin`: a step maps to `Pass` of `JoinContract`, the bag of the pairs written being the
  one the contract names for the events passed.
* `MeasuresScanExact` and `MeasuresScanOnce`, the two properties as the run `measures` states them. A
  step of a measurement that runs `forward_scan` is a step of `ForwardScan`, and the others do not
  touch it, so the invariant carries over.
* `MeasuresExactSoFar`, `MeasuresWindowsOnly` and `MeasuresStabsAhead`: the query, for all forests
  that appends build (`ForestAssumption`), whose contents `ForestFits` takes from `StabForestProofs`.
  `ExactSoFar` holds between two windows only and says nothing of the helper's memory, so the
  invariant (`QueryInv`) has three parts. Over windows that follow each other, whatever the policy (`FollowInv`): the helper knows
  what is passed (`Knows`), what is passed starts before what is left to ask for
  (`WindowPassed`), and no event is in the output more often than among those passed (`Few`).
  That makes the next stab one that `stab_forward` allows (`WindowAhead`), and so
  `StabAhead` applies to it. Over any windows, with a policy that scans when the value is near (`AnyInv`): the helper knows
  what is passed and stands at the first event of a start, or at one that the scan of the window
  is about to take (`AnyPassed`). A stab at a start that is passed goes along the list, and
  neither moves nor writes (`StabBack`); any other is ahead of all that is passed, and again
  `StabAhead` applies (`AnyStab`). That needs that no operation changes the helper's policy, which `StabAhead`
  states for it. Along the list, over any windows (`ListInv`): what is ahead starts after the windows
  left behind (`Apart`), and all that is passed and was asked for is in the output (`All`). With the other
  policies that half is false: they lose events, as `skip_join_loses` shows of the join.
* `SkipWritesOnlyOverlaps` and `SkipCompletes`: `forward_skip_join`, for all pairs of lists and policies.
  The invariant (`SkipInv`) has three parts beside the lists. Each helper knows what is passed
  (`InPlace`, by `Knows`), so `StabAhead` says where a jump ends and what it writes. Between two
  events of a list with one start the join only is while the current event of the other list
  starts no sooner and overlaps the first of the two (`Together`), so no jump is made from there:
  the order in which the loop takes events keeps what `stab_forward` asks for and the join never
  tests. And of each two events that overlap the pair has been written at most as often as it is
  due, exactly so if nothing can be lost (`Counts`): with `n` times written and `x` pairs of which both
  events are ahead, `n + x` is at most, or is, the number of all. It is stated with the
  numbers of occurrences and not as bags, since a step or jump adds a product of them: what it takes of
  one list (`Takes`) times what is ahead in the other and starts in time (`RowsCount`). What a
  jump may leave out starts with the current event; with distinct starts that is this event alone,
  and it ends too soon. `CountedBags` leads from there to the bags of the contract.
* `MeasuresOnlyOverlaps`, `MeasuresJumps` and `MeasuresKeepPromise`, as the run `measures` states
  them. In the last each step of a measurement maps to `Pass` of `JoinContract`, or to none: a scan, a
  step or jump where nothing can be lost, and all that the contract does not speak of. `Lossless` is no
  weaker than it must be: without it `skip_join_loses` has a counterexample.

`ProgramsProofs`, for data files and command lines of any length and arrays of any size
(`DataSetAssumption`, `ToolsAssumption`, `ExercisesAssumption`): `ProgramsInvHolds`, from which the
others follow. Its two parts are about the programs, whatever the order they are run in, and about `MergeSort`.

* `ProgramsReadNumbers` is about every text a file can hold. `To_unsigned` folds the digits in
  one at a time, and is either what `Value` has computed so far or `Invalid` (`ReadSteps`, `ValueSteps`):
  `TooBig` divides, and is exactly the test that the next value exceeds `UIntMax`.
* `ProgramsAppendInOrder`: the files of `tool_split` are two halves of what it read, or of nothing
  if it failed, of which one is in order (`SplitOf`), also when the data file is another by now; and reading what was written gives back the events, which needs that
  `Decimal` writes a number as digits that stand for it and that the files have whole
  pairs. What a program reads and does not sort is that one; what it sorts is in order since
  `Sorted` has a value that is a shuffle in order (`SortedSorts`: the event with `k - 1` others before it,
  counting ties by place, goes to place `k`).
* `ProgramsJoinWhatTheyMeasure`: bags are compared through shuffling, halving, writing and reading
  (`PartsCount`, `BagWithin`), so no event is in both parts more often than in what the last `tool_split` read (`split`). The lists of `measure_jump`
  ascend, and what is in the list not being filled ends before the current block
  (`GapLists`).
* `ProgramsReportExtremes`: the extremes so far are those of the events considered, or still the
  initial values (`FoundAmong`).
* `ProgramsSort`: the recursion of `MergeSort` is the list of the calls of `Merge` it makes, each behind the
  two that sort its halves, and what lies between them is apart from it (`CallsOf`). The
  invariant (`Sorting`) says that the ranges of the calls done ascend, save those that the merge under way
  overwrites; for that one (`TwoSides`), that what is merged so far ascends and is at most what
  either copy has left, and that the array outside the gap together with what is left of the
  copies has the elements of the input, each as often. `InsertTakes` is the step: whatever
  the two comparisons read behind a copy used up, the branch taken moves an element of the other one,
  and the smaller of the two while neither is.

Induction. The library's induction theorems take an operator as a parameter, which no installed
prover can instantiate. Its theorem on smallest elements (`WFMin`) takes a set, and gives
`NatMin` and `NatAll` (a set of naturals that has 0 and with each number the next is `Nat`); each
inductive argument applies one of them to the set of the numbers it holds of. A recursive
function is the CHOOSE of a solution of its equation, so each one the proofs unfold comes
with the lemma that a solution exists, built level by level (`LeavesExist`, `LoopExists`, `CutLoopExists`, `MergesExist`,
`PathsExist`, `EndsExist`, `ThreeExist`, `FlatExist`).

Out of the prover's reach, so only model-checked: liveness under fairness and `ENABLED`
(`SearchReturns`, `AnswersOrdinary`, `Ends`, `AllEnd`), and `RECURSIVE` operators, which the
modules avoid. No library theorem says what `FlattenSeq` and `SelectInSubSeq` return; what the proofs
need of that is proved from their definitions (`FlatSteps`, `StartsCut`, `CutParts`). Every other property
that a passing run checks is stated by a theorem.

## 5. What is not modelled

* The `__DEBUG` build, comparators other than `std::less` and element types other than `int`.
* 2^31 and more values (`int` counters in `PMerge`), allocation failure.
* `raw_array`, an owner of a heap array, is a sequence. A `vector_event_list` is one too, with
  positions for stable pointers; a `block_event_list` is a `block_list`.
* The move constructor of the helper, which initialises `output` with itself
  (`stab_forest.hpp:744`) and which guaranteed elision keeps from being called.
* A helper used after an append, and the index policy at `end()`: both are undefined and no
  program does either.
* Of the measurement programs: the repetition of a measurement (`runs`), clocks and memory
  figures, the vector and multisets that `measure_insert` fills for comparison, and the
  overflow of the counters of `measure_jump`, which its constants stay below. That the user
  gives `measure_window` files in order is a guard of its start, since the program does not
  sort.
* The two Java scripts, which convert text files column by column; `main` of `MergeJoin`,
  which calls `PMergeSort` once.
* `practise/doublelinkedlist.h`: it names a type `T` that is declared nowhere (line 74), so there is
  no program to model.
* Boost. The vendored headers under `MergeJoin/boost` are 15 500 of the repository's files and
  more than 99.8 % of its lines, no source of the repository includes them, and a share of
  lines taken over the whole tree says nothing about the rest. Of the 24 source files of its
  own (about 4000 lines, licences and comments included) the definitions of the models stand
  for two fifths, and what is left out is listed here.

## 6. Plan

Done in this order: the median search and its proof; the parallel merge and its contract; the
sort; events and forest; the helper; the joins and their contract with the proof for
`forward_scan`; the query; the block lists; the composition of the measurements; the
programs and exercises; the proofs on the merge and its contract, the sort, the block
lists, the shape of the forest, its lists and its search, the helper, the query, the
skipping join, the programs and the exercises. Every part of the repository's own code that keeps state has
a module, and every property of a passing run but the four of liveness has a theorem.
