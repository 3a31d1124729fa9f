-------------------------------- MODULE BlockList -------------------------------
(***************************************************************************)
(* block_lists (block_list.hpp): chains of blocks of C values, kept when   *)
(* the list shrinks, and an iterator its user holds while it does.  In a   *)
(* list, blocks[b] is the b-th block from first on, so previous and next   *)
(* are b - 1 and b + 1; an iterator is a block of the chain it points into *)
(* (0 for a null data_pointer) and the offset of its pointer current in    *)
(* it, offset C being last.  The event list of a stab forest is such a     *)
(* list, and an iterator its stable pointer: unstabilize_pointer is        *)
(* repoint_iterator (stab_forest.hpp:178-212).                             *)
(***************************************************************************)
EXTENDS Integers, SequencesExt

CONSTANTS C,         \* values in a block
          Value,
          Raw,       \* a cell with no constructed value
          List,
          MaxSize    \* bounds the lists together

ASSUME BlockAssumption == C \in Nat \ {0} /\ MaxSize \in Nat /\ Raw \notin Value

VARIABLES
  lists,   \* of each list: blocks, current, offset (current_offset) and size (data_size)
  it,      \* an iterator some user holds
  home,    \* the list whose chain it points into
  nth,     \* the number of the value it stands for, 0 when none is held
  valued   \* it pointed to a value when it was last taken, moved or repointed

held == <<it, home, nth, valued>>
vars == <<lists, it, home, nth, valued>>

EmptyList == [blocks |-> <<>>, current |-> 0, offset |-> 0, size |-> 0]
NullIt == [block |-> 0, offset |-> 0]

Init ==
  /\ lists = [l \in List |-> EmptyList]
  /\ it = NullIt /\ home \in List /\ nth = 0 /\ valued = FALSE

---------------------------------------------------------------------------------
(* A list. *)

\* Mutant: a block behind the last is made anew instead of taken again.
SlotFresh(s) ==
  IF s.blocks # <<>> /\ s.offset < C
  THEN [block |-> s.current, offset |-> s.offset]
  ELSE [block |-> Len(s.blocks) + 1, offset |-> 0]

\* Where emplace_back constructs: behind the last value, in the next block once the
\* current one is full.
Slot(s) ==
  IF s.blocks # <<>> /\ s.offset < C
  THEN [block |-> s.current, offset |-> s.offset]
  ELSE [block |-> s.current + 1, offset |-> 0]

Grown(s) ==
  IF Slot(s).block > Len(s.blocks) THEN Append(s.blocks, [o \in 0..(C - 1) |-> Raw])
  ELSE s.blocks

Emplaced(s, v) ==
  [blocks  |-> [Grown(s) EXCEPT ![Slot(s).block][Slot(s).offset] = v],
   current |-> Slot(s).block, offset |-> Slot(s).offset + 1, size |-> s.size + 1]

Emplace_back(l, v) ==
  /\ FoldFunction(LAMBDA s, n : s.size + n, 0, lists) < MaxSize
  /\ lists' = [lists EXCEPT ![l] = Emplaced(@, v)]
  /\ UNCHANGED held

\* Mutant: current_offset not set to C on the way to the block before.
BackNotReset(s) ==
  IF s.offset = 0 THEN [block |-> s.current - 1, offset |-> 0]
  ELSE [block |-> s.current, offset |-> s.offset - 1]

\* The last value: in the block before when pop_back has emptied the current one.
BackSlot(s) ==
  IF s.offset = 0 THEN [block |-> s.current - 1, offset |-> C - 1]
  ELSE [block |-> s.current, offset |-> s.offset - 1]

Popped(s) ==
  [blocks  |-> [s.blocks EXCEPT ![BackSlot(s).block][BackSlot(s).offset] = Raw],
   current |-> BackSlot(s).block, offset |-> BackSlot(s).offset, size |-> s.size - 1]

Pop_back(l) ==
  /\ lists[l].size > 0
  /\ lists' = [lists EXCEPT ![l] = Popped(@)]
  /\ UNCHANGED held

---------------------------------------------------------------------------------
(* Two lists.  A move swaps too: with the new, empty list when one is      *)
(* constructed, with the old contents when one is assigned to.             *)

Swap(l, m) ==
  /\ l # m
  /\ lists' = [lists EXCEPT ![l] = lists[m], ![m] = lists[l]]
  /\ home' = CASE home = l -> m [] home = m -> l [] OTHER -> home
  /\ UNCHANGED <<it, nth, valued>>

\* A list's lifetime ends, with all iterators into it, and that of a new one begins.
Destroy(l) ==
  /\ lists' = [lists EXCEPT ![l] = EmptyList]
  /\ IF home = l /\ it # NullIt
     THEN it' = NullIt /\ nth' = 0 /\ valued' = FALSE /\ UNCHANGED home
     ELSE UNCHANGED held

---------------------------------------------------------------------------------
(* Iterators. *)

BeginIt(s) == [block |-> IF s.blocks = <<>> THEN 0 ELSE 1, offset |-> 0]
EndIt(s) == [block |-> s.current, offset |-> s.offset]

\* Mutant: operator++ stays in the block.
IncrementedInBlock(s, i) == [i EXCEPT !.offset = @ + 1]

Incremented(s, i) ==
  IF i.offset + 1 = C /\ i.block < Len(s.blocks)
  THEN [block |-> i.block + 1, offset |-> 0]
  ELSE [i EXCEPT !.offset = @ + 1]

\* Mutant: operator-- stays in the block.
DecrementedInBlock(i) == [i EXCEPT !.offset = @ - 1]

Decremented(i) ==
  IF i.offset = 0 /\ i.block > 1
  THEN [block |-> i.block - 1, offset |-> C - 1]
  ELSE [i EXCEPT !.offset = @ - 1]

\* repoint_iterator: null, at the end of a full block, and anything else.
Repointed(s, i) ==
  IF i.block = 0 THEN BeginIt(s)
  ELSE IF i.offset = C THEN Incremented(s, Decremented(i))
  ELSE i

Hold(l, i, n) ==
  it' = i /\ home' = l /\ nth' = n /\ valued' = (n <= lists[l].size) /\ UNCHANGED lists

Begin(l) == Hold(l, BeginIt(lists[l]), 1)
End(l) == Hold(l, EndIt(lists[l]), lists[l].size + 1)

\* The caller moves an iterator that points to a value, or back to one.
Increment ==
  valued /\ nth <= lists[home].size /\ Hold(home, Incremented(lists[home], it), nth + 1)
Decrement == nth \in 2..(lists[home].size + 1) /\ Hold(home, Decremented(it), nth - 1)

\* Any list can be asked to repoint a null iterator.
Repoint_iterator(l) ==
  /\ nth > 0 /\ (l = home \/ it.block = 0)
  /\ Hold(l, Repointed(lists[l], it), nth)

Next ==
  \/ \E l \in List, v \in Value : Emplace_back(l, v)
  \/ \E l \in List : Pop_back(l) \/ Destroy(l) \/ Begin(l) \/ End(l) \/ Repoint_iterator(l)
  \/ \E l, m \in List : Swap(l, m)
  \/ Increment \/ Decrement

Spec == Init /\ [][Next]_vars

---------------------------------------------------------------------------------
\* The place of the n-th value: all blocks before the last are full.
Place(n) == [block |-> 1 + (n - 1) \div C, offset |-> (n - 1) % C]

Constructed(s) == {p \in [block : 1..Len(s.blocks), offset : 0..(C - 1)] :
                     s.blocks[p.block][p.offset] # Raw}

\* What the destructor destroys: data_size cells from the first on.
Deconstructed(s) == {Place(n) : n \in 1..s.size}

\* Types, and that pop_back, emplace_back and swap leave to deconstruct_all, which counts
\* cells and looks at none, exactly the values there are (block_list.hpp:120-124).
ListOK(s) ==
  /\ s.blocks \in Seq([0..(C - 1) -> Value \cup {Raw}])
  /\ s.current \in 0..Len(s.blocks) /\ s.offset \in 0..C
  /\ s.size \in Nat
  /\ Constructed(s) = Deconstructed(s)
TypeOK ==
  /\ \A l \in List : ListOK(lists[l])
  /\ home \in List /\ nth \in Nat /\ valued \in BOOLEAN
  /\ it \in [block : 0..Len(lists[home].blocks), offset : 0..C]

\* "An iterator pointing to the n-th value in the block-list will, at any point in time,
\* remain pointing to the n-th value (given that such a value exists)"
\* (block_list.hpp:46-48): also when that value went and another came, and, after a swap or
\* a move, in the other list.  "Iterators obtained from end() -- when the list had n
\* elements -- can be remapped to the current n+1-th element (if such an element exists)"
\* (block_list.hpp:50-54), and those obtained from begin(), or run past the last value,
\* likewise; one of a list that never had a value, by every list.
IteratorsStable ==
  /\ nth \in 1..lists[home].size =>
       /\ valued => it = Place(nth)
       /\ Repointed(lists[home], it) = Place(nth)
  /\ nth > 0 /\ it.block = 0 =>
       \A l \in List : nth <= lists[l].size => Repointed(lists[l], it) = Place(nth)

\* The state in which pop_back has left a block behind and emplace_back has filled the one
\* before it again.
RefilledBlock(s) == s.offset = C /\ s.current < Len(s.blocks)

\* Where n steps of ++ from begin() lead, and n steps of -- from end().
After(s) ==
  LET after[n \in 0..s.size] == IF n = 0 THEN BeginIt(s) ELSE Incremented(s, after[n - 1])
  IN after
Before(s) ==
  LET before[n \in 0..s.size] == IF n = 0 THEN EndIt(s) ELSE Decremented(before[n - 1])
  IN before

\* begin() and size() times ++, and end() and size() times --, visit the values in order
\* and meet end() and begin() then and not before, but for ++ in a refilled block.
MeetsEnd(s) == \A n \in 0..s.size : After(s)[n] = EndIt(s) <=> n = s.size
MeetsBegin(s) ==
  \A n \in 0..s.size :
    /\ Before(s)[n] = BeginIt(s) <=> n = s.size
    /\ n > 0 => Before(s)[n] = Place(s.size + 1 - n)
Traversals ==
  \A l \in List : MeetsBegin(lists[l]) /\ (MeetsEnd(lists[l]) \/ RefilledBlock(lists[l]))

ValueAt(s, p) == s.blocks[p.block][p.offset]
Stack == INSTANCE BlockStack
           WITH values <- [l \in List |->
                             [n \in 1..lists[l].size |-> ValueAt(lists[l], Place(n))]]
\* The lists are stacks of their values, blocks taken, left and taken again or not, and a
\* move or a swap exchanges stacks: a list moved from has what the other had.
ImplementsStack == Stack!Spec
=================================================================================
