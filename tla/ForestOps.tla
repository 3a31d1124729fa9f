------------------------------- MODULE ForestOps --------------------------------
(***************************************************************************)
(* The stab forest (stab_forest.hpp) as a value, and its operations as     *)
(* operators on it.  A pointer to a node names a list and a position in    *)
(* it: Tree(i) is the stab-tree node nodes[i], Point(i) the forest-point   *)
(* index[i].  A forest-point is a node with one more field, replacement,   *)
(* the position of the stab-tree node that will take its place.            *)
(***************************************************************************)
EXTENDS Events

Null == [list |-> "none", at |-> 0]
Tree(i) == [list |-> "nodes", at |-> i]
Point(i) == [list |-> "index", at |-> i]

\* minKey starts as numeric_limits::max(), above every timestamp.
EmptyForest == [events |-> <<>>, nodes |-> <<>>, index |-> <<>>,
                tail |-> 1, minKey |-> MaxTime + 1]

Pointers(f) == {Tree(i) : i \in 1..Len(f.nodes)} \cup {Point(i) : i \in 1..Len(f.index)}
Node(f, p) == IF p.list = "nodes" THEN f.nodes[p.at] ELSE f.index[p.at]

\* The events that no node has yet: the event-list tail.
EventTail(f) == SubSeq(f.events, f.tail, Len(f.events))

---------------------------------------------------------------------------------
(* Appending.  The parts of ll_raw_data are sequences of their own: nsa is *)
(* the left-list of the navigation key in ascending start order, ded that  *)
(* of the data key in descending end order, ned that of the navigation key *)
(* in descending end order.                                                *)

\* The forest-point of a node.
AsPoint(node, replacement) ==
  [nkey |-> node.nkey, dkey |-> node.dkey, left |-> node.left, right |-> node.right,
   height |-> node.height, dataBegin |-> node.dataBegin, dataEnd |-> node.dataEnd,
   nsa |-> node.nsa, ded |-> node.ded, ned |-> node.ned, replacement |-> replacement]

BuildLeaf(f) ==
  LET key  == f.events[f.tail].start
      leaf == [nkey |-> IF f.index = <<>> THEN key ELSE Last(f.index).dkey + 1,
               dkey |-> key, left |-> Null, right |-> Null, height |-> 0,
               dataBegin |-> f.tail, dataEnd |-> Len(f.events) + 1,
               nsa |-> <<>>, ded |-> <<>>, ned |-> <<>>]
  IN [f EXCEPT !.nodes = Append(@, leaf),
               !.index = Append(@, AsPoint([leaf EXCEPT !.ded = Reverse(EventTail(f))],
                                           Len(f.nodes) + 1)),
               !.tail  = Len(f.events) + 1]

\* merge_forest_points makes of the last two forest-points, of equal height, one.  key is
\* the navigation key of the node right stands for.  The node left stands for becomes the
\* root of the new tree; of left's max-list it gets the events that end before key.
EndsBefore(key, e) == e.end < key

MergedRoot(node, left, right, key) ==
  [node EXCEPT
     !.left = left.left, !.right = right.left, !.height = left.height,
     !.nsa = Selected(left.nsa, LAMBDA e : EndsBefore(key, e)),
     !.ded = SubSeq(left.ded, UpperBoundEnd(left.ded, key), Len(left.ded)),
     !.ned = SubSeq(left.ned, UpperBoundEnd(left.ned, key), Len(left.ned))]

\* The max-list of the new forest-point: what left's still has at key, then right's.
MergedMaxList(node, left, right, key) ==
  LET dll == SubSeq(left.ded, 1, UpperBoundEnd(left.ded, key) - 1)
      nll == SubSeq(left.ned, 1, UpperBoundEnd(left.ned, key) - 1)
  IN [node EXCEPT
        !.nsa = Selected(left.nsa, LAMBDA e : ~EndsBefore(key, e)) \o Reverse(dll) \o right.nsa,
        !.ded = right.ded,
        !.ned = MergeThreeWay(nll, dll, right.ned)]

\* Mutants: the right child that left had; its height; its place in the trees.
KeepsOldRight(node, left, right, key) ==
  AsPoint([MergedMaxList(node, left, right, key) EXCEPT
             !.left = Tree(left.replacement), !.right = left.right, !.height = left.height + 1],
          right.replacement)
KeepsHeight(node, left, right, key) ==
  AsPoint([MergedMaxList(node, left, right, key) EXCEPT
             !.left = Tree(left.replacement), !.right = Null, !.height = left.height],
          right.replacement)
StandsForLeft(node, left, right, key) ==
  AsPoint([MergedMaxList(node, left, right, key) EXCEPT
             !.left = Tree(left.replacement), !.right = Null, !.height = left.height + 1],
          left.replacement)

\* left and right become one forest-point one level up, to which right_ptr is added later.
MergedPoint(node, left, right, key) ==
  AsPoint([MergedMaxList(node, left, right, key) EXCEPT
             !.left = Tree(left.replacement), !.right = Null, !.height = left.height + 1],
          right.replacement)

MergeForestPoints(f) ==
  LET n      == Len(f.index)
      left   == f.index[n - 1]
      right  == f.index[n]
      fpNode == f.nodes[right.replacement]
  IN [f EXCEPT
        !.nodes[left.replacement] = MergedRoot(@, left, right, fpNode.nkey),
        !.index = Append(SubSeq(@, 1, n - 2), MergedPoint(fpNode, left, right, fpNode.nkey))]

\* Mutant: two forest-points alone are not merged.
PairLevel(f) == LET n == Len(f.index)
                IN n >= 3 /\ f.index[n - 1].height = f.index[n].height

\* Whether the last two forest-points have one height and must be merged.
LastTwoLevel(f) == LET n == Len(f.index)
                   IN n >= 2 /\ f.index[n - 1].height = f.index[n].height
MergeLastTwo(f) == IF LastTwoLevel(f) THEN MergeForestPoints(f) ELSE f

Relink(f) == LET n == Len(f.index)
             IN IF n < 2 THEN f ELSE [f EXCEPT !.index[n - 1].right = Point(n)]

\* The loop of maintain_index runs at most once per forest-point; once the last two
\* differ in height they stay as they are.
Merges(f) ==
  LET after[n \in 0..Len(f.index)] == IF n = 0 THEN f ELSE MergeLastTwo(after[n - 1])
  IN after
MaintainIndex(f) == Relink(Merges(f)[Len(f.index)])

AppendEvent(f, e) ==
  IF f.events = <<>>
  THEN [f EXCEPT !.events = <<e>>, !.minKey = e.start]
  ELSE LET g == IF e.start # Last(f.events).start THEN MaintainIndex(BuildLeaf(f)) ELSE f
       IN [g EXCEPT !.events = Append(@, e)]

ForestOf(events) ==
  LET after[n \in 0..Len(events)] ==
        IF n = 0 THEN EmptyForest ELSE AppendEvent(after[n - 1], events[n])
  IN after[Len(events)]

---------------------------------------------------------------------------------
(* Searching. *)

Selects(n, v) == n.nkey <= v /\ v <= n.dkey

\* navigate_stab_tree_node: the pointers followed from each one, the selected node last.
Child(n, v) == IF v < n.nkey THEN n.left ELSE n.right
Paths(f, v) ==
  LET from[p \in Pointers(f) \cup {Null}] ==
        IF p = Null THEN <<>>
        ELSE IF Selects(Node(f, p), v) THEN <<p>>
        ELSE <<p>> \o from[Child(Node(f, p), v)]
  IN from
Path(f, p, v) == Paths(f, v)[p]

\* Where navigate_index sends a value.
BeforeTrees(f, v) == v <= f.minKey
InTrees(f, v) == ~BeforeTrees(f, v) /\ f.index # <<>> /\ v <= Last(f.index).dkey

\* The tail's events start after v, so none is active at v.
TailAfter(f, v) == f.events # <<>> /\ v < Last(f.events).start
SearchTail(f, v, since) ==
  IF TailAfter(f, v) THEN [out |-> <<>>, next |-> f.tail]
  ELSE [out |-> CopyEndDec(Reverse(EventTail(f)), v, since), next |-> Len(f.events) + 1]

\* The position behind a search that ends at n; the mutant takes dkey for a start after v.
SelectBegin(n, v) == IF v <= n.dkey THEN n.dataBegin ELSE n.dataEnd
SelectNext(n, v) == IF v < n.dkey THEN n.dataBegin ELSE n.dataEnd

\* stab_search, with the callbacks of stab_operations: what it copies, and the position
\* it returns.
StabSearch(f, v) ==
  LET LeftChild(n)  == CopyStartAsc(n.nsa, 1, v, 0).out
      RightChild(n) == CopyEndDec(n.ded, v, 0) \o CopyEndDec(n.ned, v, 0)
      Select(n)     == (IF v = n.dkey THEN CopyEndDec(n.ded, v, 0) ELSE <<>>)
                         \o CopyEndDec(n.ned, v, 0)
      Visit(n)      == CASE Selects(n, v) -> Select(n)
                         [] v < n.nkey    -> LeftChild(n)
                         [] OTHER         -> RightChild(n)
      inTail        == SearchTail(f, v, 0)
  IN IF BeforeTrees(f, v) THEN CopyStartAsc(f.events, 1, v, 0)
     ELSE IF InTrees(f, v)
     THEN LET path == Path(f, Point(1), v)
          IN [out  |-> FlattenSeq([i \in DOMAIN path |-> Visit(Node(f, path[i]))]),
              next |-> SelectNext(Node(f, Last(path)), v)]
     ELSE [out  |-> FlattenSeq([i \in DOMAIN f.index |-> RightChild(f.index[i])]) \o inTail.out,
           next |-> inTail.next]
=================================================================================
