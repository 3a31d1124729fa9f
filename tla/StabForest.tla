------------------------------- MODULE StabForest -------------------------------
(***************************************************************************)
(* The stab forest under appends (class stab_forest).  One process owns    *)
(* it; append_event is its only operation that changes state, and a search *)
(* may follow every append, so what searches answer is stated of every     *)
(* state.                                                                  *)
(***************************************************************************)
EXTENDS ForestOps

CONSTANT MaxEvents   \* bounds the event list

VARIABLE forest

Init == forest = EmptyForest

\* The caller appends in (start, end) order.
Append_event(e) ==
  /\ Len(forest.events) < MaxEvents
  /\ forest.events # <<>> => AtOrBefore(Last(forest.events), e)
  /\ forest' = AppendEvent(forest, e)

Next == \E e \in Event : Append_event(e)
Spec == Init /\ [][Next]_forest

---------------------------------------------------------------------------------
Nodes == ToSet(forest.nodes)
Points == ToSet(forest.index)

\* The stab-tree nodes in some tree: a forest-point or another node points to them.
Placed == {i \in 1..Len(forest.nodes) : \E n \in Nodes \cup Points : Tree(i) \in {n.left, n.right}}

\* Every node has an interval of starts, positions in the event list, and children that
\* exist (a pointer to a forest-point popped by merge_forest_points would not).
NodeOK(n) ==
  /\ n.nkey \in Timestamp /\ n.dkey \in Timestamp /\ n.nkey <= n.dkey
  /\ {n.left, n.right} \subseteq Pointers(forest) \cup {Null}
  /\ n.height \in Nat
  /\ n.dataBegin < n.dataEnd /\ {n.dataBegin, n.dataEnd} \subseteq 1..(Len(forest.events) + 1)
  /\ {n.nsa, n.ded, n.ned} \subseteq Seq(Event)
TypeOK ==
  /\ forest.events \in Seq(Event) /\ Ordered(forest.events)
  /\ forest.tail \in 1..(Len(forest.events) + 1)
  /\ \A n \in Nodes \cup Points : NodeOK(n)
  /\ \A p \in Points : p.replacement \in 1..Len(forest.nodes)

\* stab_search(v) copies every event active at v, as often as it was appended, and no
\* other, and returns the position of the first event that starts after v: whatever the
\* trees, the left-lists and the tail hold between them.
StabSearchExact ==
  \A v \in Timestamp :
    LET found == StabSearch(forest, v)
    IN /\ \A e \in Event :
            Occurrences(found.out, e) = IF ActiveAt(e, v) THEN Occurrences(forest.events, e) ELSE 0
       /\ found.next = Skip(forest.events, 1, LAMBDA e : e.start <= v)

\* The left-lists share out the indexed events: each is in the left-list of one node or in
\* the max-list of one forest-point, and a navigation key's list has the same events in
\* both of its orders.
EachEventOnce ==
  LET all == forest.nodes \o forest.index
      Lists(field) == FlattenSeq([i \in DOMAIN all |-> all[i][field]])
  IN \A e \in Event :
       /\ Occurrences(Lists("ded") \o Lists("ned"), e)
            = Occurrences(SubSeq(forest.events, 1, forest.tail - 1), e)
       /\ \A n \in Nodes \cup Points : Occurrences(n.nsa, e) = Occurrences(n.ned, e)

\* The orders every search relies on when it stops early, and what each list holds: the
\* data key's list events that start at dkey, the navigation key's earlier ones that are
\* active at nkey.
ListsOrdered ==
  \A n \in Nodes \cup Points :
    /\ Ordered(n.nsa) /\ EndsDescend(n.ded) /\ EndsDescend(n.ned)
    /\ \A e \in ToSet(n.ded) : e.start = n.dkey
    /\ \A e \in ToSet(n.ned) : e.start < n.nkey /\ n.nkey <= e.end

\* How many nodes a forest-point of each height stands over: 2 ^ height.
Leaves[h \in Nat] == IF h = 0 THEN 1 ELSE 2 * Leaves[h - 1]

\* The forest is a binary counter of its leaves: forest-points from high to low, no two of
\* one height, one of height h over 2^h nodes, the last of which it replaces, each linked
\* to the next.
BinaryCounter ==
  LET points == forest.index
      n == Len(points)
      Under(i) == IF i = 0 THEN 0 ELSE points[i].replacement
  IN /\ \A i \in 1..n : Under(i) = Under(i - 1) + Leaves[points[i].height]
     /\ Under(n) = Len(forest.nodes)
     /\ \A i \in 1..(n - 1) :
          points[i].height > points[i + 1].height /\ points[i].right = Point(i + 1)
     /\ n > 0 => points[n].right = Null

\* A search for any indexed value ends at the one node whose interval has it, and never
\* meets two nodes of one height, which is what visited_nodes[height] takes for granted.
PathsDescend ==
  \A v \in Timestamp : InTrees(forest, v) =>
    LET path == Path(forest, Point(1), v)
    IN /\ Selects(Node(forest, Last(path)), v)
       /\ \A i, j \in DOMAIN path :
            i < j => Node(forest, path[i]).height > Node(forest, path[j]).height

\* A node that a tree holds is never written again, so whatever points below a
\* forest-point stays good under later appends: the point's replacement_node, which will be
\* written, is in no tree yet.
PlacedNodesStay == [][\A i \in Placed : forest'.nodes[i] = forest.nodes[i]]_forest
=================================================================================
