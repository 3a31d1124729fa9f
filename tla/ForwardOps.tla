------------------------------- MODULE ForwardOps -------------------------------
(***************************************************************************)
(* The stab_forward helper (stab_forest.hpp:717-1066) as a value over a    *)
(* forest f, and stab_forward under the three jump policies.  it is the    *)
(* position in the event list; out collects what the call under way writes *)
(* to the output iterator.                                                 *)
(***************************************************************************)
EXTENDS ForestOps

CONSTANTS Policies,   \* the jump policies that helpers are made with
          Factor      \* c, the argument of stab_forward_check

ASSUME PolicyAssumption ==
  Policies \subseteq {"index", "list", "check"} /\ Factor \in Nat \ {0}

IndexHeight(f) == IF f.index = <<>> THEN 0 ELSE Head(f.index).height
Threshold(f) == Factor * Max({1, IndexHeight(f)})

\* The optional start_at_after argument of the callbacks, when it is not passed.
Absent == -1

\* visited and startAt have a place for each height up to the first forest-point's.
NewHelper(f, policy) ==
  LET heights == IF f.index = <<>> THEN {} ELSE 0..IndexHeight(f)
  IN [policy |-> policy, it |-> 1, out |-> <<>>, wentLeft |-> FALSE, firstLeft |-> Null,
      visited |-> [h \in heights |-> Null], startAt |-> [h \in heights |-> 0]]

Emit(h, s) == [h EXCEPT !.out = @ \o s]
CurrentStart(f, h) == f.events[h.it].start

---------------------------------------------------------------------------------
(* The callbacks. *)

\* The first such node.
FirstLeft(h, p) == IF h.wentLeft THEN h.firstLeft ELSE p

\* The place in n's left-list that earlier stabs reached.
SavedStart(h, n, p) == IF h.visited[n.height] = p THEN h.startAt[n.height] ELSE 1

LeftChild(f, h, p, v, since) ==
  LET n     == Node(f, p)
      found == CopyStartAsc(n.nsa, SavedStart(h, n, p), v, since)
  IN Emit([h EXCEPT !.wentLeft = TRUE,
                    !.firstLeft = FirstLeft(h, p),
                    !.visited[n.height] = p,
                    !.startAt[n.height] = found.next],
          found.out)

\* Whether the lists of a node passed on the right are searched: only for events not yet
\* passed.  A list of the data key starts at dkey; what a left-list of the navigation key
\* may still hold starts before nkey - 1.
DataListAhead(n, since) == since <= n.dkey
\* NavListBeyond is a mutant, one key further off.
NavListBeyond(n, since) == since = Absent \/ (n.nkey # 0 /\ since < n.nkey - 2)
NavListAhead(n, since) == since = Absent \/ (n.nkey # 0 /\ since < n.nkey - 1)

RightChild(f, h, p, v, since) ==
  LET n == Node(f, p)
  IN Emit([h EXCEPT !.visited[n.height] = p],
          (IF DataListAhead(n, since) THEN CopyEndDec(n.ded, v, since) ELSE <<>>)
            \o (IF NavListAhead(n, since) THEN CopyEndDec(n.ned, v, since) ELSE <<>>))

SelectNode(f, h, p, v, since) ==
  LET n == Node(f, p)
  IN Emit([h EXCEPT !.visited[n.height] = p, !.it = SelectNext(n, v)],
          (IF v = n.dkey THEN CopyEndDec(n.ded, v, since) ELSE <<>>)
            \o (IF NavListAhead(n, since) THEN CopyEndDec(n.ned, v, since) ELSE <<>>))

Visit(f, h, p, v, since) ==
  CASE Selects(Node(f, p), v)  -> SelectNode(f, h, p, v, since)
    [] v < Node(f, p).nkey     -> LeftChild(f, h, p, v, since)
    [] OTHER                   -> RightChild(f, h, p, v, since)

Navigate(f, h, p, v, since) ==
  LET path == Path(f, p, v)
      after[n \in 0..Len(path)] ==
        IF n = 0 THEN h ELSE Visit(f, after[n - 1], path[n], v, since)
  IN after[Len(path)]

\* The forest-points from p on, along right_ptr.
RightChain(f, p) ==
  LET from[q \in Pointers(f) \cup {Null}] ==
        IF q = Null THEN <<>> ELSE <<q>> \o from[Node(f, q).right]
  IN from[p]

\* The pointer that stops later stabs from traversing the whole index again.
BackPoint(f) == Point(Len(f.index))

\* right_child of each forest-point from first on.
PassTrees(f, h, first, v, since) ==
  LET chain == RightChain(f, first)
      after[n \in 0..Len(chain)] ==
        IF n = 0 THEN h ELSE RightChild(f, after[n - 1], chain[n], v, since)
  IN after[Len(chain)]

AfterTrees(f, h, v, since) ==
  LET first   == IF h.firstLeft = Null THEN Point(1) ELSE h.firstLeft
      trees   == IF f.index = <<>> THEN h
                 ELSE [PassTrees(f, h, first, v, since) EXCEPT !.firstLeft = BackPoint(f)]
      inTail  == SearchTail(f, v, since)
  IN Emit([trees EXCEPT !.it = inTail.next], inTail.out)

BeforeAllTrees(f, h, v, since) ==
  LET found == CopyStartAsc(f.events, h.it, v, since)
  IN Emit([h EXCEPT !.it = found.next], found.out)

---------------------------------------------------------------------------------
(* stab_forward. *)

\* Mutant: every stab looks everywhere.
FromAnywhere(f, h) == Absent

\* The start that a stab looks from; the very first stab of all looks everywhere.
StartAtAfter(f, h) == IF h.firstLeft = Null /\ h.it = 1 THEN Absent ELSE CurrentStart(f, h)

IndexStabForward(f, h0, v) ==
  LET h     == [h0 EXCEPT !.wentLeft = FALSE]
      since == StartAtAfter(f, h)
  IN CASE h.firstLeft = Null /\ BeforeTrees(f, v) -> BeforeAllTrees(f, h, v, since)
       [] h.firstLeft = Null /\ InTrees(f, v)     -> Navigate(f, h, Point(1), v, since)
       [] h.firstLeft # Null /\ v <= Last(f.index).dkey
                                                  -> Navigate(f, h, h.firstLeft, v, since)
       [] OTHER                                   -> AfterTrees(f, h, v, since)

ListStabForward(f, h, v) ==
  LET next == Skip(f.events, h.it, LAMBDA e : e.start <= v)
  IN Emit([h EXCEPT !.it = next],
          Selected(SubSeq(f.events, h.it, next - 1), LAMBDA e : v <= e.end))

\* stab_forward_check scans when the value is at most threshold events ahead.
NearEnough(f, h, v) ==
  \/ Len(f.events) + 1 - h.it <= Threshold(f)
  \/ v <= f.events[h.it + Threshold(f)].start

StabForwardOp(f, h0, v) ==
  LET h == [h0 EXCEPT !.out = <<>>]
  IN IF h.policy = "list" \/ (h.policy = "check" /\ NearEnough(f, h, v))
     THEN ListStabForward(f, h, v)
     ELSE IndexStabForward(f, h, v)
=================================================================================
