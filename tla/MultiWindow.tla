------------------------------- MODULE MultiWindow ------------------------------
(***************************************************************************)
(* The multi-window query (measure_join.hpp:71-94): one stab_forward       *)
(* helper taken through a list of windows, a stab at the start of each and *)
(* then a scan to its end.                                                 *)
(***************************************************************************)
EXTENDS ForestLists

VARIABLES policy,     \* the jump policy it is made with
          it,         \* the helper
          wit,        \* the window under way; Len(windows) + 1 at the end
          scanning,   \* FALSE until the window is stabbed
          output

queryVars == <<left, right, policy, it, wit, scanning, output>>

\* The forest is that of the first data set, the windows are the second, in order too.
events == left
windows == right

QueryInit ==
  /\ left \in Lists /\ right \in Lists
  /\ policy \in Policies
  /\ it = NewHelper(ForestTable[events], policy)
  /\ wit = 1 /\ scanning = FALSE
  /\ output = <<>>

NoneLeft == it.it > Len(events)
Window == windows[wit]

\* The index policy reads the current event, and the query does not check that there is one.
Stab ==
  /\ wit <= Len(windows) /\ ~scanning
  /\ NoneLeft => it.policy # "index"
  /\ it' = StabForwardOp(ForestTable[events], it, Window.start)
  /\ output' = output \o it'.out
  /\ scanning' = TRUE
  /\ UNCHANGED <<left, right, policy, wit>>

\* Mutant: a window without its last moment.
BeforeEnd == ~NoneLeft /\ events[it.it].start < Window.end
InWindow == ~NoneLeft /\ events[it.it].start <= Window.end

Scan ==
  /\ scanning /\ InWindow
  /\ output' = Append(output, events[it.it])
  /\ it' = [it EXCEPT !.it = @ + 1]
  /\ UNCHANGED <<left, right, policy, wit, scanning>>

\* Mutant: on to the next window after one event.
NextWindowEarly ==
  /\ scanning
  /\ wit' = wit + 1
  /\ scanning' = FALSE
  /\ UNCHANGED <<left, right, policy, it, output>>

NextWindow ==
  /\ scanning /\ ~InWindow
  /\ wit' = wit + 1
  /\ scanning' = FALSE
  /\ UNCHANGED <<left, right, policy, it, output>>

QueryNext == Stab \/ Scan \/ NextWindow
QuerySpec == QueryInit /\ [][QueryNext]_queryVars

---------------------------------------------------------------------------------
\* The events of the windows up to the n-th, each as often as the list has it.
InSome(e, n) == \E k \in DOMAIN windows : k <= n /\ Overlaps(e, windows[k])
Answer(n) == Selected(events, LAMBDA e : InSome(e, n))

\* Windows in order that do not overlap.
Follow(w) == \A i, j \in DOMAIN w : i < j => w[i].end < w[j].start

\* With the list policy, between two windows the output is what the windows so far ask
\* for: an event that spans several of them is written once, and none is lost between the
\* stab and the scan (measure_join.hpp:83-90).
AnswersSoFar ==
  policy = "list" /\ ~scanning =>
    \A e \in Event : Occurrences(output, e) = Occurrences(Answer(wit - 1), e)

\* No event is written twice, and none outside the windows, in the middle of a window too:
\* with the index policy over windows that follow each other, and over any others, which
\* ask to go back to a start that the scan has passed, if such a stab never gets to the
\* index (measure_join.hpp:84, stab_forest.hpp:872).
WindowsOnly ==
  Follow(windows) \/ policy # "index" =>
    \A e \in Event :
      Occurrences(output, e) <= IF InSome(e, wit) THEN Occurrences(events, e) ELSE 0

\* The stabs that must be ahead: those that may go to the index.
MustBeAhead ==
  \/ Follow(windows)
  \/ policy = "check" /\ ~NearEnough(ForestTable[events], it, Window.start)

\* A stab behind all events passed, from the first event of its start.
StabAllowed ==
  Stab /\ it.it > 1 /\ MustBeAhead =>
    /\ events[it.it - 1].start < Window.start
    /\ ~NoneLeft => events[it.it - 1].start # events[it.it].start
=================================================================================
