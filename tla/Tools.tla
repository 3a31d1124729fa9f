---------------------------------- MODULE Tools ---------------------------------
(***************************************************************************)
(* The command line programs of skipjoin, run one after another on the     *)
(* same files: tool_split, min_max, and the four measurements up to the    *)
(* joins they time (those are Measures).  Between two programs the user    *)
(* may put another data file in the place of the first.  A stab forest is  *)
(* here the list of the events appended to it.  A program that cannot read *)
(* its files stops at once: a measurement returns 2, the two tools let the *)
(* exception end the process.                                              *)
(***************************************************************************)
EXTENDS DataSet

CONSTANTS DataFiles,    \* the data files there may be
          Replacements, \* the data files that may take their place
          MaxSizes,     \* the argument size of tool_split, Invalid when it is no number
          Increments,   \* the argument step_size of measure_insert
          GapSizes,     \* the gap sizes of measure_jump
          NumEvents,    \* num_events of measure_jump, 2^26 in the code
          Parts,        \* the parts that measure_part_join and measure_window make, 10
          Unassigned       \* what an event may hold before it is assigned

ASSUME ToolsAssumption ==
  /\ Increments \subseteq Nat /\ MaxSizes \subseteq Nat \cup {Invalid} /\ GapSizes \subseteq Nat \ {0}
  /\ NumEvents \in Nat /\ Parts \in Nat \ {0}
  /\ DataFiles \subseteq Seq(Seq(Character)) /\ Replacements \subseteq Seq(Seq(Character))

Events == INSTANCE Events WITH MaxTime <- UIntMax, Event <- {}

VARIABLES
  files,         \* data_file, and the f_file and s_file that tool_split writes
  split,         \* history: the events that the last tool_split read, none if it failed
  program,       \* the program that runs, "none" between two
  arg,           \* its numeric argument
  first, second, \* the data sets it has read
  lhs, rhs,      \* the forests it measures with
  n,             \* its loop counter
  gap,           \* measure_jump: block, base and into_lhs
  found          \* min_max: the durations and events found so far

vars == <<files, split, program, arg, first, second, lhs, rhs, n, gap, found>>

NoGap == [block |-> 0, base |-> 0, intoLhs |-> TRUE]
NoneFound(e1, e2) == [min |-> UIntMax, max |-> 0, minEvent |-> e1, maxEvent |-> e2]
NotSearching == [min |-> 0, max |-> 0, minEvent |-> <<>>, maxEvent |-> <<>>]

\* Between two programs nothing but the files is kept.
NoProgram ==
  /\ program = "none" /\ arg = 0 /\ first = <<>> /\ second = <<>> /\ lhs = <<>> /\ rhs = <<>>
  /\ n = 0 /\ gap = NoGap /\ found = NotSearching

NoSplit(datas) == files \in [data : datas, f : {<<>>}, s : {<<>>}] /\ split = <<>>

Init == NoSplit(DataFiles) /\ NoProgram

Read(file) == Read_events(files[file])

\* The events of s in any order (std::shuffle), and in the one of std::sort.
Shuffles(s) == {[i \in DOMAIN s |-> s[p[i]]] : p \in Bijection(DOMAIN s, DOMAIN s)}
Sorted(s) == CHOOSE t \in Shuffles(s) : Events!Ordered(t)

Exit ==
  /\ program' = "none" /\ arg' = 0 /\ first' = <<>> /\ second' = <<>> /\ lhs' = <<>>
  /\ rhs' = <<>> /\ n' = 0 /\ gap' = NoGap /\ found' = NotSearching
  /\ UNCHANGED <<files, split>>

Replace_data(data) ==
  /\ program = "none"
  /\ files' = [files EXCEPT !.data = data]
  /\ UNCHANGED <<split, program, arg, first, second, lhs, rhs, n, gap, found>>

---------------------------------------------------------------------------------
(* tool_split.  The output files are opened, and so emptied, before the    *)
(* argument is converted and the input is read.                            *)

\* Mutant: the second file is opened when it is written to.
FirstEmptied == [files EXCEPT !.f = <<>>]
Emptied == [files EXCEPT !.f = <<>>, !.s = <<>>]

\* Mutant: the half that is sorted is the second.
SecondSorted(s, size) ==
  [f |-> SubSeq(s, 1, size \div 2), s |-> Sorted(SubSeq(s, size \div 2 + 1, size))]
Halves(s, size) ==
  [f |-> Sorted(SubSeq(s, 1, size \div 2)), s |-> SubSeq(s, size \div 2 + 1, size)]

Tool_split(maxSize) ==
  /\ program = "none"
  /\ IF maxSize = Invalid \/ Read("data").failed
     THEN files' = Emptied /\ split' = <<>>
     ELSE /\ \E shuffled \in Shuffles(Read("data").events) :
               LET halves == Halves(shuffled, Min({Len(shuffled), maxSize}))
               IN files' = [files EXCEPT !.f = Written(halves.f), !.s = Written(halves.s)]
          /\ split' = Read("data").events
  /\ UNCHANGED <<program, arg, first, second, lhs, rhs, n, gap, found>>

---------------------------------------------------------------------------------
(* measure_insert: forests of the first step_size, 2 * step_size, ...      *)
(* events, and of all of them if those do not end there.                   *)

Start_measure_insert(increment) ==
  /\ program = "none" /\ ~Read("data").failed
  /\ program' = "measure_insert" /\ arg' = increment /\ n' = increment
  /\ first' = Sorted(Read("data").events)
  /\ UNCHANGED <<files, split, second, lhs, rhs, gap, found>>

Measure_insert ==
  /\ program = "measure_insert" /\ n < Len(first)
  /\ lhs' = SubSeq(first, 1, n)
  /\ n' = n + arg
  /\ UNCHANGED <<files, split, program, arg, first, second, rhs, gap, found>>

\* With increment zero the remainder ends the process.
Measure_insert_last ==
  /\ program = "measure_insert" /\ n >= Len(first)
  /\ IF arg = 0 \/ Len(first) % arg = 0 \/ lhs = first
     THEN Exit
     ELSE lhs' = first /\ UNCHANGED <<files, split, program, arg, first, second, rhs, n, gap, found>>

---------------------------------------------------------------------------------
(* measure_part_join, on the files of tool_split: the first is appended as *)
(* it is, parts of the second are sorted before.                           *)

Start_measure_part_join ==
  /\ program = "none" /\ ~Read("f").failed /\ ~Read("s").failed
  /\ program' = "measure_part_join"
  /\ first' = Read("f").events /\ second' = Read("s").events
  /\ lhs' = Read("f").events
  /\ UNCHANGED <<files, split, arg, rhs, n, gap, found>>

Measure_part_join ==
  /\ program = "measure_part_join" /\ n <= Parts
  /\ rhs' = Sorted(SubSeq(second, 1, (Len(second) * n) \div Parts))
  /\ n' = n + 1
  /\ UNCHANGED <<files, split, program, arg, first, second, lhs, gap, found>>

End_measure_part_join == program = "measure_part_join" /\ n > Parts /\ Exit

---------------------------------------------------------------------------------
(* measure_window: both files must be in order, and the program leaves     *)
(* that to its user.                                                       *)

Start_measure_window(periods) ==
  /\ program = "none" /\ ~Read("data").failed /\ ~Read(periods).failed
  /\ Events!Ordered(Read("data").events) /\ Events!Ordered(Read(periods).events)
  /\ program' = "measure_window"
  /\ first' = Read("data").events /\ second' = Read(periods).events
  /\ lhs' = Read("data").events
  /\ UNCHANGED <<files, split, arg, rhs, n, gap, found>>

\* Mutant: one part more.
StepOfMore == Len(second) \div (Parts + 1)
WindowStep == Len(second) \div Parts

Measure_window ==
  /\ program = "measure_window" /\ n <= Len(second)
  /\ rhs' = SubSeq(second, 1, n)
  /\ n' = n + WindowStep
  /\ UNCHANGED <<files, split, program, arg, first, second, lhs, gap, found>>

End_measure_window == program = "measure_window" /\ n > Len(second) /\ Exit

---------------------------------------------------------------------------------
(* measure_jump: gap_size events into one list, then gap_size into the     *)
(* other, all of a block ending where the gap begins.  The counters of the *)
(* code do not overflow with its num_events.                               *)

Start_measure_jump(gapSize) ==
  /\ program = "none"
  /\ program' = "measure_jump" /\ arg' = gapSize
  /\ UNCHANGED <<files, split, first, second, lhs, rhs, n, gap, found>>

NextBlock == [block |-> 0, base |-> gap.base + arg + 1, intoLhs |-> ~gap.intoLhs]

Generate ==
  /\ program = "measure_jump" /\ n < NumEvents
  /\ LET g == IF gap.block = arg THEN NextBlock ELSE gap
         e == [start |-> g.base + g.block, end |-> g.base + arg]
     IN /\ lhs' = IF g.intoLhs THEN Append(lhs, e) ELSE lhs
        /\ rhs' = IF g.intoLhs THEN rhs ELSE Append(rhs, e)
        /\ gap' = [g EXCEPT !.block = @ + 1]
  /\ n' = n + 1
  /\ UNCHANGED <<files, split, program, arg, first, second, found>>

End_measure_jump == program = "measure_jump" /\ n = NumEvents /\ Exit

---------------------------------------------------------------------------------
(* min_max.  min_event and max_event are not initialised.                  *)

Start_min_max ==
  /\ program = "none" /\ ~Read("data").failed
  /\ program' = "min_max"
  /\ first' = Read("data").events /\ n' = 1
  /\ \E e1, e2 \in Unassigned : found' = NoneFound(e1, e2)
  /\ UNCHANGED <<files, split, arg, second, lhs, rhs, gap>>

Diff(e) == (e.end - e.start) % (UIntMax + 1)

\* Mutant: else if, so that one event is not both.
ConsideredOnce(f, e) ==
  IF Diff(e) < f.min THEN [f EXCEPT !.min = Diff(e), !.minEvent = e]
  ELSE IF f.max < Diff(e) THEN [f EXCEPT !.max = Diff(e), !.maxEvent = e]
  ELSE f
Considered(f, e) ==
  LET withMin == IF Diff(e) < f.min THEN [f EXCEPT !.min = Diff(e), !.minEvent = e] ELSE f
  IN IF f.max < Diff(e) THEN [withMin EXCEPT !.max = Diff(e), !.maxEvent = e] ELSE withMin

Consider ==
  /\ program = "min_max" /\ n <= Len(first)
  /\ found' = Considered(found, first[n])
  /\ n' = n + 1
  /\ UNCHANGED <<files, split, program, arg, first, second, lhs, rhs, gap>>

End_min_max == program = "min_max" /\ n > Len(first) /\ Exit

---------------------------------------------------------------------------------
Start ==
  \/ \E data \in Replacements : Replace_data(data)
  \/ \E maxSize \in MaxSizes : Tool_split(maxSize)
  \/ \E increment \in Increments : Start_measure_insert(increment)
  \/ Start_measure_part_join
  \/ \E periods \in {"data", "f"} : Start_measure_window(periods)
  \/ \E gapSize \in GapSizes : Start_measure_jump(gapSize)
  \/ Start_min_max

Work ==
  \/ Measure_insert \/ Measure_insert_last
  \/ Measure_part_join \/ End_measure_part_join
  \/ Measure_window \/ End_measure_window
  \/ Generate \/ End_measure_jump
  \/ Consider \/ End_min_max

Next == Start \/ Work

\* A program that runs is not suspended for ever; none must be started.
Spec == Init /\ [][Next]_vars /\ WF_vars(Work)

---------------------------------------------------------------------------------
\* The number a text stands for, or Invalid.
Value(text) ==
  LET upTo[i \in 0..Len(text)] == IF i = 0 THEN 0 ELSE 10 * upTo[i - 1] + text[i]
  IN IF ToSet(text) \subseteq 0..9 /\ upTo[Len(text)] <= UIntMax THEN upTo[Len(text)]
     ELSE Invalid

\* "Throw an invalid_argument if the input is not a positive integer or is to big"
\* (dataset.hpp:36-39): the check lets every number through that fits and none that does
\* not, so none wraps around.
ReadsNumbers ==
  \A name \in DOMAIN files : \A text \in ToSet(files[name]) : To_unsigned(text) = Value(text)

\* "The new event must be at-or-after, in lexicographic (start, end)-time order, the last
\* event appended" (stab_forest.hpp:251-253): no program checks it, and of those that get
\* a file from tool_split or from the user in any order, and sort here and not there, none
\* breaks it.
AppendsInOrder == Events!Ordered(lhs) /\ Events!Ordered(rhs)

\* What measure_part_join reads from the files of tool_split is the split that the last of
\* them made, whatever the data file is by then: two parts, without a common event, of what
\* that tool_split read, of sizes that differ by one at most, and nothing of an earlier split
\* if it failed; and the last join is with the whole second part.
JoinsTheSplit ==
  program = "measure_part_join" =>
    /\ ToBag(first) (+) ToBag(second) \sqsubseteq ToBag(split)
    /\ Len(second) - Len(first) \in {0, 1}
    /\ n > Parts => ToBag(rhs) = ToBag(second)

\* The lists of measure_jump have no pair to find, and no two events of one start, so that
\* all policies find as many.
GapListsApart ==
  program = "measure_jump" =>
    /\ \A i \in DOMAIN lhs, j \in DOMAIN rhs : ~Events!Overlaps(lhs[i], rhs[j])
    /\ \A s \in {lhs, rhs} : \A i, j \in DOMAIN s : i # j => s[i].start # s[j].start

\* What the two programs that measure joins say they join, they do (measure_part_join.cpp,
\* measure_jump.cpp).
JoinsWhatItMeasures == JoinsTheSplit /\ GapListsApart

\* min_max ends with the shortest and the longest event of the data.
Extremes ==
  LET durations == {Diff(e) : e \in ToSet(first)}
  IN /\ found.minEvent \in ToSet(first) /\ Diff(found.minEvent) = Min(durations)
     /\ found.maxEvent \in ToSet(first) /\ Diff(found.maxEvent) = Max(durations)
Searched == program = "min_max" /\ n > Len(first)

\* "min_max.cpp a dataset analysis tool to find the events with minimal and maximal
\* duration" (README.pdf, section 3).
ReportsExtremes == Searched /\ first # <<>> => Extremes

\* It does unless no event has a duration above zero, or none below the largest number.
ReportsExtremesOfSpans ==
  Searched /\ (\E e \in ToSet(first) : Diff(e) > 0) /\ (\E e \in ToSet(first) : Diff(e) < UIntMax)
    => Extremes

\* The loops that make no progress: measure_insert with step size zero, and measure_window
\* with fewer periods than parts.
Endless ==
  \/ program = "measure_insert" /\ arg = 0 /\ first # <<>>
  \/ program = "measure_window" /\ Len(second) < Parts

\* Every program that is started ends, but for these.
ProgramsEnd == program # "none" ~> (program = "none" \/ Endless)
=================================================================================
