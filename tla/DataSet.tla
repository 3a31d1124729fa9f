--------------------------------- MODULE DataSet --------------------------------
(***************************************************************************)
(* Data sets as text (dataset.hpp): how the programs read events and how   *)
(* tool_split writes them.  A file is a sequence of texts, white space     *)
(* being what separates them; a text is a sequence of characters, digits   *)
(* or Other.                                                               *)
(***************************************************************************)
EXTENDS Integers, SequencesExt

CONSTANTS UIntMax,   \* std::numeric_limits<UInt>::max()
          Other      \* a character that is not a digit

ASSUME DataSetAssumption == UIntMax \in Nat /\ UIntMax >= 9 /\ Other \notin 0..9

UInt == 0..UIntMax
Character == (0..9) \cup {Other}
Invalid == -1   \* std::invalid_argument is thrown

---------------------------------------------------------------------------------
\* Mutant: the check without the digit that is added.
TooBigToShift(result, digit) == UIntMax \div 10 < result
TooBig(result, digit) == (UIntMax - digit) \div 10 < result

AddDigit(result, c) ==
  IF result = Invalid \/ c \notin 0..9 \/ TooBig(result, c) THEN Invalid
  ELSE (result * 10 + c) % (UIntMax + 1)

To_unsigned(text) == FoldLeft(AddDigit, 0, text)

\* The events of a file, one for each two texts; failed when a number is thrown out.
Read_events(file) ==
  LET numbers == [i \in 1..(2 * (Len(file) \div 2)) |-> To_unsigned(file[i])]
  IN [failed |-> Invalid \in {numbers[i] : i \in DOMAIN numbers},
      events |-> [k \in 1..(Len(file) \div 2) |->
                    [start |-> numbers[2 * k - 1], end |-> numbers[2 * k]]]]

---------------------------------------------------------------------------------
\* operator<< of an unsigned number, and of the events of a list in turn.
Decimal ==
  LET digits[u \in UInt] == IF u < 10 THEN <<u>> ELSE digits[u \div 10] \o <<u % 10>>
  IN digits
Written(events) == FlattenSeq([i \in DOMAIN events |->
                                 <<Decimal[events[i].start], Decimal[events[i].end]>>])
=================================================================================
