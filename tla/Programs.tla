-------------------------------- MODULE Programs --------------------------------
(***************************************************************************)
(* The small programs side by side: the tools and measurements of skipjoin *)
(* on their files, or one of the exercises on its array.                   *)
(***************************************************************************)
EXTENDS Tools, Exercises

PInit == (Init /\ NoExercise) \/ (NoSplit({<<>>}) /\ NoProgram /\ EInit)

UseTool == exercise = "none" /\ Next /\ UNCHANGED evars
Practise == exercise # "none" /\ ENext /\ UNCHANGED vars
PNext == UseTool \/ Practise

pvars == <<vars, evars>>
PSpec == PInit /\ [][PNext]_pvars /\ WF_pvars(Work /\ UNCHANGED evars) /\ WF_pvars(Practise)

\* Every program that is started ends, but for the endless loops, and so does every exercise.
AllEnd == ProgramsEnd /\ <>Ended
=================================================================================
