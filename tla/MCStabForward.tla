------------------------------ MODULE MCStabForward ------------------------------
(* Two families of forests.  Short: every list of up to ShortLen events between the  *)
(* timestamps up to ShortTime, equal starts and repeated events included; helpers    *)
(* are moved over those with one event less.  Steady: one event for each start in    *)
(* turn, of the given durations, up to eight leaves and trees of height three.       *)
EXTENDS StabForward

CONSTANTS ShortTime, ShortLen, Durations

ShortEvents == {e \in [start : 0..ShortTime, end : 0..ShortTime] : e.start <= e.end}
SteadyEvents == {e \in [start : 0..MaxTime, end : 0..MaxTime] : e.end - e.start \in Durations}
AllEvents == ShortEvents \cup SteadyEvents

Short ==
  /\ Len(forest.events) <= (IF helper = NoHelper THEN ShortLen ELSE ShortLen - 1)
  /\ ToSet(forest.events) \subseteq ShortEvents
Steady ==
  /\ ToSet(forest.events) \subseteq SteadyEvents
  /\ \A i \in DOMAIN forest.events : forest.events[i].start = i - 1
ShortOrSteady == Short \/ Steady
==================================================================================
