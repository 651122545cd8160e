------------------------------ MODULE EventList ------------------------------
(***************************************************************************)
(* What every ns3::Scheduler promises (core/model/scheduler.h): it holds   *)
(* the events inserted and not yet taken out, and RemoveNext takes out and *)
(* returns the earliest.                                                   *)
(***************************************************************************)
EXTENDS Events

CONSTANTS Universe, \* the events there may be
          None      \* what has been returned when nothing has

VARIABLES held,     \* the events in the list
          returned  \* the event RemoveNext returned last

vars == <<held, returned>>

Init == held = {} /\ returned = None

Insert(e) == e \notin held /\ held' = held \cup {e} /\ UNCHANGED returned

RemoveNext ==
  /\ held # {}
  /\ returned' = Earliest(held)
  /\ held' = held \ {returned'}

Remove(e) == e \in held /\ held' = held \ {e} /\ UNCHANGED returned

Next == (\E e \in Universe : Insert(e) \/ Remove(e)) \/ RemoveNext

Spec == Init /\ [][Next]_vars
=============================================================================
