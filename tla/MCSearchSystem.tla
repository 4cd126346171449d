---------------------------- MODULE MCSearchSystem ----------------------------
(* Small instances of SearchSystem for TLC: one mission with one drone. *)
EXTENDS SearchSystem

OneOrch == {"o1"}
OneDrone == {"d1"}
OneMission == {"m1"}
SameDrone == [o \in Orchs |-> "d1"]
SameMission == [o \in Orchs |-> "m1"]

\* Outcomes of a move thread: the vehicle flew and said so, it failed to fly,
\* or it flew and storing the move in the session log raised an exception.
Flies == {<<TRUE, TRUE>>}
FliesOrFails == {<<TRUE, TRUE>>, <<FALSE, FALSE>>}
AnyOutcome == {<<TRUE, TRUE>>, <<FALSE, FALSE>>, <<TRUE, FALSE>>}
===============================================================================
