------------------------- MODULE MCSearchOrchestrator -------------------------
(* A small instance of SearchOrchestrator for TLC: one mission, one drone. *)
EXTENDS SearchOrchestrator

OneOrch == {"o1"}
OneDrone == {"d1"}
OneMission == {"m1"}
SameDrone == [o \in Orchs |-> "d1"]
SameMission == [o \in Orchs |-> "m1"]
===============================================================================
