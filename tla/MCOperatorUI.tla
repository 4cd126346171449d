------------------------------ MODULE MCOperatorUI ------------------------------
(* Small instances of OperatorUI: runs of one mission id, one drone. *)
EXTENDS OperatorUI, TLC

TwoRuns == {"o1", "o2"}
OneDrone == {"d1"}
OneMission == {"m1"}
OneBrowser == {"b1"}
TwoBrowsers == {"b1", "b2"}
SameDrone == [o \in Orchs |-> "d1"]
Symmetric == Permutations(Moves)
SameMission == [o \in Orchs |-> "m1"]
===============================================================================
