------------------------------ MODULE MCVlmBridge ------------------------------
(* Two runs of one mission id, one after the other, with the VLM's sessions. *)
EXTENDS VlmBridge

TwoRuns == {"o1", "o2"}
OneDrone == {"d1"}
OneMission == {"m1"}
SameDrone == [o \in Orchs |-> "d1"]
SameMission == [o \in Orchs |-> "m1"]
===============================================================================
