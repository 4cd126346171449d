------------------------------ MODULE MCRecordings ------------------------------
(* Small instances of Recordings. *)
EXTENDS Recordings

OneMission == {1}
TwoMissions == {1, 2}
OneDrone == {"d1"}
OneBrowser == {"b1"}
SameDrone == [o \in Orchs |-> "d1"]
===============================================================================
