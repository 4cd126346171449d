----------------------------- MODULE MCMavlinkLink -----------------------------
(* Small instances of MavlinkLink. *)
EXTENDS MavlinkLink

OneMover == {"mover1"}
TwoMovers == {"mover1", "mover2"}
SomeMethods == {0, 2, 3}  \* method 1 is method 2 without the look at the mode
==============================================================================
