----------------------------- MODULE DroneClient -----------------------------
(***************************************************************************)
(* drone_control: the process on the drone's Raspberry Pi                  *)
(* (bridges/server_bridge.py, managers/message_router.py,                  *)
(* managers/command_manager.py, command_registry/).                        *)
(*                                                                         *)
(* One thread dispatches what the server sends, one message at a time: a   *)
(* photo is taken and sent before the next message is looked at.  A MOVE   *)
(* is acknowledged and then flown by a thread of its own, which reports    *)
(* MOVE_EXECUTED once.  run_forever() does not reconnect: the process      *)
(* exits with its connection, and its threads with it; the operator starts *)
(* it again.                                                               *)
(***************************************************************************)
EXTENDS DroneLink

CONSTANTS
  MoveOutcomes,   \* pairs <<flew, ok>> a move thread may end with
  CaptureFails    \* may the camera fail?

ASSUME ClientAssumption == /\ MoveOutcomes \subseteq BOOLEAN \X BOOLEAN
                           /\ CaptureFails \in BOOLEAN

VARIABLES
  proc,       \* connection of the drone's process, NoConn if it does not run
  authed,     \* ServerBridge._authenticated
  flying,     \* move threads under way
  flights     \* history: vectors the vehicle has flown

clientVars == <<proc, authed, flying, flights>>

ClientInit(drones) ==
  /\ proc = [d \in drones |-> NoConn]
  /\ authed = [d \in drones |-> FALSE]
  /\ flying = [d \in drones |-> 0]
  /\ flights = [d \in drones |-> 0]

Send(d, msg) ==
  to_server' = [to_server EXCEPT ![proc[d]] = Sent(proc[d], @, <<msg>>)]

\* _on_open
StartProcess(d, c) ==
  /\ proc[d] = NoConn
  /\ Open(c, d)
  /\ proc' = [proc EXCEPT ![d] = c]
  /\ authed' = [authed EXCEPT ![d] = FALSE]
  /\ UNCHANGED <<flying, flights>>

Message(d) == Head(to_drone[proc[d]])
Arrived(d, type) == /\ proc[d] # NoConn
                    /\ to_drone[proc[d]] # <<>>
                    /\ Message(d).type = type
Read(d) == to_drone' = [to_drone EXCEPT ![proc[d]] = Tail(@)]

\* A rejection makes the drone close the connection with code 1008.
AuthAnswer(d) ==
  /\ Arrived(d, "ACK_AUTH")
  /\ Read(d)
  /\ authed' = [authed EXCEPT ![d] = Message(d).ok]
  /\ wire' = [wire EXCEPT ![proc[d]] = IF ~Message(d).ok /\ @ = "up" THEN "err" ELSE @]
  /\ UNCHANGED <<owner, noticed, to_server, proc, flying, flights>>

\* GET_PHOTO_TELEMETRY.  A failure of the camera is sent as a missing photo, one
\* of the telemetry as the values of a template.
TakePhoto(d) ==
  /\ Arrived(d, "GET_PHOTO_TELEMETRY")
  /\ authed[d]
  /\ Read(d)
  /\ \/ Send(d, PhotoReport(flights[d]))
     \/ CaptureFails /\ Send(d, PhotoReport(NoPhoto))
  /\ UNCHANGED <<owner, wire, noticed, clientVars>>

\* Slip: the report is sent when the move is dispatched.
BeginMoveReported(d) ==
  /\ Arrived(d, "MOVE")
  /\ authed[d]
  /\ Read(d)
  /\ to_server' = [to_server EXCEPT ![proc[d]] =
                     Sent(proc[d], @, <<MoveAck, MoveReport(TRUE)>>)]
  /\ flying' = [flying EXCEPT ![d] = @ + 1]
  /\ UNCHANGED <<owner, wire, noticed, proc, authed, flights>>

\* The thread is started after the ACK; a send on a connection that is gone
\* may raise, and then the move is not flown.
BeginMove(d) ==
  /\ Arrived(d, "MOVE")
  /\ authed[d]
  /\ Read(d)
  /\ Send(d, MoveAck)
  /\ \/ flying' = [flying EXCEPT ![d] = @ + 1]
     \/ wire[proc[d]] # "up" /\ UNCHANGED flying
  /\ UNCHANGED <<owner, wire, noticed, proc, authed, flights>>

\* Slips: success reported whatever happened; failure reported of a flight.
FinishMoveOk(d) ==
  /\ flying[d] > 0
  /\ flying' = [flying EXCEPT ![d] = @ - 1]
  /\ \E result \in MoveOutcomes :
       flights' = [flights EXCEPT ![d] = IF result[1] THEN @ + 1 ELSE @]
  /\ Send(d, MoveReport(TRUE))
  /\ UNCHANGED <<owner, wire, noticed, to_drone, proc, authed>>
FinishMoveFlown(d) ==
  /\ flying[d] > 0
  /\ flying' = [flying EXCEPT ![d] = @ - 1]
  /\ flights' = [flights EXCEPT ![d] = @ + 1]
  /\ \E result \in MoveOutcomes : Send(d, MoveReport(result[2]))
  /\ UNCHANGED <<owner, wire, noticed, to_drone, proc, authed>>

\* The report is sent once, whatever becomes of it.  The move is logged after
\* the flight, so a flight may be reported as failed.
FinishMove(d) ==
  /\ flying[d] > 0
  /\ flying' = [flying EXCEPT ![d] = @ - 1]
  /\ \E result \in MoveOutcomes :
       /\ flights' = [flights EXCEPT ![d] = IF result[1] THEN @ + 1 ELSE @]
       /\ Send(d, MoveReport(result[2]))
  /\ UNCHANGED <<owner, wire, noticed, to_drone, proc, authed>>

\* run_forever() returns, main() returns, the move threads are daemons.  What
\* they have sent to the autopilot is flown or not.
Exit(d) ==
  /\ proc' = [proc EXCEPT ![d] = NoConn]
  /\ authed' = [authed EXCEPT ![d] = FALSE]
  /\ to_drone' = [to_drone EXCEPT ![proc[d]] = <<>>]
  /\ flying' = [flying EXCEPT ![d] = 0]
  /\ \E n \in 0..flying[d] : flights' = [flights EXCEPT ![d] = @ + n]

ConnectionGone(d) ==
  /\ proc[d] # NoConn
  /\ wire[proc[d]] # "up"
  /\ Exit(d)
  /\ UNCHANGED <<owner, wire, noticed, to_server>>

\* Ctrl+C: the connection is closed with code 1001.
Shutdown(d) ==
  /\ proc[d] # NoConn
  /\ wire[proc[d]] = "up"
  /\ wire' = [wire EXCEPT ![proc[d]] = "ok"]
  /\ Exit(d)
  /\ UNCHANGED <<owner, noticed, to_server>>

Dispatch(d) == AuthAnswer(d) \/ TakePhoto(d) \/ BeginMove(d)
=============================================================================
