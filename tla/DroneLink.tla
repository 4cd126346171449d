------------------------------ MODULE DroneLink ------------------------------
(***************************************************************************)
(* The WebSocket connections between the drones and mission control, as    *)
(* mission_control/drone_comm/drone_bridge.py (library `websockets') and   *)
(* drone_control/bridges/server_bridge.py (library `websocket-client') use *)
(* them.  The libraries are not part of the repository: this module says   *)
(* what the code relies on.                                                *)
(*                                                                         *)
(* Each direction of a connection is first in, first out.  An abnormal end *)
(* ("err") loses a suffix of what was on its way to the server and all     *)
(* that the drone has not read; a close handshake ("ok") loses nothing     *)
(* sent before it.  The server reads what it has received also after it    *)
(* has noticed the end; a send raises an exception once it has noticed,    *)
(* and until then goes nowhere.                                            *)
(*                                                                         *)
(* A connection is a slot of Conns.  A slot is used again for a new        *)
(* connection when both ends have let go of the old one.                   *)
(***************************************************************************)
EXTENDS Integers, Sequences

CONSTANTS Conns,    \* the slots for connections
          NoDrone   \* owner of a slot never used

VARIABLES
  owner,      \* the drone that opened the connection
  wire,       \* "up", or how the connection ended: "ok" (1000, 1001), "err"
  noticed,    \* the server's library knows that it ended
  to_server,
  to_drone

linkVars == <<owner, wire, noticed, to_server, to_drone>>

NoConn == 0

(* Messages *)
\* Drone to server.  A photo shows the drone's place, the number of its flights;
\* without a camera the report has no photo.
NoPhoto == -1
Auth == [type |-> "AUTH"]
MoveAck == [type |-> "ACK_MOVE"]
MoveReport(ok) == [type |-> "MOVE_EXECUTED", ok |-> ok]
PhotoReport(place) == [type |-> "PHOTO_WITH_TELEMETRY", place |-> place]

\* Server to drone.  The ACKs of reports are only logged by the drone.
AuthAck(ok) == [type |-> "ACK_AUTH", ok |-> ok]
PhotoRequest == [type |-> "GET_PHOTO_TELEMETRY"]
MoveRequest(m) == [type |-> "MOVE", move |-> m]

LinkInit ==
  /\ owner = [c \in Conns |-> NoDrone]
  /\ wire = [c \in Conns |-> "ok"]
  /\ noticed = [c \in Conns |-> TRUE]
  /\ to_server = [c \in Conns |-> <<>>]
  /\ to_drone = [c \in Conns |-> <<>>]

\* The drone opens a connection and sends its AUTH message on it.
Open(c, d) ==
  /\ owner' = [owner EXCEPT ![c] = d]
  /\ wire' = [wire EXCEPT ![c] = "up"]
  /\ noticed' = [noticed EXCEPT ![c] = FALSE]
  /\ to_server' = [to_server EXCEPT ![c] = <<Auth>>]
  /\ to_drone' = [to_drone EXCEPT ![c] = <<>>]

\* A send is lost once the connection is gone.
Sent(c, queue, msgs) == IF wire[c] = "up" THEN queue \o msgs ELSE queue

\* The network breaks the connection.
Break(c) ==
  /\ wire[c] = "up"
  /\ wire' = [wire EXCEPT ![c] = "err"]
  /\ \E n \in 0..Len(to_server[c]) :
       to_server' = [to_server EXCEPT ![c] = SubSeq(@, 1, n)]
  /\ UNCHANGED <<owner, noticed, to_drone>>

\* The server's library learns of the end: a close frame, a reset, or the
\* keepalive ping of Config.ws_ping_timeout.
Notice(c) ==
  /\ wire[c] # "up"
  /\ ~noticed[c]
  /\ noticed' = [noticed EXCEPT ![c] = TRUE]
  /\ UNCHANGED <<owner, wire, to_server, to_drone>>
=============================================================================
