----------------------------- MODULE DroneBridge -----------------------------
(***************************************************************************)
(* mission_control/drone_comm/drone_bridge.py: the server's end of the     *)
(* drone connections.  It keeps the registry of connected drones, turns    *)
(* what the drones send into events, and sends them the commands of the    *)
(* orchestrators.                                                          *)
(*                                                                         *)
(* Each connection has one handler() coroutine.  It suspends only to       *)
(* receive: storing a photo, publishing and sending an acknowledgement run *)
(* without giving the loop away.                                           *)
(***************************************************************************)
EXTENDS SearchOrchestrator, DroneLink

CONSTANT StoreFails   \* may saving a photo raise an exception? (a full disk)

ASSUME BridgeAssumption == /\ StoreFails \in BOOLEAN
                           /\ NoDrone \notin Drones
                           /\ Conns \subseteq Nat \ {0}

VARIABLES
  connected,      \* connected_clients: drone -> connection, or NoConn
  disconnected,   \* disconnected_clients
  handler         \* handler() of each connection: "auth", "serving", "none"

bridgeVars == <<connected, disconnected, handler>>

Tell(queue, type, d) ==
  Publish(queue, [type |-> type, drone |-> d, to |-> Subscribed])

-----------------------------------------------------------------------------
(* handler() *)

Finish(c) == handler' = [handler EXCEPT ![c] = "none"]

\* Slip: the entry is looked up again after it has been popped.
UnregisterTwice(c) == connected' = [d \in Drones \ {owner[c]} |-> connected[d]]

\* finally: the entry is removed if it is still this connection.
Unregister(c) ==
  connected' = [d \in Drones |-> IF d = owner[c] /\ connected[d] = c
                                 THEN NoConn ELSE connected[d]]

\* When handler() returns, the library closes a connection that is still up.
Hangup(c) == /\ wire' = [wire EXCEPT ![c] = IF @ = "up" THEN "ok" ELSE @]
             /\ noticed' = [noticed EXCEPT ![c] = TRUE]

\* _authenticate_drone of a drone that is registered already.
Reject(c) ==
  /\ handler[c] = "auth"
  /\ to_server[c] # <<>>
  /\ connected[owner[c]] # NoConn
  /\ to_server' = [to_server EXCEPT ![c] = <<>>]
  /\ to_drone' = [to_drone EXCEPT ![c] = Sent(c, @, <<AuthAck(FALSE)>>)]
  /\ Finish(c)
  /\ Hangup(c)
  /\ UNCHANGED <<connected, disconnected, owner, tasks, orchVars>>

\* Slips: a drone that is registered is registered again; the return of a lost
\* drone is not published.
AcceptRegistered(c) ==
  LET d == owner[c] IN
  /\ handler[c] = "auth"
  /\ to_server[c] # <<>>
  /\ connected' = [connected EXCEPT ![d] = c]
  /\ handler' = [handler EXCEPT ![c] = "serving"]
  /\ to_server' = [to_server EXCEPT ![c] = Tail(@)]
  /\ to_drone' = [to_drone EXCEPT ![c] = Sent(c, @, <<AuthAck(TRUE)>>)]
  /\ UNCHANGED <<disconnected, tasks, owner, wire, noticed, orchVars>>
AcceptSilently(c) ==
  LET d == owner[c] IN
  /\ handler[c] = "auth"
  /\ to_server[c] # <<>>
  /\ connected[d] = NoConn
  /\ disconnected' = disconnected \ {d}
  /\ connected' = [connected EXCEPT ![d] = c]
  /\ handler' = [handler EXCEPT ![c] = "serving"]
  /\ to_server' = [to_server EXCEPT ![c] = Tail(@)]
  /\ to_drone' = [to_drone EXCEPT ![c] = Sent(c, @, <<AuthAck(TRUE)>>)]
  /\ UNCHANGED <<tasks, owner, wire, noticed, orchVars>>

\* The drone is registered, then acknowledged.  If the connection is known to
\* be closed by then, the exception of the acknowledgement leaves handler()
\* before the try statement whose finally clause would remove the entry.
Accept(c) ==
  LET d == owner[c] IN
  /\ handler[c] = "auth"
  /\ to_server[c] # <<>>
  /\ connected[d] = NoConn
  /\ connected' = [connected EXCEPT ![d] = c]
  /\ disconnected' = disconnected \ {d}
  /\ tasks' = IF d \in disconnected THEN Tell(tasks, "DroneReconnected", d) ELSE tasks
  /\ IF noticed[c]
     THEN /\ Finish(c)
          /\ to_server' = [to_server EXCEPT ![c] = <<>>]
          /\ UNCHANGED to_drone
     ELSE /\ handler' = [handler EXCEPT ![c] = "serving"]
          /\ to_server' = [to_server EXCEPT ![c] = Tail(@)]
          /\ to_drone' = [to_drone EXCEPT ![c] = Sent(c, @, <<AuthAck(TRUE)>>)]
  /\ UNCHANGED <<owner, wire, noticed, orchVars>>

\* The connection is gone and no AUTH message arrived on it.
AuthFails(c) ==
  /\ handler[c] = "auth"
  /\ to_server[c] = <<>>
  /\ noticed[c]
  /\ Finish(c)
  /\ UNCHANGED <<connected, disconnected, linkVars, tasks, orchVars>>

\* Slip: a lost drone is not remembered.
LeaveForgetting(c, queue, exception) ==
  /\ Finish(c)
  /\ Unregister(c)
  /\ Hangup(c)
  /\ to_server' = [to_server EXCEPT ![c] = <<>>]
  /\ tasks' = IF exception = "ClosedError"
              THEN Tell(queue, "DroneConnectionLost", owner[c]) ELSE queue
  /\ UNCHANGED <<disconnected, owner, to_drone, orchVars>>

\* handler() leaves its loop, with what it publishes on the way out.
Leave(c, queue, exception) ==
  LET d == owner[c] IN
  /\ Finish(c)
  /\ Unregister(c)
  /\ Hangup(c)
  /\ to_server' = [to_server EXCEPT ![c] = <<>>]
  /\ disconnected' = IF exception = "ClosedError" THEN disconnected \cup {d}
                                                  ELSE disconnected
  /\ tasks' = CASE exception = "ClosedError" -> Tell(queue, "DroneConnectionLost", d)
                [] exception = "ClosedOK"    -> Tell(queue, "DroneDisconnected", d)
                [] OTHER                     -> queue
  /\ UNCHANGED <<owner, to_drone, orchVars>>

\* A report is acknowledged; that raises when the end was noticed meanwhile.
Reported(c, queue) ==
  IF noticed[c]
  THEN Leave(c, queue, IF wire[c] = "ok" THEN "ClosedOK" ELSE "ClosedError")
  ELSE /\ tasks' = queue
       /\ to_server' = [to_server EXCEPT ![c] = Tail(@)]
       /\ UNCHANGED <<connected, disconnected, handler, owner, wire, noticed, to_drone,
                      orchVars>>

Incoming(c, type) == /\ handler[c] = "serving"
                     /\ to_server[c] # <<>>
                     /\ Head(to_server[c]).type = type

ReceiveMoveAck(c) ==
  /\ Incoming(c, "ACK_MOVE")
  /\ tasks' = Tell(tasks, "MoveStarted", owner[c])
  /\ to_server' = [to_server EXCEPT ![c] = Tail(@)]
  /\ UNCHANGED <<bridgeVars, owner, wire, noticed, to_drone, orchVars>>

ReceiveMoveReport(c) ==
  /\ Incoming(c, "MOVE_EXECUTED")
  /\ Reported(c, Publish(tasks, [type |-> "MoveExecuted", drone |-> owner[c],
                                 ok |-> Head(to_server[c]).ok, to |-> Subscribed]))

ReceivePhoto(c) ==
  /\ Incoming(c, "PHOTO_WITH_TELEMETRY")
  /\ Reported(c, Publish(tasks, [type |-> "PhotoWithTelemetryReceived",
                                 drone |-> owner[c], photo |-> Head(to_server[c]).place,
                                 to |-> Subscribed]))

\* Any other exception is logged, and nobody is told that the handler is gone.
PhotoNotStored(c) ==
  /\ StoreFails
  /\ Incoming(c, "PHOTO_WITH_TELEMETRY")
  /\ Leave(c, tasks, "other")

\* The iteration over the messages ends without an exception when the
\* connection was closed normally, and raises when it was not.
EndOfMessages(c) ==
  /\ handler[c] = "serving"
  /\ to_server[c] = <<>>
  /\ noticed[c]
  /\ Leave(c, tasks, IF wire[c] = "ok" THEN "none" ELSE "ClosedError")

Serve(c) ==
  \/ Reject(c) \/ Accept(c) \/ AuthFails(c)
  \/ ReceiveMoveAck(c) \/ ReceiveMoveReport(c) \/ ReceivePhoto(c) \/ PhotoNotStored(c)
  \/ EndOfMessages(c)

-----------------------------------------------------------------------------
(* Commands of the orchestrators *)

\* send_message and the exceptions its callers handle.
SendCommand(o, msg) ==
  LET d == DroneOf[o]
      c == connected[d]
      queue == Tail(tasks)
  IN  \/ /\ c = NoConn
         /\ tasks' = IF d \in disconnected THEN Tell(queue, "DroneConnectionLost", d)
                                           ELSE queue
         /\ UNCHANGED linkVars
      \/ /\ c # NoConn /\ noticed[c]
         /\ tasks' = Tell(queue, IF wire[c] = "ok" THEN "DroneDisconnected"
                                                   ELSE "DroneConnectionLost", d)
         /\ UNCHANGED linkVars
      \/ /\ c # NoConn /\ ~noticed[c]
         /\ tasks' = queue
         /\ to_drone' = [to_drone EXCEPT ![c] = Sent(c, @, <<msg>>)]
         /\ UNCHANGED <<owner, wire, noticed, to_server>>

HandleGetPhoto ==
  /\ tasks # <<>>
  /\ Task.type = "GetPhoto"
  /\ SendCommand(Task.by, PhotoRequest)
  /\ UNCHANGED <<bridgeVars, orchVars>>

SendMove ==
  /\ tasks # <<>>
  /\ Task.type = "ExecuteMove"
  /\ SendCommand(Task.by, MoveRequest(Task.move))
  /\ UNCHANGED <<bridgeVars, orchVars>>

BridgeInit ==
  /\ LinkInit
  /\ connected = [d \in Drones |-> NoConn]
  /\ disconnected = {}
  /\ handler = [c \in Conns |-> "none"]

-----------------------------------------------------------------------------
(* Properties *)

BridgeTypeOK ==
  /\ connected \in [Drones -> Conns \cup {NoConn}]
  /\ disconnected \subseteq Drones
  /\ handler \in [Conns -> {"none", "auth", "serving"}]
  /\ owner \in [Conns -> Drones \cup {NoDrone}]
  /\ wire \in [Conns -> {"up", "ok", "err"}]
  /\ noticed \in [Conns -> BOOLEAN]

(* The handler that serves a drone is the one registered for it, so a drone  *)
(* never has two and its messages are handled in the order it sent them; and *)
(* a drone counted as lost is not connected, so that its return is reported. *)
ServedIsRegistered ==
  /\ \A c \in Conns : handler[c] = "serving" => connected[owner[c]] = c
  /\ \A d \in disconnected : connected[d] = NoConn

(* "Active drone connections mapping": a registered connection has a handler *)
(* that serves it, and that will remove the entry when it ends.              *)
RegisteredIsServed ==
  \A d \in Drones :
    connected[d] # NoConn => /\ handler[connected[d]] = "serving"
                             /\ owner[connected[d]] = d
=============================================================================
