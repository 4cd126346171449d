------------------------------- MODULE MavlinkLink -------------------------------
(***************************************************************************)
(* The autopilot's serial line in the drone's process:                     *)
(* drone_control/sensors/mavlink_telemetry_backend.py and what uses it,    *)
(* the telemetry and the turn to the north of a photo, and the moves of    *)
(* actuators/pixhawk_vector_backend.py.                                    *)
(*                                                                         *)
(* The thread that dispatches commands and each move's thread call         *)
(* _ensure_connection, which checks and changes the module's globals       *)
(* without a lock; each step below makes one access to a global that       *)
(* another thread may change.  A thread counts as alive from its start()   *)
(* on.                                                                     *)
(*                                                                         *)
(* A connection is its number in the order of opening, 0 is None.          *)
(***************************************************************************)
EXTENDS Integers, FiniteSets

CONSTANTS
  Dispatcher,      \* takes the photos
  Movers,          \* threads of moves
  Methods,         \* values of move_method considered, 0..3
  Setpoints,       \* bound on what methods 1 to 3 send before the time is over
  LogFails,        \* may the session log fail to be written?
  MaxConnections,  \* bound on connections opened
  MaxModes         \* bound on the pilot's changes of mode

ASSUME MavlinkAssumption ==
  /\ Dispatcher \notin Movers
  /\ Methods \subseteq 0..3
  /\ Setpoints \in Nat \ {0}
  /\ LogFails \in BOOLEAN
  /\ MaxConnections \in Nat /\ MaxModes \in Nat

Thread == Movers \cup {Dispatcher}

VARIABLES
  _master,           \* the shared connection
  opened,            \* number of connections opened
  line,              \* connections that hold the device
  _receiver_thread,  \* "none", "created" or "alive": the thread object it names
  receivers,         \* threads that run _receiver_worker
  heartbeat,         \* _state["HEARTBEAT"]: "none", "GUIDED" or "other"
  mode,              \* of the vehicle
  modes,             \* changes of it so far
  method,            \* move_method
  pc, task,          \* of each thread: its next step, and what it is in
  conn,              \* of each thread: the connection it uses
  left,              \* of each mover: setpoints it may still send, at most
  result,            \* of each mover: "none", "ok" or "failed"
  strayed            \* history: setpoints each mover has sent since the cache has
                     \* not said GUIDED

linkVars == <<_master, opened, line, _receiver_thread, receivers>>
vehicleVars == <<mode, modes, method>>
threadVars == <<pc, task, conn, left, result>>
mavVars == <<linkVars, vehicleVars, heartbeat, threadVars, strayed>>

Connecting == {"check", "alive?", "present?", "close", "forget", "clear", "open", "heartbeat",
               "waiting", "streams", "receiver?", "create", "start", "connected"}
Flying == {"ready?", "next", "guided?", "send"}
Place == Connecting \cup Flying \cup {"idle", "log"}

Goto(t, from, to) == pc[t] = from /\ pc' = [pc EXCEPT ![t] = to]

-----------------------------------------------------------------------------
(* _ensure_connection *)

\* What the exception does: the turn is skipped, the telemetry is that of the
\* template, the move has failed.
Raise(t) ==
  /\ pc' = [pc EXCEPT ![t] = CASE task[t] = "turn" -> "check"
                               [] task[t] = "telemetry" -> "idle"
                               [] task[t] = "move" -> "log"]
  /\ task' = [task EXCEPT ![t] = IF @ = "turn" THEN "telemetry" ELSE @]
  /\ result' = IF task[t] = "move" THEN [result EXCEPT ![t] = "failed"] ELSE result
  /\ UNCHANGED <<conn, left>>

Check(t) ==
  /\ Goto(t, "check", IF _master = 0 THEN "present?" ELSE "alive?")
  /\ UNCHANGED <<linkVars, heartbeat, vehicleVars, task, conn, left, result>>

\* Slip: without a receiver only the receiver is started anew.
CheckReceiverOnly(t) ==
  /\ Goto(t, "alive?", IF _receiver_thread = "alive" THEN "connected" ELSE "receiver?")
  /\ UNCHANGED <<linkVars, heartbeat, vehicleVars, task, conn, left, result>>

CheckReceiver(t) ==
  /\ Goto(t, "alive?", IF _receiver_thread = "alive" THEN "connected" ELSE "present?")
  /\ UNCHANGED <<linkVars, heartbeat, vehicleVars, task, conn, left, result>>

LookForOld(t) ==
  /\ Goto(t, "present?", IF _master = 0 THEN "clear" ELSE "close")
  /\ UNCHANGED <<linkVars, heartbeat, vehicleVars, task, conn, left, result>>

\* Of None, or a second time: no harm.
Close(t) ==
  /\ Goto(t, "close", "forget")
  /\ line' = line \ {_master}
  /\ UNCHANGED <<_master, opened, _receiver_thread, receivers, heartbeat, vehicleVars,
                 task, conn, left, result>>

\* Slip: the closed connection stays in _master.
ForgetNothing(t) ==
  /\ Goto(t, "forget", "clear")
  /\ UNCHANGED <<linkVars, heartbeat, vehicleVars, task, conn, left, result>>

\* _master = None, whatever another thread has put there meanwhile.
Forget(t) ==
  /\ Goto(t, "forget", "clear")
  /\ _master' = 0
  /\ UNCHANGED <<opened, line, _receiver_thread, receivers, heartbeat, vehicleVars,
                 task, conn, left, result>>

Clear(t) ==
  /\ Goto(t, "clear", "open")
  /\ heartbeat' = "none"
  /\ UNCHANGED <<linkVars, vehicleVars, task, conn, left, result>>

\* The device can be opened once ("would fail outright", says
\* send_vector_command_via), and may be missing.
OpenLine(t) ==
  /\ pc[t] = "open"
  /\ line = {} /\ opened < MaxConnections
  /\ opened' = opened + 1
  /\ line' = {opened + 1}
  /\ _master' = opened + 1
  /\ pc' = [pc EXCEPT ![t] = "heartbeat"]
  /\ UNCHANGED <<_receiver_thread, receivers, heartbeat, vehicleVars,
                 task, conn, left, result>>

OpenFails(t) ==
  /\ pc[t] = "open"
  /\ Raise(t)
  /\ UNCHANGED <<linkVars, heartbeat, vehicleVars>>

\* The attribute is looked up on whatever _master is by now.
CallWait(t) ==
  /\ pc[t] = "heartbeat"
  /\ IF _master = 0
     THEN Raise(t)
     ELSE /\ Goto(t, "heartbeat", "waiting")
          /\ conn' = [conn EXCEPT ![t] = _master]
          /\ UNCHANGED <<task, left, result>>
  /\ UNCHANGED <<linkVars, heartbeat, vehicleVars>>

Heard(t) ==
  /\ conn[t] \in line
  /\ Goto(t, "waiting", "streams")
  /\ UNCHANGED <<linkVars, heartbeat, vehicleVars, task, conn, left, result>>

\* Slip: the wait for a heartbeat has no limit.
NotHeardClosed(t) ==
  /\ pc[t] = "waiting" /\ conn[t] \notin line
  /\ Raise(t)
  /\ UNCHANGED <<linkVars, heartbeat, vehicleVars>>

\* No heartbeat in 5 s, or the connection was closed by another thread.  The
\* connection stays in _master.
NotHeard(t) ==
  /\ pc[t] = "waiting"
  /\ Raise(t)
  /\ UNCHANGED <<linkVars, heartbeat, vehicleVars>>

\* The log line reads _master again; the requests catch what they raise.
RequestStreams(t) ==
  /\ pc[t] = "streams"
  /\ IF _master = 0
     THEN Raise(t)
     ELSE /\ Goto(t, "streams", "receiver?")
          /\ UNCHANGED <<task, conn, left, result>>
  /\ UNCHANGED <<linkVars, heartbeat, vehicleVars>>

\* Slip: a thread object is taken for a thread that runs.
LookForThread(t) ==
  /\ Goto(t, "receiver?", IF _receiver_thread # "none" THEN "connected" ELSE "create")
  /\ UNCHANGED <<linkVars, heartbeat, vehicleVars, task, conn, left, result>>

LookForReceiver(t) ==
  /\ Goto(t, "receiver?", IF _receiver_thread = "alive" THEN "connected" ELSE "create")
  /\ UNCHANGED <<linkVars, heartbeat, vehicleVars, task, conn, left, result>>

CreateReceiver(t) ==
  /\ Goto(t, "create", "start")
  /\ _receiver_thread' = "created"
  /\ UNCHANGED <<_master, opened, line, receivers, heartbeat, vehicleVars,
                 task, conn, left, result>>

\* start() of the thread the global names: a second one raises.
StartReceiver(t) ==
  /\ pc[t] = "start"
  /\ IF _receiver_thread = "alive"
     THEN Raise(t) /\ UNCHANGED <<_receiver_thread, receivers>>
     ELSE /\ _receiver_thread' = "alive"
          /\ receivers' = receivers + 1
          /\ Goto(t, "start", "connected")
          /\ UNCHANGED <<task, conn, left, result>>
  /\ UNCHANGED <<_master, opened, line, heartbeat, vehicleVars>>

EnsureConnection(t) ==
  \/ Check(t) \/ CheckReceiver(t) \/ LookForOld(t) \/ Close(t) \/ Forget(t) \/ Clear(t)
  \/ OpenLine(t) \/ OpenFails(t) \/ CallWait(t) \/ NotHeard(t) \/ RequestStreams(t)
  \/ LookForReceiver(t) \/ CreateReceiver(t) \/ StartReceiver(t)

-----------------------------------------------------------------------------
(* The receivers, and the vehicle *)

\* _receiver_worker never gives up.  What it has read it may store late, after the
\* mode has changed or the connection was closed.
Receive ==
  /\ receivers > 0
  /\ \E m \in IF modes = 0 THEN {mode} ELSE {"GUIDED", "other"} :
       /\ heartbeat' = m
       /\ strayed' = IF m = "GUIDED" THEN [t \in Movers |-> 0] ELSE strayed
  /\ UNCHANGED <<linkVars, vehicleVars, threadVars>>

\* A connection nobody refers to any more is closed when Python collects it.
Uses(t, c) == conn[t] = c /\ pc[t] \in Flying \cup {"waiting"}
Collect(c) ==
  /\ c \in line \ {_master}
  /\ \A t \in Thread : ~Uses(t, c)
  /\ line' = line \ {c}
  /\ UNCHANGED <<_master, opened, _receiver_thread, receivers, heartbeat, vehicleVars,
                 threadVars>>

\* The pilot takes over, or hands back.
ChangeMode ==
  /\ modes < MaxModes
  /\ mode' = IF mode = "GUIDED" THEN "other" ELSE "GUIDED"
  /\ modes' = modes + 1
  /\ UNCHANGED <<method, linkVars, heartbeat, threadVars>>

-----------------------------------------------------------------------------
(* GET_PHOTO_TELEMETRY: turn to the north, photo, telemetry *)

BeginPhoto ==
  /\ Goto(Dispatcher, "idle", "check")
  /\ task' = [task EXCEPT ![Dispatcher] = "turn"]
  /\ UNCHANGED <<linkVars, heartbeat, vehicleVars, conn, left, result>>

\* get_shared_master returns what _master is now; None is skipped, and a failing
\* send is caught.
Turn ==
  /\ task[Dispatcher] = "turn"
  /\ Goto(Dispatcher, "connected", "check")
  /\ task' = [task EXCEPT ![Dispatcher] = "telemetry"]
  /\ UNCHANGED <<linkVars, heartbeat, vehicleVars, conn, left, result>>

\* get_telemetry_json: when any message is in the cache; a photo for which there
\* is none after 2 s carries the values of the template.
ReadTelemetry ==
  /\ task[Dispatcher] = "telemetry"
  /\ Goto(Dispatcher, "connected", "idle")
  /\ UNCHANGED <<linkVars, heartbeat, vehicleVars, task, conn, left, result>>

-----------------------------------------------------------------------------
(* A MOVE *)

BeginMove(t) ==
  /\ t \in Movers
  /\ result[t] = "none"
  /\ Goto(t, "idle", "check")
  /\ task' = [task EXCEPT ![t] = "move"]
  /\ UNCHANGED <<linkVars, heartbeat, vehicleVars, conn, left, result>>

\* send_vector_command_via with what get_shared_master has returned.
StartMethod(t) ==
  /\ task[t] = "move"
  /\ Goto(t, "connected", IF method = 3 THEN "ready?" ELSE "next")
  /\ conn' = [conn EXCEPT ![t] = _master]
  /\ left' = [left EXCEPT ![t] = IF method = 0 THEN 1 ELSE Setpoints]
  /\ UNCHANGED <<linkVars, heartbeat, vehicleVars, task, result>>

Conclude(t, outcome) ==
  /\ pc' = [pc EXCEPT ![t] = "log"]
  /\ result' = [result EXCEPT ![t] = outcome]

\* _is_guided, which asks the last heartbeat that was received.
LookAtMode(t, from, to) ==
  /\ pc[t] = from
  /\ IF heartbeat = "GUIDED"
     THEN pc' = [pc EXCEPT ![t] = to] /\ UNCHANGED result
     ELSE Conclude(t, "failed")
  /\ UNCHANGED <<linkVars, heartbeat, vehicleVars, task, conn, left>>

\* The loops of methods 1 to 3 end when time.time() has passed the duration, even
\* before the first setpoint if the thread was held up or the clock was set; a
\* vector of length zero ends before its loop.  Method 0 sends once.
TimeIsOver(t) ==
  /\ pc[t] = "next"
  /\ method = 0 => left[t] = 0
  /\ Conclude(t, "ok")
  /\ UNCHANGED <<linkVars, heartbeat, vehicleVars, task, conn, left>>

\* Slip: the mode is checked before the first setpoint only.
NextSetpointUnchecked(t) ==
  /\ left[t] > 0
  /\ Goto(t, "next", IF left[t] = Setpoints THEN "guided?" ELSE "send")
  /\ UNCHANGED <<linkVars, heartbeat, vehicleVars, task, conn, left, result>>

NextSetpoint(t) ==
  /\ left[t] > 0
  /\ Goto(t, "next", IF method \in {2, 3} THEN "guided?" ELSE "send")
  /\ UNCHANGED <<linkVars, heartbeat, vehicleVars, task, conn, left, result>>

\* None has no attribute `mav'.  On a connection that another thread has closed
\* pymavlink's write catches the exception: nothing is sent and nobody is told.
SendSetpoint(t) ==
  /\ pc[t] = "send"
  /\ IF conn[t] = 0
     THEN Conclude(t, "failed") /\ UNCHANGED left
     ELSE /\ pc' = [pc EXCEPT ![t] = "next"]
          /\ left' = [left EXCEPT ![t] = @ - 1]
          /\ UNCHANGED result
  /\ strayed' = IF conn[t] \in line /\ heartbeat # "GUIDED"
                THEN [strayed EXCEPT ![t] = @ + 1] ELSE strayed
  /\ UNCHANGED <<linkVars, heartbeat, vehicleVars, task, conn>>

\* handle_command writes the log when the flight is over; one that cannot be
\* written makes the whole command fail.
LogMove(t) ==
  /\ Goto(t, "log", "idle")
  /\ \/ UNCHANGED result
     \/ LogFails /\ result' = [result EXCEPT ![t] = "failed"]
  /\ UNCHANGED <<linkVars, heartbeat, vehicleVars, task, conn, left>>

Fly(t) ==
  \/ /\ \/ StartMethod(t) \/ TimeIsOver(t) \/ NextSetpoint(t) \/ LogMove(t)
        \/ LookAtMode(t, "ready?", "next") \/ LookAtMode(t, "guided?", "send")
     /\ UNCHANGED strayed
  \/ SendSetpoint(t)

-----------------------------------------------------------------------------
MavInit ==
  /\ _master = 0 /\ opened = 0 /\ line = {}
  /\ _receiver_thread = "none" /\ receivers = 0
  /\ heartbeat = "none"
  /\ mode \in {"GUIDED", "other"} /\ modes = 0
  /\ method \in Methods
  /\ pc = [t \in Thread |-> "idle"]
  /\ task = [t \in Thread |-> "none"]
  /\ conn = [t \in Thread |-> 0]
  /\ left = [t \in Thread |-> 0]
  /\ result = [t \in Thread |-> "none"]
  /\ strayed = [t \in Movers |-> 0]

ThreadStep(t) == (EnsureConnection(t) /\ UNCHANGED strayed) \/ Fly(t)
DispatcherStep == (Turn \/ ReadTelemetry) /\ UNCHANGED strayed

MavNext ==
  \/ \E t \in Thread : ThreadStep(t)
  \/ DispatcherStep
  \/ \E t \in Thread : Heard(t) /\ UNCHANGED strayed
  \/ Receive
  \/ /\ \/ BeginPhoto \/ ChangeMode \/ \E t \in Movers : BeginMove(t)
        \/ \E c \in line : Collect(c)
     /\ UNCHANGED strayed

\* Threads run and timers expire; the vehicle may be silent, and nobody has to ask
\* for photos and moves.
MavFairness == /\ \A t \in Thread : WF_mavVars(ThreadStep(t))
               /\ WF_mavVars(DispatcherStep)

MavSpec == MavInit /\ [][MavNext]_mavVars /\ MavFairness

-----------------------------------------------------------------------------
(* Properties *)

\* The values the variables take.
LinkTypeOK ==
  /\ opened \in 0..MaxConnections
  /\ _master \in 0..opened /\ line \subseteq 1..opened
  /\ _receiver_thread \in {"none", "created", "alive"} /\ receivers \in Nat
  /\ heartbeat \in {"none", "GUIDED", "other"}
  /\ conn \in [Thread -> 0..opened]

ThreadTypeOK ==
  /\ pc \in [Thread -> Place]
  /\ task \in [Thread -> {"none", "turn", "telemetry", "move"}]
  /\ left \in [Thread -> 0..Setpoints]
  /\ result \in [Thread -> {"none", "ok", "failed"}]
  /\ strayed \in [Movers -> Nat]
  /\ method \in 0..3 /\ mode \in {"GUIDED", "other"}

MavTypeOK == LinkTypeOK /\ ThreadTypeOK

(* However the threads interleave in _ensure_connection, a closed connection *)
(* stays shared only while the thread that has closed it is about to forget  *)
(* it: nobody is handed one that all later calls would take for the open one.*)
ClosedIsForgotten ==
  _master # 0 /\ _master \notin line => \E t \in Thread : pc[t] = "forget"

(* Receivers never end, and several read from one line.  The look at the     *)
(* thread's name, its creation and its start are not one step, so that two   *)
(* threads may start one each; even so no more are started than connections  *)
(* were opened.                                                              *)
ReceiversArePaid == receivers <= opened

(* Who is past _ensure_connection reads a cache that a receiver fills: a     *)
(* thread object that another thread has only created is not taken for one   *)
(* that runs.                                                                *)
CacheIsFed ==
  \A t \in Thread : pc[t] \in Flying \cup {"connected"} => receivers > 0

(* When the cache no longer says GUIDED, because of a heartbeat or because   *)
(* another thread has cleared it, a move of method 2 or 3 sends at most the  *)
(* one setpoint whose check is behind it.                                    *)
ModeStopsMove ==
  method \in {2, 3} => \A t \in Movers : strayed[t] <= 1

(* A connection that cannot be opened, one without a heartbeat and telemetry *)
(* that does not come cost a photo or a move a while, and never hold it up   *)
(* for good: the thread that dispatches the server's commands comes back.    *)
ThreadsReturn == \A t \in Thread : pc[t] # "idle" ~> pc[t] = "idle"
=============================================================================
