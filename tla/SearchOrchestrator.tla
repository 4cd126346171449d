-------------------------- MODULE SearchOrchestrator --------------------------
(***************************************************************************)
(* The mission state machine of mission_control/mission/                   *)
(* search_orchestrator.py and the event bus it runs on                     *)
(* (mission_control/core/event_bus.py).                                    *)
(*                                                                         *)
(* publish() creates one asyncio task per subscribed handler and returns   *)
(* without suspending; the loop runs ready tasks first in, first out, and  *)
(* no handler of the orchestrator suspends.  `tasks' is that ready queue.  *)
(* A task is an event, with the set `to' of the orchestrators that were    *)
(* subscribed when it was published and have not handled it yet, or a      *)
(* command for the one component that subscribes to it, with the           *)
(* orchestrator `by' that published it (its drone_id and mission_id are    *)
(* the ones of that orchestrator), or the wake-up of a start() coroutine   *)
(* whose awaited command has been handled.                                 *)
(*                                                                         *)
(* The environment of this module is open: any event may be published at   *)
(* any time.  SearchSystem closes it with the drone, the network, the VLM  *)
(* and the operator.                                                       *)
(***************************************************************************)
EXTENDS Integers, Sequences, FiniteSets

CONSTANTS
  Orchs,        \* the SearchOrchestrator instances the manager may create
  Drones, Missions,
  DroneOf,      \* drone_id of each orchestrator
  MissionOf,    \* mission_id of each orchestrator
  Moves,        \* move vectors
  NoMove,       \* Python's None for current_move
  Photos,       \* contents of a photo with its telemetry
  Glimpses,     \* values of the "glimpses" prompt argument
  VideoEnabled, \* Config.video_enabled
  MaxTasks      \* bound: the environment publishes on a shorter queue only

ASSUME OrchAssumption ==
  /\ DroneOf \in [Orchs -> Drones]
  /\ MissionOf \in [Orchs -> Missions]
  /\ NoMove \notin Moves
  /\ Glimpses \subseteq Int
  /\ VideoEnabled \in BOOLEAN
  /\ MaxTasks \in Nat

VARIABLES
  state,            \* MissionState, or "NEW" before __init__
  pending_command,
  moves_performed,
  max_moves,
  is_warning,
  current_move,
  move_failures,
  start_at,         \* where the start() coroutine is suspended
  tasks,            \* the ready queue of the event loop
  confirmed         \* history: CONFIRMED decisions the orchestrator accepted

orchVars == <<state, pending_command, moves_performed, max_moves, is_warning,
              current_move, move_failures, start_at, confirmed>>
vars == <<orchVars, tasks>>

-----------------------------------------------------------------------------
(* States, commands and events *)

MissionState == {"NEW", "IDLE", "WAITING_FOR_DRONE", "WAITING_FOR_VLM",
                 "WAITING_FOR_USER", "WAITING_FOR_ACK", "FLYING", "PAUSED", "ENDED"}
Decisions == {"CONFIRMED", "WARNING", "CANCELLED"}

\* The commands start() waits for, and what it is suspended on meanwhile.
Awaited == {"CreateNewSession", "SaveSession", "StartRecording"}
StartAt == {"none", "finished", "failed", "cancelled", "created", "saved", "recorded"}
             \cup Awaited

SimpleCommand == [type : Awaited \cup {"GetPhoto", "StopRecording", "SearchEnded",
                                       "DeleteSession"},
                  by : Orchs]
MoveCommand == [type : {"ExecuteMove", "AskUserConfirmation"},
                by : Orchs, move : Moves \cup {NoMove}]
AnalyzeCommand == [type : {"AnalyzePhoto"}, by : Orchs, photo : Photos,
                   is_warning : BOOLEAN]
Command == SimpleCommand \cup MoveCommand \cup AnalyzeCommand
NoCommand == [type |-> "None"]

DroneNotice == {"MoveStarted", "DroneConnectionLost", "DroneReconnected",
                "DroneDisconnected", "DroneErrorOccurred"}
ChatNotice == {"VlmErrorOccurred", "ChatErrorOccurred"}
Event == [type : DroneNotice, drone : Drones, to : SUBSET Orchs]
           \cup [type : {"MoveExecuted"}, drone : Drones, ok : BOOLEAN,
                 to : SUBSET Orchs]
           \cup [type : {"PhotoWithTelemetryReceived"}, drone : Drones,
                 photo : Photos, to : SUBSET Orchs]
           \cup [type : ChatNotice, mission : Missions, to : SUBSET Orchs]
           \cup [type : {"VlmAnalysisCompleted"}, mission : Missions,
                 found : BOOLEAN, move : Moves, to : SUBSET Orchs]
           \cup [type : {"UserDecisionReceived"}, mission : Missions,
                 decision : Decisions, move : Moves, to : SUBSET Orchs]
WakeUp == [type : {"WakeUp"}, by : Orchs]
DroneEventTypes == DroneNotice \cup {"MoveExecuted", "PhotoWithTelemetryReceived"}
MissionEventTypes == ChatNotice \cup {"VlmAnalysisCompleted", "UserDecisionReceived"}
CommandTypes == Awaited \cup {"GetPhoto", "StopRecording", "SearchEnded", "DeleteSession",
                              "ExecuteMove", "AskUserConfirmation", "AnalyzePhoto"}

GetPhoto(o) == [type |-> "GetPhoto", by |-> o]
ExecuteMove(o, m) == [type |-> "ExecuteMove", by |-> o, move |-> m]
Await(o, c) == [type |-> c, by |-> o]

-----------------------------------------------------------------------------
(* The bus *)

\* __init__ subscribes the handlers, _cleanup() unsubscribes them.
Subscribed == {o \in Orchs : state[o] \notin {"NEW", "ENDED"}}

\* Without a subscriber publish() creates no task.
Publish(queue, e) == IF e.to = {} THEN queue ELSE Append(queue, e)

Task == Head(tasks)

\* The queue once o has handled the event at its head.
Rest(o) == IF Task.to \subseteq {o}
           THEN Tail(tasks)
           ELSE <<[Task EXCEPT !.to = @ \ {o}]>> \o Tail(tasks)

\* The first test of every handler: is the event about my drone, my mission?
Concerns(o, e) == IF e.type \in DroneEventTypes
                  THEN e.drone = DroneOf[o]
                  ELSE e.mission = MissionOf[o]

\* Slips: a report credited in any state; errors handled after the end.
ExpectedAnyReport(type) == MissionState \ {"ENDED"}
ExpectedAfterEnd(type) == MissionState

\* The second: the states in which the handler does anything.
Expected(type) ==
  CASE type = "PhotoWithTelemetryReceived" -> {"WAITING_FOR_DRONE"}
    [] type = "VlmAnalysisCompleted"       -> {"WAITING_FOR_VLM"}
    [] type = "UserDecisionReceived"       -> {"WAITING_FOR_USER"}
    [] type = "MoveStarted"                -> {"WAITING_FOR_ACK"}
    [] type = "MoveExecuted"               -> {"FLYING"}
    [] type = "DroneConnectionLost"        -> {"WAITING_FOR_DRONE", "WAITING_FOR_ACK"}
    [] type = "DroneReconnected"           -> {"PAUSED"}
    [] OTHER                               -> MissionState \ {"ENDED"}

EventFor(o) == /\ tasks # <<>>
               /\ Task.type \in DroneEventTypes \cup MissionEventTypes
               /\ o \in Task.to
Handles(o, type) == /\ EventFor(o)
                    /\ Task.type = type
                    /\ Concerns(o, Task)
                    /\ state[o] \in Expected(type)

-----------------------------------------------------------------------------
(* Steps the handlers share *)

Goto(o, s) == state' = [state EXCEPT ![o] = s]

\* What _terminate_mission publishes, in this order.
Farewell(o) == (IF VideoEnabled THEN <<Await(o, "StopRecording")>> ELSE <<>>)
                 \o <<Await(o, "SearchEnded"), Await(o, "DeleteSession")>>

Terminate(o, queue) == /\ Goto(o, "ENDED")
                       /\ tasks' = queue \o Farewell(o)

-----------------------------------------------------------------------------
(* start() *)

\* The synchronous part: a mission without glimpses, or whose prompt cannot
\* be generated, is aborted and the exception goes on to the manager.
Start(o, glimpses, prompt_ok, queue) ==
  /\ state[o] = "NEW"
  /\ max_moves' = [max_moves EXCEPT ![o] = glimpses - 1]
  /\ IF glimpses # 0 /\ prompt_ok
     THEN /\ Goto(o, "IDLE")
          /\ start_at' = [start_at EXCEPT ![o] = "CreateNewSession"]
          /\ tasks' = Append(queue, Await(o, "CreateNewSession"))
     ELSE /\ Terminate(o, queue)
          /\ start_at' = [start_at EXCEPT ![o] = "failed"]
  /\ UNCHANGED <<pending_command, moves_performed, is_warning, current_move,
                 move_failures, confirmed>>

\* The handler of the awaited command has returned: gather() wakes start() up.
AwaitedDone(o) ==
  /\ start_at[o] \in Awaited
  /\ \A i \in 1..Len(tasks) : tasks[i] # Await(o, start_at[o])
  /\ start_at' = [start_at EXCEPT ![o] =
                    CASE start_at[o] = "CreateNewSession" -> "created"
                      [] start_at[o] = "SaveSession" -> "saved"
                      [] start_at[o] = "StartRecording" -> "recorded"]
  /\ tasks' = Append(tasks, [type |-> "WakeUp", by |-> o])
  /\ UNCHANGED <<state, pending_command, moves_performed, max_moves, is_warning,
                 current_move, move_failures, confirmed>>

\* The recording waiter of the drone link was cancelled: CancelledError is no
\* Exception, so it ends the handler, gather() and start() without an abort.
StartCancelled(o) ==
  /\ start_at[o] = "StartRecording"
  /\ \A i \in 1..Len(tasks) : tasks[i] # Await(o, "StartRecording")
  /\ start_at' = [start_at EXCEPT ![o] = "cancelled"]
  /\ UNCHANGED <<state, pending_command, moves_performed, max_moves, is_warning,
                 current_move, move_failures, confirmed, tasks>>

Awake(o, at) == /\ tasks # <<>>
                /\ Task = [type |-> "WakeUp", by |-> o]
                /\ start_at[o] = at

StartSave(o) ==
  /\ Awake(o, "created")
  /\ start_at' = [start_at EXCEPT ![o] = "SaveSession"]
  /\ tasks' = Append(Tail(tasks), Await(o, "SaveSession"))
  /\ UNCHANGED <<state, pending_command, moves_performed, max_moves, is_warning,
                 current_move, move_failures, confirmed>>

\* The one place where start() looks at what happened while it waited.
\* (Slip: without the look.)
StartSearchBlindly(o) ==
  /\ Awake(o, "saved")
  /\ Goto(o, "WAITING_FOR_DRONE")
  /\ start_at' = [start_at EXCEPT ![o] = "finished"]
  /\ tasks' = Append(Tail(tasks), GetPhoto(o))
  /\ UNCHANGED <<pending_command, moves_performed, max_moves, is_warning, current_move,
                 move_failures, confirmed>>

StartSearch(o) ==
  /\ Awake(o, "saved")
  /\ IF state[o] = "ENDED"
     THEN /\ start_at' = [start_at EXCEPT ![o] = "finished"]
          /\ tasks' = Tail(tasks)
          /\ UNCHANGED state
     ELSE /\ Goto(o, "WAITING_FOR_DRONE")
          /\ start_at' = [start_at EXCEPT ![o] =
                            IF VideoEnabled THEN "StartRecording" ELSE "finished"]
          /\ tasks' = Append(Tail(tasks), IF VideoEnabled
                                          THEN Await(o, "StartRecording")
                                          ELSE GetPhoto(o))
  /\ UNCHANGED <<pending_command, moves_performed, max_moves, is_warning,
                 current_move, move_failures, confirmed>>

StartFirstPhoto(o) ==
  /\ Awake(o, "recorded")
  /\ start_at' = [start_at EXCEPT ![o] = "finished"]
  /\ tasks' = Append(Tail(tasks), GetPhoto(o))
  /\ UNCHANGED <<state, pending_command, moves_performed, max_moves, is_warning,
                 current_move, move_failures, confirmed>>

-----------------------------------------------------------------------------
(* Event handlers *)

HandlePhotoAndTelemetry(o) ==
  /\ Handles(o, "PhotoWithTelemetryReceived")
  /\ tasks' = Append(Rest(o), [type |-> "AnalyzePhoto", by |-> o, photo |-> Task.photo,
                               is_warning |-> is_warning[o]])
  /\ is_warning' = [is_warning EXCEPT ![o] = FALSE]
  /\ Goto(o, "WAITING_FOR_VLM")
  /\ UNCHANGED <<pending_command, moves_performed, max_moves, current_move,
                 move_failures, start_at, confirmed>>

\* Slip: one glimpse too many.
HandleVlmAnalysisOffByOne(o) ==
  /\ Handles(o, "VlmAnalysisCompleted")
  /\ IF Task.found \/ moves_performed[o] > max_moves[o]
     THEN Terminate(o, Append(Rest(o), Await(o, "SaveSession")))
     ELSE /\ Goto(o, "WAITING_FOR_USER")
          /\ tasks' = Rest(o) \o <<Await(o, "SaveSession"),
                                   [type |-> "AskUserConfirmation", by |-> o,
                                    move |-> Task.move]>>
  /\ UNCHANGED <<pending_command, moves_performed, max_moves, is_warning,
                 current_move, move_failures, start_at, confirmed>>

HandleVlmAnalysis(o) ==
  /\ Handles(o, "VlmAnalysisCompleted")
  /\ LET saved == Append(Rest(o), Await(o, "SaveSession"))
     IN  IF Task.found \/ moves_performed[o] >= max_moves[o]
         THEN Terminate(o, saved)
         ELSE /\ Goto(o, "WAITING_FOR_USER")
              /\ tasks' = Append(saved, [type |-> "AskUserConfirmation", by |-> o,
                                         move |-> Task.move])
  /\ UNCHANGED <<pending_command, moves_performed, max_moves, is_warning,
                 current_move, move_failures, start_at, confirmed>>

\* Slip: the first move is kept.
UserConfirmsFirstMove(o) ==
  /\ Handles(o, "UserDecisionReceived")
  /\ Task.decision = "CONFIRMED"
  /\ current_move' = [current_move EXCEPT ![o] = IF @ = NoMove THEN Task.move ELSE @]
  /\ move_failures' = [move_failures EXCEPT ![o] = 0]
  /\ Goto(o, "WAITING_FOR_ACK")
  /\ tasks' = Append(Rest(o), ExecuteMove(o, Task.move))
  /\ confirmed' = [confirmed EXCEPT ![o] = @ + 1]
  /\ UNCHANGED <<pending_command, moves_performed, max_moves, is_warning, start_at>>

UserConfirms(o) ==
  /\ Handles(o, "UserDecisionReceived")
  /\ Task.decision = "CONFIRMED"
  /\ current_move' = [current_move EXCEPT ![o] = Task.move]
  /\ move_failures' = [move_failures EXCEPT ![o] = 0]
  /\ Goto(o, "WAITING_FOR_ACK")
  /\ tasks' = Append(Rest(o), ExecuteMove(o, Task.move))
  /\ confirmed' = [confirmed EXCEPT ![o] = @ + 1]
  /\ UNCHANGED <<pending_command, moves_performed, max_moves, is_warning, start_at>>

UserWarns(o) ==
  /\ Handles(o, "UserDecisionReceived")
  /\ Task.decision = "WARNING"
  /\ is_warning' = [is_warning EXCEPT ![o] = TRUE]
  /\ Goto(o, "WAITING_FOR_DRONE")
  /\ tasks' = Append(Rest(o), GetPhoto(o))
  /\ UNCHANGED <<pending_command, moves_performed, max_moves, current_move,
                 move_failures, start_at, confirmed>>

\* Slip: no return after the end of the mission.
UserCancelsAndFlies(o) ==
  /\ Handles(o, "UserDecisionReceived")
  /\ Task.decision = "CANCELLED"
  /\ Terminate(o, Append(Rest(o), ExecuteMove(o, Task.move)))
  /\ UNCHANGED <<pending_command, moves_performed, max_moves, is_warning,
                 current_move, move_failures, start_at, confirmed>>

UserCancels(o) ==
  /\ Handles(o, "UserDecisionReceived")
  /\ Task.decision = "CANCELLED"
  /\ Terminate(o, Rest(o))
  /\ UNCHANGED <<pending_command, moves_performed, max_moves, is_warning,
                 current_move, move_failures, start_at, confirmed>>

\* Slip: the acknowledgement is taken for the end of the flight.
HandleMoveStartedAsExecuted(o) ==
  /\ Handles(o, "MoveStarted")
  /\ Goto(o, "WAITING_FOR_DRONE")
  /\ tasks' = Append(Rest(o), GetPhoto(o))
  /\ UNCHANGED <<pending_command, moves_performed, max_moves, is_warning,
                 current_move, move_failures, start_at, confirmed>>

HandleMoveStarted(o) ==
  /\ Handles(o, "MoveStarted")
  /\ Goto(o, "FLYING")
  /\ tasks' = Rest(o)
  /\ UNCHANGED <<pending_command, moves_performed, max_moves, is_warning,
                 current_move, move_failures, start_at, confirmed>>

MoveSucceeded(o) ==
  /\ Handles(o, "MoveExecuted")
  /\ Task.ok
  /\ move_failures' = [move_failures EXCEPT ![o] = 0]
  /\ moves_performed' = [moves_performed EXCEPT ![o] = @ + 1]
  /\ Goto(o, "WAITING_FOR_DRONE")
  /\ tasks' = Append(Rest(o), GetPhoto(o))
  /\ UNCHANGED <<pending_command, max_moves, is_warning, current_move, start_at,
                 confirmed>>

MaxMoveFailures == 3

\* Slip: failures are not counted.
MoveFailedUncounted(o) ==
  /\ Handles(o, "MoveExecuted")
  /\ ~Task.ok
  /\ Goto(o, "WAITING_FOR_ACK")
  /\ tasks' = Append(Rest(o), ExecuteMove(o, current_move[o]))
  /\ UNCHANGED <<pending_command, moves_performed, max_moves, is_warning,
                 current_move, move_failures, start_at, confirmed>>

MoveFailed(o) ==
  /\ Handles(o, "MoveExecuted")
  /\ ~Task.ok
  /\ move_failures' = [move_failures EXCEPT ![o] = @ + 1]
  /\ IF move_failures[o] + 1 >= MaxMoveFailures
     THEN Terminate(o, Rest(o))
     ELSE /\ Goto(o, "WAITING_FOR_ACK")
          /\ tasks' = Append(Rest(o), ExecuteMove(o, current_move[o]))
  /\ UNCHANGED <<pending_command, moves_performed, max_moves, is_warning,
                 current_move, start_at, confirmed>>

\* Slip: the move is remembered instead of the command.
ConnectionLostKeepsMove(o) ==
  /\ Handles(o, "DroneConnectionLost")
  /\ pending_command' = [pending_command EXCEPT ![o] = current_move[o]]
  /\ Goto(o, "PAUSED")
  /\ tasks' = Rest(o)
  /\ UNCHANGED <<moves_performed, max_moves, is_warning, current_move,
                 move_failures, start_at, confirmed>>

\* FLYING is not paused: the drone is trusted to report when it has landed.
HandleDroneConnectionLost(o) ==
  /\ Handles(o, "DroneConnectionLost")
  /\ pending_command' = [pending_command EXCEPT ![o] =
                           IF state[o] = "WAITING_FOR_DRONE"
                           THEN GetPhoto(o)
                           ELSE ExecuteMove(o, current_move[o])]
  /\ Goto(o, "PAUSED")
  /\ tasks' = Rest(o)
  /\ UNCHANGED <<moves_performed, max_moves, is_warning, current_move,
                 move_failures, start_at, confirmed>>

\* Slip: pending_command is not reset.
ReconnectedKeepsPending(o) ==
  /\ Handles(o, "DroneReconnected")
  /\ Goto(o, IF pending_command[o].type = "GetPhoto" THEN "WAITING_FOR_DRONE"
                                                    ELSE "WAITING_FOR_ACK")
  /\ tasks' = Append(Rest(o), pending_command[o])
  /\ UNCHANGED <<pending_command, moves_performed, max_moves, is_warning, current_move,
                 move_failures, start_at, confirmed>>

\* The interrupted command is sent again, whatever became of the first one.
HandleDroneReconnected(o) ==
  /\ Handles(o, "DroneReconnected")
  /\ state' = [state EXCEPT ![o] =
                 CASE pending_command[o].type = "GetPhoto"    -> "WAITING_FOR_DRONE"
                   [] pending_command[o].type = "ExecuteMove" -> "WAITING_FOR_ACK"
                   [] OTHER                                   -> @]
  /\ tasks' = IF pending_command[o] = NoCommand
              THEN Rest(o)
              ELSE Append(Rest(o), pending_command[o])
  /\ pending_command' = [pending_command EXCEPT ![o] = NoCommand]
  /\ UNCHANGED <<moves_performed, max_moves, is_warning, current_move,
                 move_failures, start_at, confirmed>>

\* A normal disconnect ends the mission, an error of the drone, the VLM or the
\* chat storage aborts it, in any state.
Fatal == {"DroneDisconnected", "DroneErrorOccurred"} \cup ChatNotice

HandleFatal(o) ==
  /\ \E type \in Fatal : Handles(o, type)
  /\ Terminate(o, Rest(o))
  /\ UNCHANGED <<pending_command, moves_performed, max_moves, is_warning,
                 current_move, move_failures, start_at, confirmed>>

\* The early returns: not my drone or mission, or not a state that waits for it.
Ignore(o) ==
  /\ EventFor(o)
  /\ ~Handles(o, Task.type)
  /\ tasks' = Rest(o)
  /\ UNCHANGED orchVars

Handle(o) ==
  \/ StartSave(o) \/ StartSearch(o) \/ StartFirstPhoto(o)
  \/ HandlePhotoAndTelemetry(o) \/ HandleVlmAnalysis(o)
  \/ UserConfirms(o) \/ UserWarns(o) \/ UserCancels(o)
  \/ HandleMoveStarted(o) \/ MoveSucceeded(o) \/ MoveFailed(o)
  \/ HandleDroneConnectionLost(o) \/ HandleDroneReconnected(o)
  \/ HandleFatal(o) \/ Ignore(o)

-----------------------------------------------------------------------------
(* The open environment *)

\* The component that subscribes to the command takes it.
TakeCommand ==
  /\ tasks # <<>>
  /\ Task.type \in CommandTypes
  /\ tasks' = Tail(tasks)
  /\ UNCHANGED orchVars

Announce(e) == /\ Len(tasks) < MaxTasks
               /\ tasks' = Publish(tasks, e)
               /\ UNCHANGED orchVars

DroneSpeaks ==
  \E d \in Drones :
    \/ \E type \in DroneNotice :
         Announce([type |-> type, drone |-> d, to |-> Subscribed])
    \/ \E ok \in BOOLEAN :
         Announce([type |-> "MoveExecuted", drone |-> d, ok |-> ok, to |-> Subscribed])
    \/ \E p \in Photos :
         Announce([type |-> "PhotoWithTelemetryReceived", drone |-> d, photo |-> p,
                   to |-> Subscribed])

ChatSpeaks ==
  \E c \in Missions :
    \/ \E type \in ChatNotice :
         Announce([type |-> type, mission |-> c, to |-> Subscribed])
    \/ \E found \in BOOLEAN, m \in Moves :
         Announce([type |-> "VlmAnalysisCompleted", mission |-> c, found |-> found,
                   move |-> m, to |-> Subscribed])

OperatorSpeaks ==
  \E c \in Missions, decision \in Decisions, m \in Moves :
    Announce([type |-> "UserDecisionReceived", mission |-> c, decision |-> decision,
              move |-> m, to |-> Subscribed])

Init ==
  /\ state = [o \in Orchs |-> "NEW"]
  /\ pending_command = [o \in Orchs |-> NoCommand]
  /\ moves_performed = [o \in Orchs |-> 0]
  /\ max_moves = [o \in Orchs |-> 0]
  /\ is_warning = [o \in Orchs |-> FALSE]
  /\ current_move = [o \in Orchs |-> NoMove]
  /\ move_failures = [o \in Orchs |-> 0]
  /\ start_at = [o \in Orchs |-> "none"]
  /\ confirmed = [o \in Orchs |-> 0]
  /\ tasks = <<>>

Next ==
  \/ \E o \in Orchs :
       \/ \E g \in Glimpses, prompt_ok \in BOOLEAN : Start(o, g, prompt_ok, tasks)
       \/ AwaitedDone(o)
       \/ StartCancelled(o)
       \/ Handle(o)
  \/ TakeCommand
  \/ DroneSpeaks \/ ChatSpeaks \/ OperatorSpeaks

Spec == Init /\ [][Next]_vars

-----------------------------------------------------------------------------
(* Properties *)

TypeOK ==
  /\ state \in [Orchs -> MissionState]
  /\ pending_command \in [Orchs -> {NoCommand} \cup Command]
  /\ moves_performed \in [Orchs -> Nat]
  /\ max_moves \in [Orchs -> Int]
  /\ is_warning \in [Orchs -> BOOLEAN]
  /\ current_move \in [Orchs -> Moves \cup {NoMove}]
  /\ move_failures \in [Orchs -> Nat]
  /\ start_at \in [Orchs -> StartAt]
  /\ confirmed \in [Orchs -> Nat]
  /\ tasks \in Seq(Event \cup Command \cup WakeUp)

\* A confirmed move the orchestrator has not counted yet.
MoveOpen(o) == \/ state[o] \in {"WAITING_FOR_ACK", "FLYING"}
               \/ state[o] = "PAUSED" /\ pending_command[o].type = "ExecuteMove"

(* Whatever is lost, repeated or late, the drone is never credited with more *)
(* moves than the operator confirmed, and no more moves are confirmed than   *)
(* the glimpses allow (glimpses - 1, or none at all): handle_vlm_analysis    *)
(* ends the mission before it asks for one more.                             *)
MoveBudget ==
  \A o \in Orchs :
    /\ moves_performed[o] <= confirmed[o]
    /\ confirmed[o] <= moves_performed[o] + 1
    /\ confirmed[o] = 0 \/ confirmed[o] <= max_moves[o]

(* A mission under way owes the drone exactly the move it has not counted:   *)
(* every state but those of an open move agrees with the operator about the  *)
(* number of moves made, also after a pause, a failed move and its retries.  *)
MovesAccounted ==
  \A o \in Subscribed :
    confirmed[o] = moves_performed[o] + (IF MoveOpen(o) THEN 1 ELSE 0)

(* A pause can always be left: it remembers the command it interrupted, that *)
(* command is the one its state was waiting for, and a move to repeat is a   *)
(* real move and not the None that send_move refuses.                        *)
PauseResumable ==
  \A o \in Subscribed :
    /\ state[o] = "PAUSED" <=> pending_command[o] # NoCommand
    /\ pending_command[o] \in {NoCommand, GetPhoto(o)}
                                \cup {ExecuteMove(o, m) : m \in Moves}
    /\ pending_command[o].type = "ExecuteMove"
         => pending_command[o] = ExecuteMove(o, current_move[o])

(* Tasks of one type that o has published and nobody has taken.              *)
Outstanding(o, type) == {i \in 1..Len(tasks) : tasks[i].type = type /\ tasks[i].by = o}

(* A mission that has ended is silent: handlers still queued for it, and the *)
(* start() coroutine that wakes up after the end, command no further flight. *)
NoFlightAfterEnd ==
  [][\A o \in Orchs :
       state[o] = "ENDED" =>
         /\ state'[o] = "ENDED"
         /\ Cardinality(Outstanding(o, "ExecuteMove")')
              <= Cardinality(Outstanding(o, "ExecuteMove"))]_vars

(* An end is announced once: while the mission runs no SearchEnded of it is  *)
(* queued, and a later error cannot announce a second one.                   *)
OneFarewell ==
  \A o \in Orchs :
    /\ o \in Subscribed => Outstanding(o, "SearchEnded") = {}
    /\ \A i, j \in Outstanding(o, "SearchEnded") : i = j

-----------------------------------------------------------------------------
(* The promise of HumanInTheLoop *)

Stage(o) ==
  CASE state[o] = "NEW"              -> "new"
    [] state[o] = "ENDED"            -> "over"
    [] state[o] = "WAITING_FOR_USER" -> "asking"
    [] MoveOpen(o)                   -> "moving"
    [] OTHER                         -> "looking"

Ordered(o) == {tasks[i].move : i \in Outstanding(o, "ExecuteMove")}

Promise == INSTANCE HumanInTheLoop
             WITH Missions <- Orchs,
                  Budgets <- {g - 1 : g \in Glimpses},
                  stage <- [o \in Orchs |-> Stage(o)],
                  approved <- current_move,
                  made <- moves_performed,
                  budget <- max_moves,
                  orders <- [o \in Orchs |-> Ordered(o)]

(* Whatever the drone, the network, the VLM and the operator do and in       *)
(* whichever order their events are handled, the orchestrator keeps the      *)
(* promise: only the move approved last is ever ordered, again after a       *)
(* failure or a pause but never outside of its approval, a move is counted   *)
(* at most once per approval, and an end is final.                           *)
KeepsPromise == Promise!Spec
=============================================================================
