----------------------------- MODULE SearchSystem -----------------------------
(***************************************************************************)
(* A search mission end to end: the orchestrator and its bus               *)
(* (SearchOrchestrator), the drone bridge (DroneBridge), the connections   *)
(* (DroneLink), the drone's process (DroneClient), the chat sessions of    *)
(* the VLM bridge (mission_control/ai/vision/vlm_bridge.py) and the        *)
(* operator at the CLI and the web GUI (mission_control/ui/).              *)
(*                                                                         *)
(* Everything on mission control runs on one event loop.  The tasks of the *)
(* bus are taken in order; what the network, the VLM and the operator do   *)
(* comes between any two of them.                                          *)
(***************************************************************************)
EXTENDS DroneBridge, DroneClient

CONSTANTS
  UIs,          \* user interfaces that show the mission: "cli", "web"
  ChatFails,    \* may the VLM or the chat storage fail?
  Losses,       \* how connections are lost: subset of {"break", "shutdown"}
  MaxLosses,    \* bound on them
  MaxWarnings,  \* bound on the operator's warnings
  Prompt        \* no ready task waits while a drone flies or its process starts

\* Recordings are not part of this composition.
ASSUME SystemAssumption ==
  /\ ~VideoEnabled
  /\ UIs \subseteq {"cli", "web"}
  /\ ChatFails \in BOOLEAN
  /\ Losses \subseteq {"break", "shutdown"}
  /\ MaxLosses \in Nat /\ MaxWarnings \in Nat
  /\ Prompt \in BOOLEAN

VARIABLES
  conversations,  \* keys of VLMBridge.conversations
  jobs,           \* handlers holding or awaiting the lock of a chat, in order
  pending_ui,     \* the AskUserConfirmation each UI shows, or NoCommand
  proposed,       \* history: the move the orchestrator proposed last
  cancelled,      \* history: missions the operator has cancelled
  inferences,     \* history: photos taken to the VLM
  losses, warnings

chatVars == <<conversations, jobs>>
operatorVars == <<pending_ui, warnings>>
historyVars == <<proposed, cancelled, inferences>>
missionVars == <<orchVars, tasks>>
droneVars == <<clientVars, linkVars>>
systemVars == <<missionVars, bridgeVars, droneVars, chatVars, operatorVars,
                historyVars, losses>>

-----------------------------------------------------------------------------
(* The orchestrator *)

OrchestratorStep(o) ==
  /\ \/ AwaitedDone(o) /\ jobs[MissionOf[o]] = <<>>
     \/ Handle(o)
  /\ cancelled' = IF UserCancels(o) THEN cancelled \cup {o} ELSE cancelled
  /\ proposed' = [proposed EXCEPT ![o] =
                    IF state[o] # "WAITING_FOR_USER" /\ state'[o] = "WAITING_FOR_USER"
                    THEN Task.move ELSE @]
  /\ UNCHANGED <<bridgeVars, droneVars, chatVars, operatorVars, inferences, losses>>

\* The operator starts the mission; the manager is modelled in MissionManager.
StartMission(o) ==
  /\ \E g \in Glimpses : Start(o, g, TRUE, tasks)
  /\ UNCHANGED <<bridgeVars, droneVars, chatVars, operatorVars, historyVars, losses>>

-----------------------------------------------------------------------------
(* The chat sessions of the VLM bridge *)

Taken(type) == tasks # <<>> /\ Task.type = type
Chat == MissionOf[Task.by]
ChatNews(type, m) == [type |-> type, mission |-> m, to |-> Subscribed]

\* A chat that is there is an error, and so is a model that cannot be set up.
HandleCreateNewSession ==
  /\ Taken("CreateNewSession")
  /\ \/ /\ Chat \in conversations \/ ChatFails
        /\ tasks' = Publish(Tail(tasks), ChatNews("ChatErrorOccurred", Chat))
        /\ UNCHANGED conversations
     \/ /\ Chat \notin conversations
        /\ tasks' = Tail(tasks)
        /\ conversations' = conversations \cup {Chat}
  /\ UNCHANGED <<jobs, inferences>>

\* A chat that is not there is an error; a chat that is there is locked.
UseChat(job, error) ==
  /\ IF Chat \in conversations
     THEN /\ jobs' = [jobs EXCEPT ![Chat] = Append(@, job)]
          /\ tasks' = Tail(tasks)
     ELSE /\ tasks' = Publish(Tail(tasks), ChatNews(error, Chat))
          /\ UNCHANGED jobs
  /\ UNCHANGED conversations

HandleSaveSession ==
  /\ Taken("SaveSession")
  /\ UseChat([type |-> "save"], "ChatErrorOccurred")
  /\ UNCHANGED inferences

HandleAnalyzePhoto ==
  /\ Taken("AnalyzePhoto")
  /\ UseChat([type |-> "analysis", photo |-> Task.photo], "VlmErrorOccurred")
  /\ inferences' = [inferences EXCEPT ![Task.by] = @ + 1]

HandleDeleteSession ==
  /\ Taken("DeleteSession")
  /\ conversations' = conversations \ {Chat}
  /\ tasks' = Tail(tasks)
  /\ UNCHANGED <<jobs, inferences>>

\* The model and the storage answer at leisure.  A chat deleted while a handler
\* waited for its lock is a KeyError, reported like every other failure; so is
\* a photo that is missing.
CanFail(m) == ChatFails \/ m \notin conversations
Job(m, type) == jobs[m] # <<>> /\ Head(jobs[m]).type = type

FinishSave(m) ==
  /\ Job(m, "save")
  /\ \/ UNCHANGED tasks
     \/ CanFail(m) /\ tasks' = Publish(tasks, ChatNews("ChatErrorOccurred", m))

FinishAnalysis(m) ==
  /\ Job(m, "analysis")
  /\ \/ Head(jobs[m]).photo # NoPhoto /\ \E found \in BOOLEAN, move \in Moves :
          tasks' = Publish(tasks, [type |-> "VlmAnalysisCompleted", mission |-> m,
                                   found |-> found, move |-> move, to |-> Subscribed])
     \/ /\ CanFail(m) \/ Head(jobs[m]).photo = NoPhoto
        /\ tasks' = Publish(tasks, ChatNews("VlmErrorOccurred", m))

ChatStep(m) ==
  /\ FinishSave(m) \/ FinishAnalysis(m)
  /\ jobs' = [jobs EXCEPT ![m] = Tail(@)]
  /\ UNCHANGED <<orchVars, bridgeVars, droneVars, conversations, operatorVars,
                 historyVars, losses>>

-----------------------------------------------------------------------------
(* The operator *)

\* cli_handler.ask_move_confirmation and web_server.handle_ask_confirmation:
\* two tasks of one event, with nothing in between.
HandleAsk ==
  /\ Taken("AskUserConfirmation")
  /\ pending_ui' = [u \in UIs |-> Task]

\* cli_handler.handle_search_end and web_server.handle_search_ended
HandleSearchEnded ==
  /\ Taken("SearchEnded")
  /\ pending_ui' = [u \in UIs |-> IF pending_ui[u] # NoCommand
                                     /\ pending_ui[u].by = Task.by
                                  THEN NoCommand ELSE pending_ui[u]]

\* A UI that shows a move sends the decision with that move and shows it no
\* longer.  The other UI is not told.
Decide(u, decision) ==
  /\ pending_ui[u] # NoCommand
  /\ decision = "WARNING" => warnings < MaxWarnings
  /\ warnings' = IF decision = "WARNING" THEN warnings + 1 ELSE warnings
  /\ tasks' = Publish(tasks, [type |-> "UserDecisionReceived",
                              mission |-> MissionOf[pending_ui[u].by],
                              decision |-> decision, move |-> pending_ui[u].move,
                              to |-> Subscribed])
  /\ pending_ui' = [pending_ui EXCEPT ![u] = NoCommand]

OperatorStep(u) ==
  /\ \E decision \in Decisions : Decide(u, decision)
  /\ UNCHANGED <<orchVars, bridgeVars, droneVars, chatVars, historyVars, losses>>

-----------------------------------------------------------------------------
(* The event loop takes the command at the head of its queue *)

ChatCommand ==
  /\ \/ HandleCreateNewSession \/ HandleSaveSession \/ HandleAnalyzePhoto
     \/ HandleDeleteSession
  /\ UNCHANGED <<orchVars, bridgeVars, droneVars, operatorVars, proposed, cancelled,
                 losses>>

OperatorCommand ==
  /\ HandleAsk \/ HandleSearchEnded
  /\ tasks' = Tail(tasks)
  /\ UNCHANGED <<orchVars, bridgeVars, droneVars, chatVars, warnings, historyVars,
                 losses>>

DroneCommand ==
  /\ HandleGetPhoto \/ SendMove
  /\ UNCHANGED <<clientVars, chatVars, operatorVars, historyVars, losses>>

LoopStep ==
  \/ \E o \in Orchs : OrchestratorStep(o)
  \/ ChatCommand \/ OperatorCommand \/ DroneCommand

-----------------------------------------------------------------------------
(* The server's connections and the drones *)

ServerStep(c) ==
  /\ \/ Serve(c)
     \/ Notice(c) /\ UNCHANGED <<bridgeVars, missionVars>>
  /\ UNCHANGED <<clientVars, chatVars, operatorVars, historyVars, losses>>

\* A flight takes seconds and so does the start of a process; a task of the bus
\* is ready to run at once.  Without Prompt the event loop may be slower.
LoopIsIdle == Prompt => tasks = <<>>

DroneStep(d) ==
  /\ Dispatch(d) \/ (FinishMove(d) /\ LoopIsIdle) \/ ConnectionGone(d)
  /\ UNCHANGED <<bridgeVars, missionVars, chatVars, operatorVars, historyVars, losses>>

\* A slot nobody uses: no handler, no process and no entry of the registry.
FreeSlot(c) == /\ handler[c] = "none"
               /\ \A d \in Drones : proc[d] # c /\ connected[d] # c

\* The operator (re)starts the drone's process.
RestartDrone(d) ==
  /\ LoopIsIdle
  /\ \E c \in Conns :
       /\ FreeSlot(c)
       /\ \A b \in Conns : FreeSlot(b) => c <= b
       /\ StartProcess(d, c)
       /\ handler' = [handler EXCEPT ![c] = "auth"]
  /\ UNCHANGED <<connected, disconnected, missionVars, chatVars, operatorVars,
                 historyVars, losses>>

ConnectionLost ==
  /\ losses < MaxLosses
  /\ losses' = losses + 1
  /\ \/ "break" \in Losses /\ \E c \in Conns : Break(c) /\ UNCHANGED clientVars
     \/ "shutdown" \in Losses /\ \E d \in Drones : Shutdown(d)
  /\ UNCHANGED <<bridgeVars, missionVars, chatVars, operatorVars, historyVars>>

-----------------------------------------------------------------------------
SystemInit ==
  /\ Init
  /\ BridgeInit
  /\ ClientInit(Drones)
  /\ conversations = {}
  /\ jobs = [m \in Missions |-> <<>>]
  /\ pending_ui = [u \in UIs |-> NoCommand]
  /\ proposed = [o \in Orchs |-> NoMove]
  /\ cancelled = {}
  /\ inferences = [o \in Orchs |-> 0]
  /\ losses = 0
  /\ warnings = 0

SystemNext ==
  \/ LoopStep
  \/ \E o \in Orchs : StartMission(o)
  \/ \E m \in Missions : ChatStep(m)
  \/ \E u \in UIs : OperatorStep(u)
  \/ \E c \in Conns : ServerStep(c)
  \/ \E d \in Drones : DroneStep(d) \/ RestartDrone(d)
  \/ ConnectionLost

SystemSpec == SystemInit /\ [][SystemNext]_systemVars

\* The event loop runs what is ready, the model and the disk answer, the
\* operator decides and restarts a drone whose process has ended, the network
\* delivers, and the keepalive finds out about a connection that is gone.
Fairness ==
  /\ WF_systemVars(LoopStep)
  /\ \A m \in Missions : WF_systemVars(ChatStep(m))
  /\ \A u \in UIs : WF_systemVars(OperatorStep(u))
  /\ \A c \in Conns : WF_systemVars(ServerStep(c))
  /\ \A d \in Drones : WF_systemVars(DroneStep(d)) /\ WF_systemVars(RestartDrone(d))

FairSystem == SystemSpec /\ Fairness

-----------------------------------------------------------------------------
(* Properties *)

Of(queue, type) == Cardinality({i \in 1..Len(queue) : queue[i].type = type})

\* Moves of drone d that are commanded and not flown yet.
MovesUnderWay(d) ==
  Cardinality({i \in 1..Len(tasks) : /\ tasks[i].type = "ExecuteMove"
                                     /\ DroneOf[tasks[i].by] = d})
    + flying[d]
    + (IF proc[d] = NoConn THEN 0 ELSE Of(to_drone[proc[d]], "MOVE"))

\* What the drone of o has said about a move and o has not heard.
Unheard(o) ==
  LET c == proc[DroneOf[o]]
  IN  Cardinality({i \in 1..Len(tasks) :
                     /\ tasks[i].type \in {"MoveStarted", "MoveExecuted"}
                     /\ o \in tasks[i].to /\ Concerns(o, tasks[i])})
        + (IF c = NoConn THEN 0 ELSE Of(to_server[c], "ACK_MOVE")
                                       + Of(to_server[c], "MOVE_EXECUTED"))

(* While a mission waits for a photo, for the VLM or for the operator, its   *)
(* drone stands still: no move is queued, sent or flown, and nothing said    *)
(* about an earlier one is still on its way to be taken for news of the next.*)
DroneStandsStill ==
  \A o \in Orchs :
    state[o] \in {"IDLE", "WAITING_FOR_DRONE", "WAITING_FOR_VLM", "WAITING_FOR_USER"}
      => MovesUnderWay(DroneOf[o]) + Unheard(o) = 0

(* Photos of a mission under way that the VLM is to analyse show the place   *)
(* the drone is at: none was taken before the last move.                     *)
PhotoIsCurrent ==
  \A o \in Subscribed :
    LET shows(photo) == photo \in {NoPhoto, flights[DroneOf[o]]}
        waiting == jobs[MissionOf[o]]
    IN  /\ \A i \in 1..Len(tasks) :
             tasks[i].type = "AnalyzePhoto" /\ tasks[i].by = o => shows(tasks[i].photo)
        /\ \A i \in 1..Len(waiting) :
             waiting[i].type = "analysis" => shows(waiting[i].photo)

(* "We need to know, in case of connection loss, if command was delivered,   *)
(* and the move performed": a drone makes one flight for each move the       *)
(* operator confirmed, and its retries fly nothing twice.                    *)
OneFlightPerApproval ==
  \A o \in Orchs : flights[DroneOf[o]] + flying[DroneOf[o]] <= confirmed[o]

(* No loss, no repeated command and no late report makes a mission count a   *)
(* move that was not flown.                                                  *)
CountedMovesAreFlown ==
  \A o \in Orchs : moves_performed[o] <= flights[DroneOf[o]]

(* A move flown is the one the VLM proposed last, on the latest photo.       *)
ApprovedIsProposed ==
  \A o \in Orchs :
    state[o] \in {"WAITING_FOR_ACK", "FLYING"} => current_move[o] = proposed[o]

(* Once the operator has cancelled the mission the drone is never moved.     *)
CancelIsFinal ==
  \A o \in cancelled : MovesUnderWay(DroneOf[o]) = 0

(* "Maximum number of VLM inferences (moves) allowed": a mission takes no     *)
(* more photos to the VLM than the operator has allowed in `glimpses', of    *)
(* which start() keeps max_moves = glimpses - 1.                             *)
GlimpsesAreTheLimit ==
  \A o \in Orchs : inferences[o] > 0 => inferences[o] <= max_moves[o] + 1

(* Pauses, repeated photo requests and retried moves cost no inference; only *)
(* a warning of the operator does, and that one costs exactly one.           *)
WithinGlimpsesAndWarnings ==
  \A o \in Orchs :
    inferences[o] > 0 => inferences[o] <= max_moves[o] + 1 + warnings

(* A mission that waits for its drone to come back will hear of it: the      *)
(* drone is counted as lost, its connection is found broken next, or the     *)
(* news of its return is queued; unless the registry holds a connection that *)
(* nobody serves.                                                            *)
PauseIsNoticed ==
  \A o \in Orchs :
    state[o] = "PAUSED" /\ RegisteredIsServed =>
      \/ DroneOf[o] \in disconnected
      \/ \E i \in 1..Len(tasks) :
           tasks[i].type = "DroneReconnected" /\ tasks[i].drone = DroneOf[o]
      \/ \E c \in Conns : /\ connected[DroneOf[o]] = c
                          /\ handler[c] = "serving"
                          /\ wire[c] = "err"

(* "Emitted when the connection to the Physical Drone drops normally": when  *)
(* the handler of a drone ends with a normal close, DroneDisconnected is     *)
(* published and reaches the missions of that drone.                         *)
NormalCloseIsAnnounced ==
  [][\A c \in Conns :
       handler[c] = "serving" /\ handler'[c] = "none" /\ wire[c] = "ok" =>
         \A o \in Subscribed :
           DroneOf[o] = owner[c] =>
             \E i \in 1..Len(tasks') :
               /\ tasks'[i].type = "DroneDisconnected"
               /\ o \in tasks'[i].to]_systemVars

(* Without a loss every mission started with its drone connected comes to an *)
(* end: the drone and the VLM answer, and the budgets of glimpses, failures  *)
(* and warnings run out.                                                     *)
MissionEnds ==
  \A o \in Orchs :
    state[o] = "IDLE" /\ connected[DroneOf[o]] # NoConn ~> state[o] = "ENDED"

(* A mission paused by a lost connection goes on when the drone is back, as  *)
(* long as the registry holds no connection that nobody serves.              *)
PauseEnds ==
  \A o \in Orchs : state[o] = "PAUSED" /\ RegisteredIsServed ~> state[o] # "PAUSED"

(* "when FLYING drone always sends info after executing command": a flight   *)
(* that has begun is concluded for the mission too.                          *)
FlightConcludes == \A o \in Orchs : state[o] = "FLYING" ~> state[o] # "FLYING"
=============================================================================
