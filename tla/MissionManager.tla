---------------------------- MODULE MissionManager ----------------------------
(***************************************************************************)
(* mission_control/mission/mission_manager.py: the registry of running     *)
(* missions in front of the orchestrators of SearchOrchestrator.           *)
(*                                                                         *)
(* A StartMissionCommand names (`by') the orchestrator that will be        *)
(* created for it if it is accepted; its mission_id and drone_id are those *)
(* of that orchestrator.  A refused command creates none, and the name can *)
(* be used again.                                                          *)
(***************************************************************************)
EXTENDS SearchOrchestrator

CONSTANT PromptOk   \* outcomes of generate_prompt: TRUE, or FALSE if it raises

ASSUME ManagerAssumption == PromptOk \subseteq BOOLEAN

VARIABLE active   \* keys of active_missions

managerVars == <<vars, active>>

StartRequest == [type : {"StartMission"}, by : Orchs, glimpses : Glimpses,
                 prompt_ok : PromptOk]

-----------------------------------------------------------------------------
StartRefused ==
  /\ tasks # <<>>
  /\ Task.type = "StartMission"
  /\ MissionOf[Task.by] \in active
  /\ tasks' = Tail(tasks)
  /\ UNCHANGED <<orchVars, active>>

\* Slips: the guard is missing; the entry is made after start() has returned.
StartUnguarded ==
  /\ tasks # <<>>
  /\ Task.type = "StartMission"
  /\ Start(Task.by, Task.glimpses, Task.prompt_ok, Tail(tasks))
  /\ active' = active \cup {MissionOf[Task.by]}
StartUnregistered ==
  /\ tasks # <<>>
  /\ Task.type = "StartMission"
  /\ MissionOf[Task.by] \notin active
  /\ Start(Task.by, Task.glimpses, Task.prompt_ok, Tail(tasks))
  /\ UNCHANGED active

\* If start() raises, which it can only do before it first suspends, the
\* entry made just before is popped again.
HandleStartMission ==
  /\ tasks # <<>>
  /\ Task.type = "StartMission"
  /\ MissionOf[Task.by] \notin active
  /\ Start(Task.by, Task.glimpses, Task.prompt_ok, Tail(tasks))
  /\ active' = IF start_at'[Task.by] = "failed"
               THEN active
               ELSE active \cup {MissionOf[Task.by]}

\* Slip: the entry is never popped.
MissionEndedForgotten ==
  /\ tasks # <<>>
  /\ Task.type = "SearchEnded"
  /\ tasks' = Tail(tasks)
  /\ UNCHANGED <<orchVars, active>>

\* The entry is found by the mission id, whoever it was made for.
HandleMissionEnded ==
  /\ tasks # <<>>
  /\ Task.type = "SearchEnded"
  /\ active' = active \ {MissionOf[Task.by]}
  /\ tasks' = Tail(tasks)
  /\ UNCHANGED orchVars

\* Every other command, and every event, leaves the registry alone.
Elsewhere ==
  /\ \/ TakeCommand /\ Task.type # "SearchEnded"
     \/ \E o \in Orchs : AwaitedDone(o) \/ StartCancelled(o) \/ Handle(o)
     \/ DroneSpeaks \/ ChatSpeaks \/ OperatorSpeaks
  /\ UNCHANGED active

\* The CLI or the web server publishes a StartMissionCommand.
RequestStart(o) ==
  /\ state[o] = "NEW"
  /\ Len(tasks) < MaxTasks
  /\ \A i \in 1..Len(tasks) : tasks[i].type = "StartMission" => tasks[i].by # o
  /\ \E g \in Glimpses, ok \in PromptOk :
       tasks' = Append(tasks, [type |-> "StartMission", by |-> o, glimpses |-> g,
                               prompt_ok |-> ok])
  /\ UNCHANGED <<orchVars, active>>

\* What o waits for, or an error of its drone, which ends it at any time.  Closed
\* environments use it; the open one of this module lets the drone say anything.
DroneAnswers(o) ==
  \/ /\ state[o] \in {"WAITING_FOR_DRONE", "WAITING_FOR_ACK", "FLYING"}
     /\ DroneSpeaks
     /\ state[o] \in Expected(tasks'[Len(tasks')].type)
     /\ tasks'[Len(tasks')].type \notin {"DroneDisconnected", "DroneConnectionLost"}
     /\ tasks'[Len(tasks')].type = "MoveExecuted" => tasks'[Len(tasks')].ok
  \/ Announce([type |-> "DroneErrorOccurred", drone |-> DroneOf[o], to |-> Subscribed])

ManagerInit == Init /\ active = {}

ManagerNext ==
  \/ StartRefused \/ HandleStartMission \/ HandleMissionEnded
  \/ Elsewhere
  \/ \E o \in Orchs : RequestStart(o)

ManagerSpec == ManagerInit /\ [][ManagerNext]_managerVars

-----------------------------------------------------------------------------
(* Properties *)

(* handle_start_mission refuses an id that is running: two orchestrators of  *)
(* one mission id, which would both react to its VLM answers and decisions,  *)
(* never run together.                                                       *)
OneLivePerMission ==
  \A o, p \in Subscribed : MissionOf[o] = MissionOf[p] => o = p

(* A mission under way stays registered, and the clean-up of an earlier run  *)
(* of its id is over: no SearchEnded that would unregister it and no         *)
(* DeleteSession that would delete its conversation is still queued.         *)
RunsAreSeparate ==
  \A o \in Subscribed :
    /\ MissionOf[o] \in active
    /\ \A i \in 1..Len(tasks) :
         tasks[i].type \in {"SearchEnded", "DeleteSession"}
           => MissionOf[tasks[i].by] # MissionOf[o]

(* An id is free again after its mission: it stays registered only while an  *)
(* orchestrator runs under it or its SearchEnded is still on the way.        *)
IdIsReleased ==
  \A m \in active :
    \/ \E o \in Subscribed : MissionOf[o] = m
    \/ \E i \in 1..Len(tasks) :
         tasks[i].type = "SearchEnded" /\ MissionOf[tasks[i].by] = m
=============================================================================
