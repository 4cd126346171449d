# FlySearch: a verification project

FlySearch lets a vision language model (VLM) search for an object with a drone,
one approved move at a time. This directory holds TLA+ specifications of it, the
TLC configurations that check them on small instances, and proofs about them.
Paths of the code are relative to `src/`.

## 1. Inventory

The program is two Python processes. *Mission control* runs on a laptop, in one
asyncio event loop. *Drone control* runs on the drone's Raspberry Pi, in threads.
One WebSocket connection per drone, opened by the drone, joins them.

```
 operator --- CLI, web GUI --.                              .-- camera, recorder
                              \                            /
 VLM ---- VLM bridge --- event bus --- drone bridge ==== drone's router -- autopilot
                              /            (WebSocket)
   mission manager, orchestrators
```

| Part | Code | State it keeps | Operations | What makes it correct |
|---|---|---|---|---|
| Event bus | `mission_control/core/event_bus.py` | subscribers per event type, background tasks | subscribe, unsubscribe, publish (with or without waiting) | each handler subscribed at publication runs once, in publication order |
| Mission orchestrator | `mission_control/mission/search_orchestrator.py` | mission state, counters, current move, pending command | start, 11 event handlers, abort, terminate | budget of glimpses, counted moves, resumable pauses, one end, silence after it |
| Mission manager | `mission_control/mission/mission_manager.py` | running missions by id | start a mission, forget it | one run per id at a time, ids released |
| Drone bridge | `mission_control/drone_comm/drone_bridge.py` | registry of connected drones, drones lost | authenticate, serve, send commands, end | one served connection per drone, losses and returns reported |
| Connections | libraries `websockets`, `websocket-client` | messages under way | send, receive, close, break | external |
| Drone's process | `drone_control/bridges`, `managers`, `command_registry` | authenticated flag, move threads | AUTH, photo, move, exit | one flight per MOVE, one report per flight |
| VLM bridge | `mission_control/ai/vision/vlm_bridge.py` | conversations and their locks | create, save, analyse, delete, load, change model | one question at a time, sessions end with their missions, no lock is kept |
| Operator interfaces | `mission_control/ui/` | the proposal shown, the active mission | show, decide, start | the decision is about the move shown and reaches the mission that asked |
| Conversations, chat storage | `mission_control/ai/conversation/` | messages, open transaction | begin, add, commit, rollback, save, load | roles alternate, a failed send leaves no trace |
| Video helper | `mission_control/drone_comm/video_helper.py` | futures of recording commands, open transfers | recording commands, acks, chunks | an ack answers its own command, a pulled file is whole |
| Recording, camera, MAVLink | `drone_control/sensors`, `actuators` | reference counts, shared camera, shared MAVLink connection | start, stop, capture, read, fly | recording stops with its last owner, one owner of a device |
| Session log, storage, parsers, prompts, overlay | `drone_control/managers/session_log_manager.py`, `mission_control/utils`, ... | files | write, format, draw | formatting; outcomes appear in the models |

**Interaction.** Everything in mission control talks over the bus. `publish`
creates one task per subscribed handler and does not suspend; the loop runs ready
tasks first in, first out. The orchestrator's handlers never suspend, so each is
one atomic step; `start()` suspends three times, on commands it publishes and
waits for, and what happens meanwhile is seen only where it looks. Other
handlers suspend on the network, the model or a file, and anything may come
between. A drone event carries the drone's id and a chat event the mission's;
neither carries a sequence number.

**What is hard.** Events published before and handled after a change of state;
a connection that breaks at any point of a two-phase move; loss noticed by two
parties at two times; a drone that comes back before its loss is noticed;
commands repeated after a pause; `start()` overtaken by an error; a mission id
used again while saves and analyses of its earlier run are suspended; futures of
recording commands that are shared by all drones; one recording shared by several
missions; two threads that open, close and use one MAVLink connection without a
lock; a question shown in two interfaces and on pages that lag behind.
`PROJECT.json` lists every hazard found, with its line in the code and the
properties that watch it, or the reason why none does.

## 2. Modules

| Module | Models | Variables |
|---|---|---|
| `HumanInTheLoop` | what a mission promises, without queue, pauses, retries and network | `stage`, `approved`, `made`, `budget`, `orders` |
| `SearchOrchestrator` | the orchestrator and the bus it runs on, in an environment that may publish any event at any time | one function per attribute of the orchestrator, `start_at` (where `start()` is suspended), `tasks` (the ready queue), history `confirmed` |
| `MissionManager` | the registry in front of several orchestrators; extends the former | `active` |
| `VlmBridge` | chat sessions, their locks, the conversations of both backends, chat storage; extends `MissionManager` and answers its commands | `conversations`, `chat_locks`, `lock_queue`, `history`, `transaction`, `backend`, `model_backend`, `disk` |
| `OperatorUI` | CLI and web GUI; extends `MissionManager` | `active_mission_id`, `pending_confirmation`, `gui`, `page`, `to_page`, `clicks`, histories |
| `DroneLink` | the WebSocket connections, as the code relies on them (external) | `owner`, `wire`, `noticed`, `to_server`, `to_drone` |
| `DroneBridge` | the server's end of the connections; extends `SearchOrchestrator` and `DroneLink` | `connected`, `disconnected`, `handler` |
| `DroneClient` | the drone's process; extends `DroneLink` | `proc`, `authed`, `flying`, history `flights` |
| `SearchSystem` | the composition of orchestrator, bridge, connections and drone, with the outcomes of the chats and the operator | `conversations`, `jobs`, `pending_ui`, histories, bounds |
| `CameraRecording` | the drone's video camera: one recording counted for all that started it, and the clean-up at exit | `camera`, `recording`, `video_path`, `ref_count`, `metadata` |
| `Recordings` | recording and pull commands from missions and browsers over the bridge to that camera and back; extends `CameraRecording` | `mission`, `bus`, `waiter`, `suspended`, `link`, `inbox`, `outbox`, `transfers`, `answer`, histories |
| `MavlinkLink` | the drone's threads on the autopilot's serial line: connecting, receiving, photos, the four methods of moving | `_master`, `line`, `_receiver_thread`, `receivers`, `heartbeat`, `mode`, `pc` and what each thread has, histories |
| `MC...` | small instances for TLC | |
| `SearchOrchestratorProofs`, `HumanInTheLoopProofs`, `SearchSystemProofs`, `FlightProofs`, `OperatorProofs`, `VlmProofs`, `MavlinkProofs`, `RecordingsProofs` | theorems and proofs | |

**Correspondence.** An action is named after the method it models and stands for
all of it: the early returns are `Ignore`, the guards are `Concerns` (about my
drone, my mission?) and `Expected` (in a state that waits for this?), and what a
handler publishes is appended to `tasks` in the order of the code. A method whose
branches do different things is one action per branch (`UserConfirms`, `UserWarns`,
`UserCancels`; `MoveSucceeded`, `MoveFailed`). `PROJECT.json` maps every
definition to its lines.

Some points that a reader of the code will look for:

- An event is one task with the set of orchestrators still to handle it. Handlers
  of one event run one after the other in either order; what they publish comes
  after all of them, as in the code, where their tasks were created first.
- An orchestrator is subscribed from `__init__` to `_cleanup()`. A task created
  before the clean-up still runs after it: hence `Ignore` in ENDED.
- `generate_prompt` has no suspension point, so all of `start()` up to its first
  awaited command is one action (`Start`).
- A handler that suspends is one action per stretch between two awaits. In
  `VlmBridge` the place where it is suspended is a field of its entry in
  `lock_queue`, whose head holds the lock; a session is named after the run it was
  made for, because a handler may keep the conversation and the lock longer than
  the dictionaries do.
- The handlers of one command are adjacent tasks of the loop; where none of them
  suspends they are one step of `OperatorUI`.
- A call of `Recordings` is one run of a handler, suspended until its future is
  resolved, cancelled by a later call of the same command, rejected by the end of
  any connection, or timed out.
- A step of `MavlinkLink` makes one access to a global of the module that another
  thread may change. A setpoint on `None` raises and fails the move; one on a
  connection that another thread has closed is skipped by pymavlink without a word,
  and the move goes on. That a move reported a success was flown is therefore no
  property: the loops end by the clock, and nobody counts what was sent.
- `send()` on a connection that has ended raises only once the library knows
  (`noticed`), and is lost until then.
- `async for message in ws` ends without an exception after a normal close
  (`EndOfMessages`), while a send on such a connection raises ConnectionClosedOK.
- The drone does not reconnect by itself: `run_forever()` returns and the process
  ends. `RestartDrone` is the operator who starts it again.
- A photo is the number of flights its drone had made when it was taken; a photo
  that could not be taken is `NoPhoto`.

**Refinement.** `SearchOrchestrator!Promise` instantiates `HumanInTheLoop`: the
stage is read off the mission state (`Stage`: a move is open in WAITING_FOR_ACK,
FLYING and in a pause with a stored move), `approved` is `current_move`, `made` is
`moves_performed`, `budget` is `max_moves`, and `orders` are the moves of the
`ExecuteMove` commands still in the queue (`Ordered`). A retry is `OrderAgain`; a
command that leaves the queue is `Send`, at any stage, because it may be handled
after the mission's end. `KeepsPromise` is checked by TLC and proved.

Definitions with a comment that begins with *Slip* are faulty variants of the
definition that follows them. No specification uses them; substituted for their
originals they show that a property can fail.

## 3. Runs

All runs but `mavlink` set `CHECK_DEADLOCK FALSE`: a system whose missions have
all ended, with nothing left to deliver, really stops. The drone's threads never
do: another photo may always be asked for.

| Run | Checks | Shows |
|---|---|---|
| `orchestrator_one` | `TypeOK`, `MoveBudget`, `MovesAccounted`, `PauseResumable`, `OneFarewell`, `NoFlightAfterEnd`, `KeepsPromise` | one mission against every order of events, with recording on |
| `operator` | `OneLivePerMission`, `RunsAreSeparate`, `IdIsReleased`, `QuestionIsHeld`, `ApprovedIsAsked`, `PagesCatchUp` | two requests for one id, from the CLI and a browser, and the questions of their missions in both |
| `system_steady` | `DroneStandsStill`, `PhotoIsCurrent`, `OneFlightPerApproval`, `CountedMovesAreFlown`, `ApprovedIsProposed`, `CancelIsFinal`, `MissionEnds` | a whole mission on a connection that holds, while moves, cameras, model and storage fail |
| `system_lossy` | `BridgeTypeOK`, `ServedIsRegistered`, `CountedMovesAreFlown`, `PauseIsNoticed`, `PauseEnds` | one loss, a break or a close at any time, a restart and the way back to work, with a failing camera, a full disk, and moves flown and reported as failed |
| `vlm` | `SessionIsOwned`, `OneQuestionAtATime`, `SavedIsComplete`, `LocksAreReleased` | two runs of one id, both backends, slow and failing photos, models, answers and files, a session that cannot be created |
| `recordings` | `RecordingsTypeOK`, `RecordingsAreFinalized`, `WaitersAreRegistered`, `CountIsOwners`, `NoRecordingLeftBehind`, `CallsReturn` | two missions and a browser on one drone; failing camera, timeouts, a lost connection, a restart |
| `mavlink` | `ClosedIsForgotten`, `ReceiversArePaid`, `CacheIsFed`, `ModeStopsMove`, `ThreadsReturn` | the dispatcher and a move open and close the line under each other's feet |
| `system_resend` | `OneFlightPerApproval` | **violated**: the MOVE is sent again after a loss, and flown twice |
| `system_flight` | `FlightConcludes` | **violated**: a loss during a flight leaves the mission FLYING for ever |
| `system_normal_close` | `NormalCloseIsAnnounced` | **violated**: a normal close is announced to nobody |
| `system_glimpses` | `GlimpsesAreTheLimit` | **violated**: a warning costs an inference that `glimpses` does not count |
| `recordings_pull` | `PullSucceeds` | **violated**: the first chunk of a pulled recording ends the connection |

The five violated runs each check a statement of the repository
(`search_orchestrator.py:189` and `:230-231`, `events.py:143`, `README.md:127` and
`:143`, `README.md:179`); `PROJECT.json` quotes them under `findings`. The three
about losses set `Prompt = TRUE`, which keeps a drone from finishing a flight or restarting while
the event loop has ready tasks, so that their counterexamples do not depend on an
absurdly slow loop. The passing runs set it to FALSE and hold for a loop of any
speed. `recordings_pull` loses nothing and lets nobody be late: `_process_message`
passes a `drone_id` that the functions for chunks and the end of a file do not
take, and the TypeError ends the connection. `system_glimpses` needs one warning and
no failure: the README calls `glimpses` the maximum number of inferences, the code
limits the moves that were executed (`search_orchestrator.py:152`), and a warning
asks for a photo and an analysis without one. The bound that does hold, one
inference more for each warning, is `WithinGlimpsesAndWarnings`, which is proved.

**Bounds.**

- `MaxTasks` 1 or 2: an open environment publishes only on a queue shorter than
  that. The orchestrator itself appends without that bound. Two
  (`orchestrator_one`) are enough for an event to be overtaken by any other, which
  is what the guards of the handlers are for; the proofs do not depend on it.
- `Glimpses` up to 3: no move, one move, and a second move after a first, so that
  the counters are compared at, below and above the limit; 0 is the refused value.
  `operator` and `vlm` use 2: a photo, a question, a move, a photo.
- Two moves where a wrong move could be flown (`orchestrator_one`, `system_steady`,
  `operator`, there symmetric: no property names one), one elsewhere.
- `MaxWarnings = 2`: a repeated warning. `MaxLosses = 1` and `Conns = {1, 2}`: an old
  connection not yet noticed as broken beside the new one, and the drone's return
  before, during and after the end of the old handler; a slot is used again when
  both ends have let go of it. The loss of the connection that replaced the first
  is left to the theorems, which take any number.
- One drone and one mission in `SearchSystem`. Two runs of one id in `operator` and
  `vlm`, two missions on one drone in `recordings`.
- `PromptOk = {TRUE}` in `operator` and `vlm`: with a prompt that cannot be
  generated and a second request for the id already queued the properties of the
  manager fail (see the hazard at `mission_manager.py:47`).
- `operator`: one browser (two take more than eight million states), of which the
  server runs at most one state ahead (`MaxLag`); in it and in `vlm` the drone
  answers what it is asked (`DroneAnswers`) or reports an error.
- `vlm`: `Patient = TRUE`, an id is used again only when its earlier run has left
  nothing behind; without it a suspended save or analysis of the earlier run writes
  to the chat of the later one, and an error ends it (see the hazards).
  `MaxMessages = 4`: prompt, question, answer, and a second question.
- `recordings`: missions start in their order; missions, browsers and timers act
  when the bus is empty (they would only append to it), timers when nothing has
  arrived; a browser asks one thing; one loss.
- `mavlink`: one move beside the dispatcher, two setpoints (a first and a last),
  three connections (one replaced twice), one change of mode. The theorems have
  none of these bounds.

**Fairness.** Weak throughout, and none for losses.
`FairSystem`: the event loop (asyncio runs every ready task), the chat handlers
(the model's client and the storage return or raise), the operator who answers a
question shown and starts the drone's process again, the server's connections
(delivery, and that a broken connection is found out), and the drone's threads (a
move returns, a message is dispatched). Two of these rest on more than the code: no
ping times out unless `WS_PING_TIMEOUT` is set (`core/config.py:20`), so a broken
connection is found out when TCP gives up on the pings and commands sent over it;
and the model's client returns unless the provider answers "rate limit" for ever,
which `openai_conversation.py:89-105` retries without a bound.
`MissionEnds` is about missions whose drone is connected at the start: a request
to a drone that never connected is dropped silently. `PauseIsNoticed` and
`PauseEnds` exclude states where the registry holds a connection nobody serves
(`~RegisteredIsServed`), which the failing acknowledgement at
`drone_bridge.py:405` can cause and which no event ends.
`VlmFairness`: the loop, and the handlers that hold a lock, each by itself.
`RecordingsFairness`: the loop and each call's timer; the drone may hang.
`MavFairness`: each thread runs and its timed waits end (`NotHeard`); the vehicle
may be silent.

## 4. Proofs

All theorems hold for any values of the constants that satisfy the named
assumptions of the modules (`OrchAssumption`, `ManagerAssumption`,
`OperatorAssumption`, `VlmAssumption`, `BridgeAssumption`, `ClientAssumption`,
`SystemAssumption`, `CameraAssumption`, `RecordingsAssumption`, `NoCallAssumption`,
`MavlinkAssumption`; TLC evaluates them in every run that extends the module): for
any number of missions, ids, drones, connections and browsers, and for queues of
any length. The bounds of the runs are not assumed. A condition beyond that is in
the last column and is the hypothesis of the theorem.

| Module | Theorem | States | If |
|---|---|---|---|
| `SearchOrchestratorProofs` | `TypeCorrect` | `Spec => []TypeOK` | |
| | `BudgetKept` | `Spec => []MoveBudget` | |
| | `MovesCounted` | `Spec => []MovesAccounted` | |
| | `PausesResumable` | `Spec => []PauseResumable` | |
| | `FarewellIsOnce` | `Spec => []OneFarewell` | |
| | `EndIsSilent` | `Spec => NoFlightAfterEnd` | |
| `HumanInTheLoopProofs` | `PromiseKept` | `Spec => KeepsPromise` | |
| `SearchSystemProofs` | `SystemKeepsPromise` | `SystemSpec => KeepsPromise` | |
| | `SystemBudget` | `SystemSpec => []MoveBudget` | |
| | `SystemMovesCounted` | `SystemSpec => []MovesAccounted` | |
| | `SystemPausesResumable` | `SystemSpec => []PauseResumable` | |
| | `BridgeTyped` | `SystemSpec => []BridgeTypeOK` | |
| | `OneHandlerServes` | `SystemSpec => []ServedIsRegistered` | |
| | `PausesNoticed` | `SystemSpec => []PauseIsNoticed` | `~StoreFails` |
| `FlightProofs` | `OnlyFlownMovesCount` | `SystemSpec => []CountedMovesAreFlown` | no flight is reported that was not made |
| | `WithinGlimpses` | `SystemSpec => []WithinGlimpsesAndWarnings`, of no run | `Glimpses \subseteq Nat` |
| | `ApprovedWasProposed` | `SystemSpec => []ApprovedIsProposed` | one interface, no id of two missions |
| | `DroneWaits` | `SystemSpec => []DroneStandsStill` | `NothingLost`, `OwnDrones`, `OwnMissions` |
| | `PhotosAreCurrent` | `SystemSpec => []PhotoIsCurrent` | the same |
| | `FlightsAreApproved` | `SystemSpec => []OneFlightPerApproval` | the same; no flight that was made is reported as failed |
| | `CancelEndsMoves` | `SystemSpec => []CancelIsFinal` | the same |
| `OperatorProofs` | `OneRunPerId` | `OperatorSpec => []OneLivePerMission` | `CalmStarts` |
| | `EarlierRunIsOver` | `OperatorSpec => []RunsAreSeparate` | `CalmStarts` |
| | `IdComesFree` | `OperatorSpec => []IdIsReleased` | `CalmStarts` |
| | `ManagerKeepsRunsApart` | the same three of `ManagerSpec` | `CalmStarts` |
| | `OperatorKeepsPromise` | `OperatorSpec => KeepsPromise` | |
| | `PagesInStep` | `OperatorSpec => []PagesCatchUp` | |
| | `NoQuestionIsLost` | `OperatorSpec => []QuestionIsHeld` | `CalmStarts` |
| | `AnswerIsToTheQuestion` | `OperatorSpec => []ApprovedIsAsked` | `CalmStarts` |
| `VlmProofs` | `SessionsTyped` | `VlmSpec => []VlmTypeOK` | |
| | `SessionsOwned` | `VlmSpec => []SessionIsOwned` | |
| | `QuestionsTakeTurns` | `VlmSpec => []OneQuestionAtATime` | `Patient` |
| | `ConversationsSaved` | `VlmSpec => []SavedIsComplete` | `Patient` |
| `MavlinkProofs` | `ClosedForgotten` | `MavSpec => []ClosedIsForgotten` | |
| | `ReceiversPaid` | `MavSpec => []ReceiversArePaid` | |
| | `CacheFed` | `MavSpec => []CacheIsFed` | |
| | `ModeIsObeyed` | `MavSpec => []ModeStopsMove` | |
| `RecordingsProofs` | `RecordingsFinalized` | `RecordingsSpec => []RecordingsAreFinalized` | |
| | `WaitersRegistered` | `RecordingsSpec => []WaitersAreRegistered` | |
| | `RecordingsTyped` | `RecordingsSpec => []RecordingsTypeOK` | finitely many missions |
| | `OwnersCounted` | `RecordingsSpec => []CountIsOwners` | at most `MaxDrainAttempts` missions |
| | `NothingKeepsRecording` | `RecordingsSpec => []NoRecordingLeftBehind` | at most `MaxDrainAttempts` missions |

**The conditions.** Each excludes something the code does, named under `hazards`.

- `~StoreFails`: a photo that cannot be stored ends the connection's handler without
  any event, so the drone is not counted as lost and its return is not announced. A
  mission that is paused by another loss, or that shares the drone, can miss it:
  TLC finds this with two losses. With the one loss of `system_lossy`
  `PauseIsNoticed` holds though photos may fail to be stored.
- `<<FALSE, TRUE>> \notin MoveOutcomes`: the vehicle reports no flight it has not
  made. A move that is flown and reported as failed is allowed.
- `NothingLost` (`MaxLosses = 0`, `~StoreFails`): no connection is lost and no photo
  ends its handler. A loss during a move pauses the mission, which sends the move
  again when the drone returns, and `system_resend` shows two flights for one
  confirmation. Moves, cameras, the model and the chat's storage may still fail as
  often as they like.
- `OwnDrones` (no two missions on one drone), `OwnMissions`: events name the drone,
  so the report of one mission's move is credited to all on that drone (a hazard).
- `<<TRUE, FALSE>> \notin MoveOutcomes`, for one flight per confirmation: a flight
  reported as failed is commanded again (`search_orchestrator.py:213`). The other
  three theorems allow it.
- `Glimpses \subseteq Nat`: `start()` refuses zero glimpses only
  (`search_orchestrator.py:88`), so with a negative number one photo would go to
  the VLM before the mission ends. The GUI offers 10.
- `OneInterface`, `OwnMissions`: the answer of one interface leaves the question
  on the other, where it can be answered later (a hazard); and an interface knows
  its question by the mission's id, which the manager gives to one live run
  (`OneRunPerId`).
- `CalmStarts` (`PromptOk \subseteq {TRUE}`): a `start()` that raises leaves its
  `SearchEnded` behind, which releases the id of the next run
  (`mission_manager.py:47`).
- `Patient`: an id is used again only when its earlier run has left nothing behind.
  The web server never uses an id twice; the CLI may, and then a suspended save or
  analysis of the earlier run writes to the chat of the later one.
- At most `MaxDrainAttempts` missions: the clean-up at exit gives up after that many
  stops.
- `OperatorAssumption` says that the mark for "no mission" is not a mission.

**One invariant for missions in any company.** What the orchestrator does is the
same in `SearchOrchestrator`, behind the manager, between the chats and in the
composition; what else is in the queue is not. `SearchOrchestratorProofs` therefore
proves the inductive invariant `MissionInv(Q)` for any set of tasks `Q` that
`Carries` what a mission reads and writes, and for any step of `MissionNext(Q)`: a
mission writes its own attributes (`Writes`), or the rest of the program takes what
is its own from the head and adds news (`Serves`). Each specification is then shown
to take such steps (`NextIsMission`, `SystemIsMission`, `ManagerIsMission`,
`VlmSteps` with `VlmServes`), and inherits the theorems. `MissionInv` has these
parts.

- `MissionTypeOK` and `tasks \in Seq(Q)`. Lemmas about the queue (`FarewellTyped`,
  `FarewellSaid`, `TaskCarries`, `Follows...`) say what an action appends or leaves
  behind, so that queue and variables are treated apart.
- `Accounted`. `MoveBudget` is not inductive: that a confirmed move stays within
  `max_moves` needs that a mission waiting for the user has a move left
  (`handle_vlm_analysis` looked), and that a state says whether a move is open. It
  also needs that `start()` cannot write its state over a mission that has moved
  on: until it asks for the first photo the mission is IDLE or ENDED.
- `Resumable`: an open move is a real move, and only a paused mission holds a
  command.
- `Farewells`: a `SearchEnded` in the queue is that of an ended mission, and no
  other is there. That one mission ends twice is excluded by its state; that the
  farewell of a mission is complete, by what follows it in the queue
  (`FollowsEnding`).
- `Addressed`: no event waits for a mission that had not begun when it was
  published.

The step splits on which mission moves: `OthersKept` says that the step of one
leaves the ledger of the others alone, and `StartAccounted`, `SearchAccounted` and
`LinkAccounted` treat its own, action by action. `NoFlightAfterEnd` follows from
what an ended mission may still do (`Silent`): it ignores. TLC has checked the
invariant on the instance of `orchestrator_one`.

*Questions and answers.* The handlers ask the VLM, and the operator, and the answer
comes back through the queue. `Token` is a question not yet taken or an answer not
yet handled; `None`, `One` and `Only` say how many there are and about which move.
The lemmas on them (`TailTokens`, `AppendTokens`, `MissionTokens`, `RestTokens`,
`EventGoesOn`) say that only the mission that enters a waiting state adds a token,
and serve the operator's questions and the VLM's alike.

*The refinement.* Under `MissionInv` every step is a step of the promise or none
(`PromiseStep`). `OrdersIn` is the set of moves a queue orders for one mission; the
lemmas say what appending, taking the head and a farewell do to it. `SendingStep`
treats the three actions that order a move and shows it to be the approved one,
`QuietStep` all others, `StagesOf`, `HiddenStep` and `StageStep` the move from
stage to stage. The budget enters where the mission asks: `Ask` needs
`made < budget`, which is `Accounted`. `PromiseStep` is about `MissionNext(Q)`, so
the composition and the operator's interfaces keep the promise too.

*The composition.* `LinkInv` is about the bridge alone: types, that a connection
belongs to the drone whose process or registration names it (`Owned`), and
`ServedIsRegistered` itself. Why a paused mission hears of its drone is `PauseInv`:
the loss that paused it, or that will when it is handled, can still be noticed
(`Noticeable`: the drone is counted as lost, or its connection will be found broken
with an error), or the return is announced behind it in the queue. A loss that is
overtaken by a return is the reason for "behind it". Every handler that ends, and
every drone that is accepted, has to tell (`LeaveNotices`, `AuthNotices`).

*Flights.* `FlownInv` counts: what a mission has counted, the successes queued for
it, and the reports of success on connections of its drone, of any age, are
together no more than the flights. A report is made with a flight, becomes one
event, and is counted once; connections that are lost take reports away, never add
any. The lemmas at the beginning of `FlightProofs` are about the number of places
of a queue that hold an element of a set.

*Photos.* What is proved is the bound with the warnings; the documented one is
refuted by `system_glimpses`. `GlimpseInv` is a budget too: for a mission, the analyses made, the photos
queued for one, one more if the mission wants the next photo (`Wants`: it has
begun or waits for the drone, or is paused and will ask again), and the warnings
it has yet to handle, are no more than the moves it has counted, plus one, plus the
warnings given. A photo pays for an analysis, a warning or a counted move for the
wish; a pause and its end keep it (`WantsPaid`), so repeated requests and pauses
are free. That the counted moves stay below `max_moves` is `Accounted`.

*Moves and photos under way.* `FlowInv` bounds, for every mission, the load of each
kind of thing between it and its drone: photos asked for, acknowledgements and
reports of a move to come, flights and further attempts at one, analyses, photos
from before the last move, and losses. A load (`Load`) counts the same errand
wherever it is: as a command or an event in the queue (`InQueue`), as a message to
or from the drone (`InCommands`, `InReports`), as a job of the chat (`InJobs`), or
as a move being flown (`InFlight`); what is allowed of it follows from the mission's
state (`Allowed`): one report while a move is open, one analysis while it waits for
the VLM, flights and attempts together no more than the confirmations. A step hands
an errand from one place to the next and leaves the load as it is; only the
mission itself takes one in and puts one out, and it changes its state in the same
action. Hence the four properties: a state that allows nothing finds nothing
anywhere (`NoLoad`). It is inductive only as a whole, since that a mission puts out
one errand needs that it has taken in the one before. A mission that has ended
leaves its errands behind (`Matters`), a cancelled one no move: it can only be
cancelled where no move is allowed. `Steady` says what a connection that holds
means: each drone keeps the one it has opened, so that no message is in a
connection nobody reads.

*Proposals.* `Aligned` follows the move proposed last: while the mission waits for
the user it is on its way to the interface, shown there, or on its way back, in one
of these places only and with that move; then it is the move under way. A shown
question excludes one in the queue, so the interface holds nothing from before.
The lemmas on `Token` count the queue's part.

*Runs of one id.* `Runs` says how live runs, registered ids and the queue agree: an
id is held by one run or by one `SearchEnded`, its `DeleteSession` is right behind
that, and what a run that has ended still asks is before it. A start is refused
while the id is registered; that the pop at `mission_manager.py:47` releases the
right run is `OneEnd`.

*Pages and questions.* A page is up to date when the last state sent to it is the
server's, or, with nothing under way, when it shows that state or has a click under
way (`PageUpToDate`). `Faces` follows a proposal: for a run that waits for the
operator it is shown, or queued, or its answer is (`Held`), and while one interface
alone answers, the proposal is in one place with one move (`Alone`).

*Chats.* `SessionInv` needs to know that a session is created only for a run that
lives or whose end is behind its creation (`Creations`). With `Patient`, `RunInv`
says that of two runs of one id one is unused or over, with nothing queued for it
and no lock held or awaited; hence a lock's queue is of one run, and only its first
entry has passed the lock. `AskedOnce`: a mission has one analysis, queued, with a
handler, or answered, and only while it waits for the VLM or when it has ended.
`Turn`: the conversation alternates, and its length is even only while the model
answers the last question, or when the mission ended on that failure. `Stored`: a
mission past its question has a save promised, waiting for the lock, being written,
or its conversation on disk; a failure puts an error in the queue that ends it.

*The serial line.* The invariant (`MavlinkProofs!IInv`) says which threads can be
where (`OnGround`: the dispatcher never flies), that a mover has a result when it is
through and not before, and sends only what it has left (`Booked`), and that between
the look at the mode and the setpoint nothing has strayed (`Checked`).
`ClosedIsForgotten` is kept because
the thread that closes a connection is at `forget` until it has made `_master`
None, what is opened is open, and Python collects only what nobody refers to; the
steps of `_ensure_connection` are instances of two lemmas (`ConnectsStep`,
`RaiseStep`). `ReceiversArePaid` counts debts (`RInv`): a thread that has opened a
connection owes a receiver until it has started one, found one alive or given up;
the threads in debt (`Debtors`) and the receivers are together no more than the
connections opened. Only `OpenLine` makes a debt and pays it in advance, and a start
settles one; a second start of the same thread object raises. `CacheIsFed` is part
of it, since the way past `_ensure_connection` goes by a receiver that is alive.
The other half of `ClosedIsForgotten`, that a connection once opened is not forgotten, is
false: a thread between `close()` and `_master = None` forgets what another has
just opened, and the device stays held until Python collects it (TLC finds it; see
the hazard at `_ensure_connection`).

*Recordings.* `RecordingsAreFinalized` needs that the file being written exists
(`FileExists`), so that its metadata is what the last stop rewrites; the clean-up
is `MaxDrainAttempts` stops, or all. `WaitersAreRegistered` needs that a future is
kept under the command of its own call (`Keyed`), and that an acknowledgement names
one of the four commands (`OutboxOK`). The counts follow each START and STOP on its
way (`HandedOn`): through the bus and the drone's inbox a mission's START is there
once and before its STOP, a mission that has not begun has neither, and one that has
ended and owns the recording has its STOP under way, unless a loss took it.
`CountInv` is then a matter of one owner more or less.

**Only model-checked.** Every invariant that a passing run checks is stated by a
theorem. Liveness (`MissionEnds`, `PauseEnds`, `LocksAreReleased`, `CallsReturn`, `ThreadsReturn`) is beyond the
prover. `MavTypeOK` is part of a proved invariant and of no run; `VlmTypeOK` and
`WithinGlimpsesAndWarnings` are proved and of no run.

## 5. Not modelled

- Drone bridge: the 10 s authentication timeout on a live connection, malformed
  messages, `DroneInvalidDataError`, backpressure in `send`, and the
  `except Exception` of `send_move` (its moves are real: `PauseResumable`). All of
  these only log or publish events the open environment of `SearchOrchestrator`
  publishes anyway. On the drone, the FOUND command, which the server never sends.
- VLM bridge: `LoadSession` and with it `load_chat`, which nothing publishes.
- Recordings: the bodies of the functions for chunks and the end of a file, and the
  conversion with ffmpeg, which no message can reach; a metadata file that cannot be
  written; a process killed without its clean-up; file names that collide within one
  second; a listing that fails.
- Serial line: moves with `exec_moves` off, which return before it is touched
  (`flight_controller.py:31-33`); the lengths of vectors and of moves in time, so
  that a loop of methods 1 to 3 may end at any iteration by its clock, and a move of
  length zero is one that ends before its first (`TimeIsOver`); values of telemetry.
- Interfaces: chat, photos and status lines of the GUI; the keys an operator
  presses; the shutdown of the web server.
- Data: positions, vectors, texts, images, bytes of files. Parsers, prompts, grid
  overlay, photo and telemetry storage are formatting and plain I/O; their outcomes
  (a failure, a photo) are inputs of the models. Scripts and configuration start
  the program or measure it.
- Recording in the composition (`VideoEnabled = FALSE` there; `orchestrator_one`
  has it on, `Recordings` has the rest of the way).

## 6. Plan

1. *Done*: `SearchOrchestrator`, `MissionManager`, `DroneLink`, `DroneBridge`,
   `DroneClient`, `SearchSystem`, their runs and the proofs of their invariants.
2. *Done*: `HumanInTheLoop` and the proof of the refinement.
3. *Done*: `VlmBridge` with conversations, locks and storage.
4. *Done*: `CameraRecording`, `Recordings`, and two of their invariants proved.
5. *Done*: `MavlinkLink`, and its safety properties proved.
6. *Done*: `OperatorUI` with both interfaces.
7. *Done*: the safety properties of the manager, the interfaces, the chats, the
   recordings and the bridge proved, and the refinement for the composition.
8. *Done*: the properties of the composition that count moves under way proved.
9. Next: what of them holds when connections are lost; two missions on one drone in
   the composition; two browsers.
