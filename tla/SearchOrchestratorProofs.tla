----------------------- MODULE SearchOrchestratorProofs -----------------------
(***************************************************************************)
(* Proofs about SearchOrchestrator, for any number of orchestrators,       *)
(* drones and missions, any budget of glimpses and any queue.              *)
(*                                                                         *)
(* The modules that put the orchestrators behind a manager, a drone link   *)
(* or a user interface queue other tasks as well.  The lemmas are about    *)
(* any set Q of tasks the handlers can work with (Carries), and about      *)
(* steps of the missions and steps that leave them alone (MissionNext), so *)
(* that they hold of those compositions too.                               *)
(***************************************************************************)
EXTENDS SearchOrchestrator, FunctionTheorems, FiniteSetTheorems, TLAPS

EventTypes == DroneEventTypes \cup MissionEventTypes
Proposing == {"VlmAnalysisCompleted", "UserDecisionReceived"}

Woken(o) == [type |-> "WakeUp", by |-> o]
Asked(o, m) == [type |-> "AskUserConfirmation", by |-> o, move |-> m]
Analyze(o, photo, w) ==
  [type |-> "AnalyzePhoto", by |-> o, photo |-> photo, is_warning |-> w]

\* What the orchestrator itself puts into the queue, analyses of photos apart.
OwnItems(o) ==
  {Await(o, c) : c \in Awaited \cup {"StopRecording", "SearchEnded", "DeleteSession"}}
    \cup {ExecuteMove(o, m) : m \in Moves \cup {NoMove}}
    \cup {Asked(o, m) : m \in Moves}
    \cup {GetPhoto(o), Woken(o)}

\* y is the event x once o has handled it.
Told(o, x, y) ==
  /\ x.type \in EventTypes
  /\ y.type = x.type
  /\ y.to = x.to \ {o}
  /\ x.type \in DroneEventTypes => y.drone = x.drone
  /\ x.type \in MissionEventTypes => y.mission = x.mission
  /\ x.type = "MoveExecuted" => y.ok = x.ok
  /\ x.type = "PhotoWithTelemetryReceived" => y.photo = x.photo
  /\ x.type \in Proposing => y.move = x.move
  /\ x.type = "UserDecisionReceived" => y.decision = x.decision

\* The handlers can work with a queue of such tasks, and put no others into it.
Carries(Q) ==
  /\ \A o \in Orchs : OwnItems(o) \subseteq Q
  /\ \A x \in Q, o \in Orchs :
       x.type \in EventTypes => /\ [x EXCEPT !.to = @ \ {o}] \in Q
                                /\ Told(o, x, [x EXCEPT !.to = @ \ {o}])
  /\ \A x \in Q : x.type \in Proposing => x.move \in Moves
  /\ \A x \in Q, o \in Orchs, w \in BOOLEAN :
       x.type = "PhotoWithTelemetryReceived" => Analyze(o, x.photo, w) \in Q

-----------------------------------------------------------------------------
(* The tasks of this module *)

\* With photos of any set P.
Events(P) ==
  [type : DroneNotice, drone : Drones, to : SUBSET Orchs]
    \cup [type : {"MoveExecuted"}, drone : Drones, ok : BOOLEAN, to : SUBSET Orchs]
    \cup [type : {"PhotoWithTelemetryReceived"}, drone : Drones, photo : P,
          to : SUBSET Orchs]
    \cup [type : ChatNotice, mission : Missions, to : SUBSET Orchs]
    \cup [type : {"VlmAnalysisCompleted"}, mission : Missions, found : BOOLEAN,
          move : Moves, to : SUBSET Orchs]
    \cup [type : {"UserDecisionReceived"}, mission : Missions, decision : Decisions,
          move : Moves, to : SUBSET Orchs]
Analyses(P) == [type : {"AnalyzePhoto"}, by : Orchs, photo : P, is_warning : BOOLEAN]
Flight == [type : {"ExecuteMove"}, by : Orchs, move : Moves \cup {NoMove}]
Question == [type : {"AskUserConfirmation"}, by : Orchs, move : Moves]
Items(P) ==
  Events(P) \cup SimpleCommand \cup Flight \cup Question \cup Analyses(P) \cup WakeUp

Item == Items(Photos)

LEMMA ItemIs == Event \subseteq Item /\ Item \subseteq Event \cup Command \cup WakeUp
<1>1. Events(Photos) = Event /\ Analyses(Photos) = AnalyzeCommand
  BY DEF Events, Event, Analyses, AnalyzeCommand
<1>2. Flight \subseteq MoveCommand /\ Question \subseteq MoveCommand
  BY DEF Flight, Question, MoveCommand
<1> QED
  BY <1>1, <1>2 DEF Item, Items, Command

\* Each kind of command is in the set of tasks.
LEMMA OwnItemsTyped ==
  ASSUME NEW P, NEW o \in Orchs
  PROVE  OwnItems(o) \subseteq Items(P)
<1>1. \A c \in Awaited \cup {"StopRecording", "SearchEnded", "DeleteSession"} :
        Await(o, c) \in Items(P)
  BY DEF Await, Items, SimpleCommand, Awaited
<1>2. \A m \in Moves \cup {NoMove} : ExecuteMove(o, m) \in Items(P)
  BY DEF ExecuteMove, Items, Flight
<1>3. \A m \in Moves : Asked(o, m) \in Items(P)
  BY DEF Asked, Items, Question
<1>4. GetPhoto(o) \in Items(P) /\ Woken(o) \in Items(P)
  BY DEF GetPhoto, Woken, Items, SimpleCommand, WakeUp
<1> QED
  BY <1>1, <1>2, <1>3, <1>4 DEF OwnItems

\* An event stays one while its handlers take it one after the other.
LEMMA DeliveredTyped ==
  ASSUME NEW P, NEW e \in Events(P), NEW o \in Orchs
  PROVE  /\ [e EXCEPT !.to = @ \ {o}] \in Events(P)
         /\ Told(o, e, [e EXCEPT !.to = @ \ {o}])
<1> USE DEF Events, Told, EventTypes, DroneEventTypes, MissionEventTypes, Proposing,
            DroneNotice, ChatNotice
<1>1. CASE e \in [type : DroneNotice, drone : Drones, to : SUBSET Orchs]
  BY <1>1
<1>2. CASE e \in [type : {"MoveExecuted"}, drone : Drones, ok : BOOLEAN, to : SUBSET Orchs]
  BY <1>2
<1>3. CASE e \in [type : {"PhotoWithTelemetryReceived"}, drone : Drones, photo : P,
                  to : SUBSET Orchs]
  BY <1>3
<1>4. CASE e \in [type : ChatNotice, mission : Missions, to : SUBSET Orchs]
  BY <1>4
<1>5. CASE e \in [type : {"VlmAnalysisCompleted"}, mission : Missions, found : BOOLEAN,
                  move : Moves, to : SUBSET Orchs]
  BY <1>5
<1>6. CASE e \in [type : {"UserDecisionReceived"}, mission : Missions,
                  decision : Decisions, move : Moves, to : SUBSET Orchs]
  BY <1>6
<1> QED
  BY <1>1, <1>2, <1>3, <1>4, <1>5, <1>6

\* A task with the type of an event is an event, and carries what its handler reads.
LEMMA EventsOfItems ==
  ASSUME NEW P, NEW x \in Items(P), x.type \in EventTypes
  PROVE  /\ x \in Events(P)
         /\ x.type \in Proposing => x.move \in Moves
         /\ x.type = "PhotoWithTelemetryReceived" => x.photo \in P
<1>1. x \in Events(P)
  BY DEF Items, SimpleCommand, Flight, Question, Analyses, WakeUp, Awaited,
         EventTypes, DroneEventTypes, MissionEventTypes, DroneNotice, ChatNotice
<1> QED
  BY <1>1 DEF Events, DroneNotice, ChatNotice, Proposing

\* The tasks of this module are such a set.
LEMMA ItemsCarry ==
  ASSUME NEW P
  PROVE  Carries(Items(P))
<1>1. ASSUME NEW x \in Items(P), NEW o \in Orchs, x.type \in EventTypes
      PROVE  /\ [x EXCEPT !.to = @ \ {o}] \in Items(P)
             /\ Told(o, x, [x EXCEPT !.to = @ \ {o}])
  <2>1. x \in Events(P)
    BY <1>1, EventsOfItems
  <2> QED
    BY <2>1, DeliveredTyped DEF Items
<1>2. ASSUME NEW x \in Items(P), NEW o \in Orchs, NEW w \in BOOLEAN,
             x.type = "PhotoWithTelemetryReceived"
      PROVE  Analyze(o, x.photo, w) \in Items(P)
  <2>1. x.photo \in P
    BY <1>2, EventsOfItems DEF EventTypes, DroneEventTypes
  <2> QED
    BY <2>1 DEF Analyze, Items, Analyses
<1>3. \A x \in Items(P) : x.type \in Proposing => x.move \in Moves
  BY EventsOfItems DEF Proposing, EventTypes, MissionEventTypes
<1> QED
  BY <1>1, <1>2, <1>3, OwnItemsTyped DEF Carries

LEMMA ItemCarries == Carries(Item)
  BY ItemsCarry DEF Item

\* Tasks that are no events of the missions may be queued as well.
LEMMA CarriesMore ==
  ASSUME NEW Q, NEW R, Carries(Q), \A x \in R : x.type \notin EventTypes
  PROVE  Carries(Q \cup R)
  BY DEF Carries, Proposing, EventTypes, DroneEventTypes, MissionEventTypes


-----------------------------------------------------------------------------
(* The handled task *)

LEMMA HandlesEvent ==
  ASSUME NEW o \in Orchs, NEW type, Handles(o, type)
  PROVE  EventFor(o) /\ Task.type = type /\ state[o] \in Expected(type)
  BY DEF Handles

\* What a handler finds in the event it takes.
LEMMA TaskCarries ==
  ASSUME NEW Q, Carries(Q), tasks \in Seq(Q), NEW o \in Orchs, EventFor(o)
  PROVE  /\ Task \in Q /\ Task.type \in EventTypes
         /\ Task.type \in Proposing => Task.move \in Moves
         /\ Task.type = "PhotoWithTelemetryReceived" =>
              \A w \in BOOLEAN : Analyze(o, Task.photo, w) \in Q
<1>1. Task \in Q /\ Task.type \in EventTypes
  BY DEF Task, EventFor, EventTypes
<1> QED
  BY <1>1 DEF Carries

\* The queue a step of o starts from: all of it, or what is left once o has
\* taken its task.
Base(o, q) ==
  \/ q = tasks
  \/ /\ tasks # <<>> /\ Task.type \notin CommandTypes \cup EventTypes
     /\ q = Tail(tasks)
  \/ EventFor(o) /\ q = Rest(o)

\* The items of q are those of the queue without its first s, in their order,
\* up to the recipients of the event at its head.
Keeps(o, q, s) ==
  /\ s \in {0, 1} /\ Len(q) + s = Len(tasks)
  /\ s = 1 => /\ Task.type \notin CommandTypes
              /\ Task.type \in EventTypes => Task.to \subseteq {o}
  /\ \A i \in 1..Len(q) : \/ q[i] = tasks[i + s]
                          \/ i + s = 1 /\ Told(o, tasks[1], q[1])

\* Taking or handling a task moves the other items up and changes none.
LEMMA BaseKeeps ==
  ASSUME NEW Q, Carries(Q), tasks \in Seq(Q), NEW o \in Orchs, NEW q, Base(o, q)
  PROVE  q \in Seq(Q) /\ \E s \in {0, 1} : Keeps(o, q, s)
<1>1. CASE q = tasks
  BY <1>1 DEF Keeps
<1>2. CASE /\ tasks # <<>> /\ Task.type \notin CommandTypes \cup EventTypes
           /\ q = Tail(tasks)
  <2>1. /\ Len(q) + 1 = Len(tasks) /\ q \in Seq(Q)
        /\ \A i \in 1..Len(q) : q[i] = tasks[i + 1]
    BY <1>2
  <2> QED
    BY <1>2, <2>1 DEF Keeps
<1>3. CASE EventFor(o) /\ Task.to \subseteq {o} /\ q = Tail(tasks)
  <2>1. /\ Len(q) + 1 = Len(tasks) /\ q \in Seq(Q)
        /\ \A i \in 1..Len(q) : q[i] = tasks[i + 1]
    BY <1>3 DEF EventFor
  <2>2. Task.type \notin CommandTypes
    BY <1>3 DEF EventFor, DroneEventTypes, MissionEventTypes, DroneNotice, ChatNotice,
                CommandTypes, Awaited
  <2> QED
    BY <1>3, <2>1, <2>2 DEF Keeps
<1>4. CASE EventFor(o) /\ q = <<[Task EXCEPT !.to = @ \ {o}]>> \o Tail(tasks)
  <2> DEFINE e == [Task EXCEPT !.to = @ \ {o}]
  <2>1. Task \in Q /\ Task.type \in EventTypes /\ tasks # <<>> /\ Task = tasks[1]
    BY <1>4, TaskCarries DEF EventFor, Task
  <2>2. e \in Q /\ Told(o, Task, e)
    BY <2>1 DEF Carries
  <2> HIDE DEF e
  <2>3. q = <<e>> \o Tail(tasks)
    BY <1>4 DEF e
  <2>4. Tail(tasks) \in Seq(Q) /\ Len(tasks) = Len(Tail(tasks)) + 1
    BY <2>1
  <2>5. q \in Seq(Q) /\ Len(q) = Len(tasks) /\ q[1] = e
    BY <2>2, <2>3, <2>4
  <2>6. \A i \in 2..Len(q) : q[i] = tasks[i]
    BY <2>1, <2>2, <2>3, <2>4
  <2>7. ASSUME NEW i \in 1..Len(q)
        PROVE  q[i] = tasks[i + 0] \/ (i + 0 = 1 /\ Told(o, tasks[1], q[1]))
    BY <2>1, <2>2, <2>5, <2>6
  <2>8. Keeps(o, q, 0)
    BY <2>5, <2>7 DEF Keeps
  <2> QED
    BY <2>5, <2>8
<1> QED
  BY <1>1, <1>2, <1>3, <1>4 DEF Base, Rest

-----------------------------------------------------------------------------
(* What a step of a mission adds to the queue *)

Starts(o) ==
  \E g \in Glimpses, prompt_ok \in BOOLEAN :
    \/ Start(o, g, prompt_ok, tasks)
    \/ /\ tasks # <<>> /\ Task.type \notin CommandTypes \cup EventTypes
       /\ Start(o, g, prompt_ok, Tail(tasks))

\* A step of the mission of o.
Writes(o) == Starts(o) \/ AwaitedDone(o) \/ StartCancelled(o) \/ Handle(o)

\* The steps that command a move, each with the move it sends.
Sends(o, move) ==
  \/ UserConfirms(o) /\ move = Task.move
  \/ MoveFailed(o) /\ state'[o] = "WAITING_FOR_ACK" /\ move = current_move[o]
  \/ /\ HandleDroneReconnected(o) /\ move = current_move[o]
     /\ pending_command[o] = ExecuteMove(o, move)

\* Items after the first n of queue r.
Added(r, n) == (n + 1)..Len(r)

\* The mission ends, and says so last.
Parts(o, n, r) ==
  /\ state[o] # "ENDED" /\ state'[o] = "ENDED"
  /\ n + 2 <= Len(r)
  /\ r[Len(r) - 1] = Await(o, "SearchEnded")
  /\ r[Len(r)] = Await(o, "DeleteSession")
  /\ \A i \in Added(r, n) :
       i < Len(r) - 1 => \E c \in {"SaveSession", "StopRecording"} : r[i] = Await(o, c)

\* It commands a move.
Commands(o, n, r) ==
  /\ state[o] # "ENDED" /\ state'[o] = "WAITING_FOR_ACK"
  /\ Len(r) = n + 1
  /\ \E move \in Moves : r[n + 1] = ExecuteMove(o, move) /\ Sends(o, move)

\* It does neither.  A session is asked for by start(), a question or an analysis
\* is the last item, of its handler.
Quiet == (CommandTypes \cup {"WakeUp"}) \ {"SearchEnded", "DeleteSession", "ExecuteMove"}
Proper(o, x) ==
  /\ x.type \in Quiet /\ x.by = o
  /\ x.type = "CreateNewSession" => Starts(o) /\ state'[o] = "IDLE"
  /\ x.type = "AskUserConfirmation" => HandleVlmAnalysis(o) /\ x = Asked(o, Task.move)
  /\ x.type = "AnalyzePhoto" =>
       HandlePhotoAndTelemetry(o) /\ x = Analyze(o, Task.photo, is_warning[o])
Continues(o, n, r) ==
  /\ state'[o] = "ENDED" <=> state[o] = "ENDED"
  /\ state'[o] = "NEW" => state[o] = "NEW"
  /\ \A i \in Added(r, n) :
       /\ Proper(o, r[i])
       /\ r[i].type \in {"AskUserConfirmation", "AnalyzePhoto"} => i = Len(r)

\* The queue after a step of o.
Follows(Q, o, r) ==
  /\ r \in Seq(Q)
  /\ \E q \in Seq(Q) :
       /\ Base(o, q)
       /\ Len(q) <= Len(r) /\ \A i \in 1..Len(q) : r[i] = q[i]
       /\ Parts(o, Len(q), r) \/ Commands(o, Len(q), r) \/ Continues(o, Len(q), r)

\* Whatever it adds is a command or the wake-up of its start(), in its name.
LEMMA AddedIsOwn ==
  ASSUME NEW o \in Orchs, NEW n \in Nat, NEW r, Len(r) \in Nat,
         Parts(o, n, r) \/ Commands(o, n, r) \/ Continues(o, n, r),
         NEW i \in Added(r, n)
  PROVE  /\ r[i].type \in CommandTypes \cup {"WakeUp"} /\ r[i].by = o
         /\ r[i].type \notin EventTypes
<1>1. \A x \in CommandTypes \cup {"WakeUp"} : x \notin EventTypes
  BY DEF CommandTypes, Awaited, EventTypes, DroneEventTypes, MissionEventTypes, DroneNotice,
         ChatNotice
<1>2. CASE Parts(o, n, r)
  <2>1. i < Len(r) - 1 \/ i = Len(r) - 1 \/ i = Len(r)
    BY DEF Added
  <2> QED
    BY <1>1, <1>2, <2>1 DEF Parts, Await, CommandTypes, Awaited
<1>3. CASE Commands(o, n, r)
  BY <1>1, <1>3 DEF Commands, Added, ExecuteMove, CommandTypes
<1>4. CASE Continues(o, n, r)
  BY <1>1, <1>4 DEF Continues, Proper, Quiet
<1> QED
  BY <1>2, <1>3, <1>4

\* The end is said after q.
SaysFarewell(Q, o, q, r) ==
  /\ r \in Seq(Q) /\ Len(q) + 2 <= Len(r)
  /\ \A i \in 1..Len(q) : r[i] = q[i]
  /\ r[Len(r) - 1] = Await(o, "SearchEnded")
  /\ r[Len(r)] = Await(o, "DeleteSession")
  /\ \A i \in Added(r, Len(q)) : i < Len(r) - 1 => r[i] = Await(o, "StopRecording")

\* An end is said by two or three commands.
LEMMA FarewellSaid ==
  ASSUME NEW Q, Carries(Q), NEW o \in Orchs, NEW q \in Seq(Q)
  PROVE  SaysFarewell(Q, o, q, q \o Farewell(o))
<1> DEFINE a == Await(o, "StopRecording")
           b == Await(o, "SearchEnded")
           c == Await(o, "DeleteSession")
<1>1. a \in Q /\ b \in Q /\ c \in Q
  BY DEF Carries, OwnItems
<1> HIDE DEF a, b, c
<1> DEFINE r == q \o Farewell(o)
<1>2. CASE VideoEnabled
  <2>1. r = q \o (<<a>> \o <<b, c>>)
    BY <1>2 DEF Farewell, a, b, c
  <2>2. r = Append(Append(Append(q, a), b), c)
    BY <1>1, <2>1
  <2>3. /\ r \in Seq(Q) /\ Len(r) = Len(q) + 3
        /\ \A i \in 1..Len(q) : r[i] = q[i]
        /\ r[Len(q) + 1] = a /\ r[Len(q) + 2] = b /\ r[Len(q) + 3] = c
    BY <1>1, <2>2
  <2> HIDE DEF r
  <2>4. SaysFarewell(Q, o, q, r)
    BY <2>3 DEF a, b, c, Added, SaysFarewell
  <2> QED
    BY <2>4 DEF r
<1>3. CASE ~VideoEnabled
  <2>1. r = q \o (<<>> \o <<b, c>>)
    BY <1>3 DEF Farewell, a, b, c
  <2>2. r = Append(Append(q, b), c)
    BY <1>1, <2>1
  <2>3. /\ r \in Seq(Q) /\ Len(r) = Len(q) + 2
        /\ \A i \in 1..Len(q) : r[i] = q[i]
        /\ r[Len(q) + 1] = b /\ r[Len(q) + 2] = c
    BY <1>1, <2>2
  <2> HIDE DEF r
  <2>4. SaysFarewell(Q, o, q, r)
    BY <2>3 DEF a, b, c, Added, SaysFarewell
  <2> QED
    BY <2>4 DEF r
<1> QED
  BY <1>2, <1>3

-----------------------------------------------------------------------------
(* Types of the mission's variables *)

\* TypeOK without its last conjunct: what the mission variables may hold.
MissionTypeOK ==
  /\ state \in [Orchs -> MissionState]
  /\ pending_command \in [Orchs -> {NoCommand} \cup Command]
  /\ moves_performed \in [Orchs -> Nat]
  /\ max_moves \in [Orchs -> Int]
  /\ is_warning \in [Orchs -> BOOLEAN]
  /\ current_move \in [Orchs -> Moves \cup {NoMove}]
  /\ move_failures \in [Orchs -> Nat]
  /\ start_at \in [Orchs -> StartAt]
  /\ confirmed \in [Orchs -> Nat]

\* The coroutine start() writes what its states allow.
LEMMA StartTyped ==
  ASSUME OrchAssumption, MissionTypeOK, NEW o \in Orchs,
         \/ Starts(o) \/ AwaitedDone(o) \/ StartCancelled(o)
         \/ StartSave(o) \/ StartSearch(o) \/ StartFirstPhoto(o)
  PROVE  MissionTypeOK'
<1> USE DEF MissionTypeOK, Goto, Terminate, MissionState, StartAt, Awaited
<1>1. CASE Starts(o)
  <2>1. PICK g \in Glimpses, ok \in BOOLEAN :
          Start(o, g, ok, tasks) \/ Start(o, g, ok, Tail(tasks))
    BY <1>1 DEF Starts
  <2>2. g - 1 \in Int
    BY DEF OrchAssumption
  <2>3. /\ \E s \in {"IDLE", "ENDED"} : state' = [state EXCEPT ![o] = s]
        /\ \E at \in {"CreateNewSession", "failed"} :
             start_at' = [start_at EXCEPT ![o] = at]
        /\ max_moves' = [max_moves EXCEPT ![o] = g - 1]
    BY <2>1 DEF Start
  <2>4. state' \in [Orchs -> MissionState]
    BY <2>3
  <2>5. start_at' \in [Orchs -> StartAt] /\ max_moves' \in [Orchs -> Int]
    BY <2>2, <2>3
  <2> QED
    BY <2>1, <2>4, <2>5 DEF Start
<1>2. CASE AwaitedDone(o)
  BY <1>2 DEF AwaitedDone
<1>3. CASE StartCancelled(o)
  BY <1>3 DEF StartCancelled
<1>4. CASE StartSave(o)
  BY <1>4 DEF StartSave
<1>5. CASE StartSearch(o)
  BY <1>5 DEF StartSearch
<1>6. CASE StartFirstPhoto(o)
  BY <1>6 DEF StartFirstPhoto
<1> QED
  BY <1>1, <1>2, <1>3, <1>4, <1>5, <1>6

\* So do the handlers of events.
LEMMA HandlerTyped ==
  ASSUME NEW Q, Carries(Q), tasks \in Seq(Q), MissionTypeOK, NEW o \in Orchs,
         \/ HandlePhotoAndTelemetry(o) \/ HandleVlmAnalysis(o)
         \/ UserConfirms(o) \/ UserWarns(o) \/ UserCancels(o)
         \/ HandleMoveStarted(o) \/ MoveSucceeded(o) \/ MoveFailed(o)
         \/ HandleDroneConnectionLost(o) \/ HandleDroneReconnected(o)
         \/ HandleFatal(o) \/ Ignore(o)
  PROVE  MissionTypeOK'
<1> USE DEF MissionTypeOK, Goto, Terminate, MissionState
<1>1. CASE HandlePhotoAndTelemetry(o)
  BY <1>1 DEF HandlePhotoAndTelemetry
<1>2. CASE HandleVlmAnalysis(o)
  BY <1>2 DEF HandleVlmAnalysis
<1>3. CASE UserConfirms(o)
  <2>1. Task.move \in Moves
    BY <1>3, HandlesEvent, TaskCarries DEF UserConfirms, Proposing
  <2> QED
    BY <1>3, <2>1 DEF UserConfirms
<1>4. CASE UserWarns(o)
  BY <1>4 DEF UserWarns
<1>5. CASE UserCancels(o)
  BY <1>5 DEF UserCancels
<1>6. CASE HandleMoveStarted(o)
  BY <1>6 DEF HandleMoveStarted
<1>7. CASE MoveSucceeded(o)
  BY <1>7 DEF MoveSucceeded
<1>8. CASE MoveFailed(o)
  <2>1. \/ state' = [state EXCEPT ![o] = "ENDED"]
        \/ state' = [state EXCEPT ![o] = "WAITING_FOR_ACK"]
    BY <1>8 DEF MoveFailed
  <2>2. move_failures' = [move_failures EXCEPT ![o] = @ + 1]
    BY <1>8 DEF MoveFailed
  <2>3. state' \in [Orchs -> MissionState]
    BY <2>1
  <2>4. move_failures' \in [Orchs -> Nat]
    BY <2>2
  <2> QED
    BY <1>8, <2>3, <2>4 DEF MoveFailed
<1>9. CASE HandleDroneConnectionLost(o)
  <2>1. current_move[o] \in Moves \cup {NoMove}
    OBVIOUS
  <2>2. GetPhoto(o) \in Command /\ ExecuteMove(o, current_move[o]) \in Command
    BY <2>1 DEF GetPhoto, ExecuteMove, Command, SimpleCommand, MoveCommand
  <2> QED
    BY <1>9, <2>2 DEF HandleDroneConnectionLost
<1>10. CASE HandleDroneReconnected(o)
  BY <1>10 DEF HandleDroneReconnected
<1>11. CASE HandleFatal(o)
  BY <1>11 DEF HandleFatal
<1>12. CASE Ignore(o)
  BY <1>12 DEF Ignore, orchVars
<1> QED
  BY <1>1, <1>2, <1>3, <1>4, <1>5, <1>6, <1>7, <1>8, <1>9, <1>10, <1>11, <1>12

\* No step of a mission leaves the types.
LEMMA MissionTyped ==
  ASSUME OrchAssumption, NEW Q, Carries(Q), tasks \in Seq(Q), MissionTypeOK,
         NEW o \in Orchs, Writes(o)
  PROVE  MissionTypeOK'
  BY StartTyped, HandlerTyped DEF Writes, Handle

-----------------------------------------------------------------------------
(* Counters and pauses *)

\* Until start() asks for the first photo nothing but an end happens.
Starting == {"CreateNewSession", "created", "SaveSession", "saved"}

\* What the counters, the budget and the pause of one mission say together.
Accounted(o) ==
  /\ start_at[o] \in Starting => state[o] \in {"IDLE", "ENDED"}
  /\ moves_performed[o] <= confirmed[o] /\ confirmed[o] <= moves_performed[o] + 1
  /\ state[o] # "ENDED" =>
       confirmed[o] = moves_performed[o] + (IF MoveOpen(o) THEN 1 ELSE 0)
  /\ confirmed[o] = 0 \/ confirmed[o] <= max_moves[o]
  /\ state[o] = "NEW" => confirmed[o] = 0 /\ start_at[o] = "none"
  /\ state[o] = "WAITING_FOR_USER" => moves_performed[o] < max_moves[o]

Resumable(o) ==
  /\ state[o] \in {"WAITING_FOR_ACK", "FLYING"} => current_move[o] \in Moves
  /\ state[o] = "PAUSED" =>
       \/ pending_command[o] = GetPhoto(o)
       \/ pending_command[o] = ExecuteMove(o, current_move[o]) /\ current_move[o] \in Moves
  /\ state[o] \notin {"PAUSED", "ENDED"} => pending_command[o] = NoCommand

\* What Accounted(p) and Resumable(p) depend on.
Ledger(p) == <<state[p], pending_command[p], moves_performed[p], max_moves[p],
               current_move[p], start_at[p], confirmed[p]>>

LEMMA LedgerKept ==
  ASSUME NEW p \in Orchs, Accounted(p), Resumable(p), UNCHANGED Ledger(p)
  PROVE  Accounted(p)' /\ Resumable(p)'
  BY DEF Accounted, Resumable, Ledger, MoveOpen, GetPhoto, ExecuteMove

\* A step of one mission leaves the ledger of the others alone.
LEMMA OthersKept ==
  ASSUME MissionTypeOK, NEW o \in Orchs, NEW p \in Orchs \ {o}, Writes(o)
  PROVE  UNCHANGED Ledger(p)
<1> USE DEF Ledger, Goto, Terminate, MissionTypeOK
<1>1. CASE Starts(o)
  BY <1>1 DEF Starts, Start
<1>2. CASE AwaitedDone(o)
  BY <1>2 DEF AwaitedDone
<1>3. CASE StartCancelled(o)
  BY <1>3 DEF StartCancelled
<1>4. CASE StartSave(o)
  BY <1>4 DEF StartSave
<1>5. CASE StartSearch(o)
  BY <1>5 DEF StartSearch
<1>6. CASE StartFirstPhoto(o)
  BY <1>6 DEF StartFirstPhoto
<1>7. CASE HandlePhotoAndTelemetry(o)
  BY <1>7 DEF HandlePhotoAndTelemetry
<1>8. CASE HandleVlmAnalysis(o)
  BY <1>8 DEF HandleVlmAnalysis
<1>9. CASE UserConfirms(o)
  BY <1>9 DEF UserConfirms
<1>10. CASE UserWarns(o)
  BY <1>10 DEF UserWarns
<1>11. CASE UserCancels(o)
  BY <1>11 DEF UserCancels
<1>12. CASE HandleMoveStarted(o)
  BY <1>12 DEF HandleMoveStarted
<1>13. CASE MoveSucceeded(o)
  BY <1>13 DEF MoveSucceeded
<1>14. CASE MoveFailed(o)
  BY <1>14 DEF MoveFailed
<1>15. CASE HandleDroneConnectionLost(o)
  BY <1>15 DEF HandleDroneConnectionLost
<1>16. CASE HandleDroneReconnected(o)
  BY <1>16 DEF HandleDroneReconnected
<1>17. CASE HandleFatal(o)
  BY <1>17 DEF HandleFatal
<1>18. CASE Ignore(o)
  BY <1>18 DEF Ignore, orchVars
<1> QED
  BY <1>1, <1>2, <1>3, <1>4, <1>5, <1>6, <1>7, <1>8, <1>9, <1>10, <1>11, <1>12, <1>13,
     <1>14, <1>15, <1>16, <1>17, <1>18
  DEF Writes, Handle

LEMMA StartAccounted ==
  ASSUME MissionTypeOK, NEW o \in Orchs, Accounted(o), Resumable(o),
         \/ Starts(o) \/ AwaitedDone(o) \/ StartCancelled(o)
         \/ StartSave(o) \/ StartSearch(o) \/ StartFirstPhoto(o)
  PROVE  Accounted(o)' /\ Resumable(o)'
<1> USE DEF Accounted, Resumable, MoveOpen, Starting, MissionTypeOK, GetPhoto, ExecuteMove
<1>1. CASE Starts(o)
  <2>1. /\ state[o] = "NEW"
        /\ state'[o] \in {"IDLE", "ENDED"}
        /\ UNCHANGED <<pending_command, moves_performed, current_move, confirmed>>
    BY <1>1 DEF Starts, Start, Goto, Terminate
  <2>2. /\ confirmed[o] = 0 /\ moves_performed[o] = 0
        /\ pending_command[o] = NoCommand
    BY <2>1
  <2>3. Accounted(o)'
    BY <2>1, <2>2
  <2>4. Resumable(o)'
    BY <2>1, <2>2
  <2> QED
    BY <2>3, <2>4
<1>2. CASE AwaitedDone(o)
  BY <1>2 DEF AwaitedDone, Awaited
<1>3. CASE StartCancelled(o)
  BY <1>3 DEF StartCancelled
<1>4. CASE StartSave(o)
  BY <1>4 DEF StartSave, Awake
<1>5. CASE StartSearch(o)
  BY <1>5 DEF StartSearch, Awake, Goto
<1>6. CASE StartFirstPhoto(o)
  BY <1>6 DEF StartFirstPhoto, Awake
<1> QED
  BY <1>1, <1>2, <1>3, <1>4, <1>5, <1>6

LEMMA SearchAccounted ==
  ASSUME NEW Q, Carries(Q), tasks \in Seq(Q), MissionTypeOK, NEW o \in Orchs, Accounted(o), Resumable(o),
         \/ HandlePhotoAndTelemetry(o) \/ HandleVlmAnalysis(o)
         \/ UserConfirms(o) \/ UserWarns(o) \/ UserCancels(o)
         \/ HandleMoveStarted(o) \/ MoveSucceeded(o) \/ MoveFailed(o)
  PROVE  Accounted(o)' /\ Resumable(o)'
<1>1. \A type : Handles(o, type) => EventFor(o) /\ state[o] \in Expected(type)
  BY HandlesEvent
<1>2. /\ Expected("PhotoWithTelemetryReceived") = {"WAITING_FOR_DRONE"}
      /\ Expected("VlmAnalysisCompleted") = {"WAITING_FOR_VLM"}
      /\ Expected("UserDecisionReceived") = {"WAITING_FOR_USER"}
      /\ Expected("MoveStarted") = {"WAITING_FOR_ACK"}
      /\ Expected("MoveExecuted") = {"FLYING"}
  BY DEF Expected
<1> USE DEF Accounted, Resumable, MoveOpen, Starting, MissionTypeOK, Goto, Terminate
<1>3. CASE HandlePhotoAndTelemetry(o)
  BY <1>1, <1>2, <1>3 DEF HandlePhotoAndTelemetry
<1>4. CASE HandleVlmAnalysis(o)
  BY <1>1, <1>2, <1>4 DEF HandleVlmAnalysis
<1>5. CASE UserConfirms(o)
  <2>1. Task.move \in Moves
    BY <1>1, <1>5, TaskCarries DEF UserConfirms, Handles, Proposing
  <2> QED
    BY <1>1, <1>2, <1>5, <2>1 DEF UserConfirms
<1>6. CASE UserWarns(o)
  BY <1>1, <1>2, <1>6 DEF UserWarns
<1>7. CASE UserCancels(o)
  BY <1>1, <1>2, <1>7 DEF UserCancels
<1>8. CASE HandleMoveStarted(o)
  BY <1>1, <1>2, <1>8 DEF HandleMoveStarted
<1>9. CASE MoveSucceeded(o)
  BY <1>1, <1>2, <1>9 DEF MoveSucceeded
<1>10. CASE MoveFailed(o)
  BY <1>1, <1>2, <1>10 DEF MoveFailed
<1> QED
  BY <1>3, <1>4, <1>5, <1>6, <1>7, <1>8, <1>9, <1>10

LEMMA LinkAccounted ==
  ASSUME MissionTypeOK, NEW o \in Orchs, Accounted(o), Resumable(o),
         \/ HandleDroneConnectionLost(o) \/ HandleDroneReconnected(o)
         \/ HandleFatal(o) \/ Ignore(o)
  PROVE  Accounted(o)' /\ Resumable(o)'
<1>1. \A type : Handles(o, type) => EventFor(o) /\ state[o] \in Expected(type)
  BY HandlesEvent
<1>2. /\ Expected("DroneConnectionLost") = {"WAITING_FOR_DRONE", "WAITING_FOR_ACK"}
      /\ Expected("DroneReconnected") = {"PAUSED"}
      /\ \A type \in Fatal : "ENDED" \notin Expected(type) /\ "NEW" \in Expected(type)
  BY DEF Expected, Fatal, ChatNotice, MissionState
<1> USE DEF Accounted, Resumable, MoveOpen, Starting, MissionTypeOK, Goto, Terminate
<1>3. CASE HandleDroneConnectionLost(o)
  BY <1>1, <1>2, <1>3 DEF HandleDroneConnectionLost, GetPhoto, ExecuteMove
<1>4. CASE HandleDroneReconnected(o)
  BY <1>1, <1>2, <1>4 DEF HandleDroneReconnected, GetPhoto, ExecuteMove, NoCommand
<1>5. CASE HandleFatal(o)
  BY <1>1, <1>2, <1>5 DEF HandleFatal
<1>6. CASE Ignore(o)
  BY <1>6, LedgerKept DEF Ignore, orchVars, Ledger
<1> QED
  BY <1>3, <1>4, <1>5, <1>6


-----------------------------------------------------------------------------
(* The queue after a step of a mission *)

\* One quiet item of its own after the base.
LEMMA FollowsQuietly ==
  ASSUME NEW Q, Carries(Q), tasks \in Seq(Q), NEW o \in Orchs, NEW q, Base(o, q),
         state'[o] = "ENDED" <=> state[o] = "ENDED",
         state'[o] = "NEW" => state[o] = "NEW",
         \/ tasks' = q
         \/ \E x \in Q : Proper(o, x) /\ tasks' = Append(q, x)
  PROVE  Follows(Q, o, tasks')
<1>1. q \in Seq(Q)
  BY BaseKeeps
<1>2. CASE tasks' = q
  BY <1>1, <1>2 DEF Follows, Continues, Added
<1>3. CASE \E x \in Q : Proper(o, x) /\ tasks' = Append(q, x)
  <2>1. PICK x \in Q : Proper(o, x) /\ tasks' = Append(q, x)
    BY <1>3
  <2>2. /\ tasks' \in Seq(Q) /\ Len(tasks') = Len(q) + 1 /\ tasks'[Len(q) + 1] = x
        /\ \A i \in 1..Len(q) : tasks'[i] = q[i]
    BY <1>1, <2>1
  <2>3. \A i \in Added(tasks', Len(q)) : tasks'[i] = x
    BY <1>1, <2>2 DEF Added
  <2>4. Continues(o, Len(q), tasks')
    BY <1>1, <2>1, <2>2, <2>3 DEF Continues, Added
  <2> QED
    BY <1>1, <2>2, <2>4 DEF Follows
<1> QED
  BY <1>2, <1>3

\* Two quiet items.
LEMMA FollowsTwice ==
  ASSUME NEW Q, Carries(Q), tasks \in Seq(Q), NEW o \in Orchs, NEW q, Base(o, q),
         state'[o] \notin {"ENDED", "NEW"}, state[o] # "ENDED",
         NEW x \in Q, Proper(o, x), x.type \notin {"AskUserConfirmation", "AnalyzePhoto"},
         NEW y \in Q, Proper(o, y),
         tasks' = Append(Append(q, x), y)
  PROVE  Follows(Q, o, tasks')
<1>1. q \in Seq(Q)
  BY BaseKeeps
<1>2. /\ tasks' \in Seq(Q) /\ Len(tasks') = Len(q) + 2
      /\ tasks'[Len(q) + 1] = x /\ tasks'[Len(q) + 2] = y
      /\ \A i \in 1..Len(q) : tasks'[i] = q[i]
  BY <1>1
<1>3. \A i \in Added(tasks', Len(q)) :
        tasks'[i] = x \/ (tasks'[i] = y /\ i = Len(tasks'))
  BY <1>1, <1>2 DEF Added
<1>4. Continues(o, Len(q), tasks')
  BY <1>3 DEF Continues
<1> QED
  BY <1>1, <1>2, <1>4 DEF Follows

\* The end, said after the base.
LEMMA FollowsEnding ==
  ASSUME NEW Q, Carries(Q), tasks \in Seq(Q), NEW o \in Orchs, NEW q, Base(o, q),
         state[o] # "ENDED", state'[o] = "ENDED", tasks' = q \o Farewell(o)
  PROVE  Follows(Q, o, tasks')
<1>1. q \in Seq(Q)
  BY BaseKeeps
<1>2. SaysFarewell(Q, o, q, tasks')
  BY <1>1, FarewellSaid
<1>3. Parts(o, Len(q), tasks')
  BY <1>2 DEF Parts, SaysFarewell
<1>4. Len(q) <= Len(tasks')
  BY <1>1, <1>2 DEF SaysFarewell
<1> QED
  BY <1>1, <1>2, <1>3, <1>4 DEF Follows, SaysFarewell

\* The same after the conversation is saved once more.
LEMMA FollowsSavedEnding ==
  ASSUME NEW Q, Carries(Q), tasks \in Seq(Q), NEW o \in Orchs, NEW q, Base(o, q),
         state[o] # "ENDED", state'[o] = "ENDED",
         tasks' = Append(q, Await(o, "SaveSession")) \o Farewell(o)
  PROVE  Follows(Q, o, tasks')
<1> DEFINE save == Await(o, "SaveSession")
           saved == Append(q, save)
<1>1. q \in Seq(Q) /\ save \in Q
  BY BaseKeeps DEF Carries, OwnItems, Awaited
<1>2. tasks' = saved \o Farewell(o)
  OBVIOUS
<1> HIDE DEF save
<1>3. /\ saved \in Seq(Q) /\ Len(saved) = Len(q) + 1 /\ saved[Len(q) + 1] = save
      /\ \A i \in 1..Len(q) : saved[i] = q[i]
  BY <1>1
<1> HIDE DEF saved
<1>4. SaysFarewell(Q, o, saved, tasks')
  BY <1>2, <1>3, FarewellSaid
<1>5. /\ Len(q) \in Nat /\ Len(q) + 3 <= Len(tasks')
      /\ \A i \in 1..Len(q) : tasks'[i] = q[i]
      /\ tasks'[Len(q) + 1] = save
  BY <1>1, <1>3, <1>4 DEF SaysFarewell
<1>6. ASSUME NEW i \in Added(tasks', Len(q)), i < Len(tasks') - 1
      PROVE  \E c \in {"SaveSession", "StopRecording"} : tasks'[i] = Await(o, c)
  <2>1. CASE i = Len(q) + 1
    BY <1>5, <2>1 DEF save
  <2>2. CASE i # Len(q) + 1
    <3>1. i \in Added(tasks', Len(saved))
      BY <1>3, <1>5, <2>2 DEF Added
    <3> QED
      BY <1>4, <1>6, <3>1 DEF SaysFarewell
  <2> QED
    BY <2>1, <2>2
<1>7. Len(q) + 2 <= Len(tasks') /\ Len(q) <= Len(tasks')
  BY <1>4, <1>5 DEF SaysFarewell
<1>8. Parts(o, Len(q), tasks')
  <2>1. /\ tasks'[Len(tasks') - 1] = Await(o, "SearchEnded")
        /\ tasks'[Len(tasks')] = Await(o, "DeleteSession")
    BY <1>4 DEF SaysFarewell
  <2> QED
    BY <1>6, <1>7, <2>1 DEF Parts
<1> QED
  BY <1>1, <1>4, <1>5, <1>7, <1>8 DEF Follows, SaysFarewell

\* A move, commanded after the base.
LEMMA FollowsCommand ==
  ASSUME NEW Q, Carries(Q), tasks \in Seq(Q), NEW o \in Orchs, NEW q, Base(o, q),
         state[o] # "ENDED", state'[o] = "WAITING_FOR_ACK", NEW move \in Moves,
         Sends(o, move), tasks' = Append(q, ExecuteMove(o, move))
  PROVE  Follows(Q, o, tasks')
<1> DEFINE x == ExecuteMove(o, move)
<1>1. q \in Seq(Q) /\ x \in Q
  BY BaseKeeps DEF Carries, OwnItems
<1> HIDE DEF x
<1>2. /\ tasks' \in Seq(Q) /\ Len(tasks') = Len(q) + 1 /\ tasks'[Len(q) + 1] = x
      /\ \A i \in 1..Len(q) : tasks'[i] = q[i]
  BY <1>1 DEF x
<1>3. Commands(o, Len(q), tasks')
  BY <1>2 DEF Commands, x
<1> QED
  BY <1>1, <1>2, <1>3 DEF Follows

\* The types of what the orchestrator says.
LEMMA QuietItems ==
  ASSUME NEW Q, Carries(Q), NEW o \in Orchs
  PROVE  /\ \A c \in Awaited : Await(o, c) \in Q
         /\ \A c \in {"SaveSession", "StartRecording"} : Proper(o, Await(o, c))
         /\ Starts(o) /\ state'[o] = "IDLE" => Proper(o, Await(o, "CreateNewSession"))
         /\ GetPhoto(o) \in Q /\ Proper(o, GetPhoto(o))
         /\ Woken(o) \in Q /\ Proper(o, Woken(o))
         /\ Task.move \in Moves /\ HandleVlmAnalysis(o) =>
              Asked(o, Task.move) \in Q /\ Proper(o, Asked(o, Task.move))
         /\ HandlePhotoAndTelemetry(o) => Proper(o, Analyze(o, Task.photo, is_warning[o]))
  BY DEF Carries, OwnItems, Await, GetPhoto, Woken, Asked, Analyze, Quiet, Awaited,
         CommandTypes, Proper

LEMMA StartFollows ==
  ASSUME NEW Q, Carries(Q), tasks \in Seq(Q), MissionTypeOK, NEW o \in Orchs, Accounted(o),
         \/ Starts(o) \/ AwaitedDone(o) \/ StartCancelled(o)
         \/ StartSave(o) \/ StartSearch(o) \/ StartFirstPhoto(o)
  PROVE  Follows(Q, o, tasks')
<1> USE DEF MissionTypeOK, Goto
<1>1. /\ \A c \in Awaited : Await(o, c) \in Q
      /\ \A c \in {"SaveSession", "StartRecording"} : Proper(o, Await(o, c))
      /\ Starts(o) /\ state'[o] = "IDLE" => Proper(o, Await(o, "CreateNewSession"))
  BY QuietItems
<1>2. /\ GetPhoto(o) \in Q /\ Proper(o, GetPhoto(o))
      /\ Woken(o) \in Q /\ Proper(o, Woken(o))
  BY QuietItems
<1>3. Base(o, tasks)
  BY DEF Base
<1>4. ASSUME NEW at, Awake(o, at)
      PROVE  Base(o, Tail(tasks))
  BY <1>4 DEF Awake, Base, CommandTypes, Awaited, EventTypes, DroneEventTypes,
              MissionEventTypes, DroneNotice, ChatNotice
<1>5. CASE Starts(o)
  <2>1. PICK g \in Glimpses, ok \in BOOLEAN, q \in {tasks, Tail(tasks)} :
          Base(o, q) /\ Start(o, g, ok, q)
    BY <1>3, <1>5 DEF Starts, Base
  <2>2. CASE g # 0 /\ ok
    <3>1. /\ tasks' = Append(q, Await(o, "CreateNewSession"))
          /\ state[o] = "NEW" /\ state'[o] = "IDLE"
      BY <2>1, <2>2 DEF Start
    <3> QED
      BY <1>1, <1>5, <2>1, <3>1, FollowsQuietly DEF Awaited
  <2>3. CASE ~(g # 0 /\ ok)
    <3>1. tasks' = q \o Farewell(o) /\ state[o] = "NEW" /\ state'[o] = "ENDED"
      BY <2>1, <2>3 DEF Start, Terminate
    <3> QED
      BY <2>1, <3>1, FollowsEnding
  <2> QED
    BY <2>2, <2>3
<1>6. CASE AwaitedDone(o)
  BY <1>2, <1>3, <1>6, FollowsQuietly DEF AwaitedDone, Woken
<1>7. CASE StartCancelled(o)
  BY <1>3, <1>7, FollowsQuietly DEF StartCancelled
<1>8. CASE StartSave(o)
  BY <1>1, <1>4, <1>8, FollowsQuietly DEF StartSave, Awaited
<1>9. CASE StartSearch(o)
  <2>1. state[o] \in {"IDLE", "ENDED"} /\ Base(o, Tail(tasks))
    BY <1>4, <1>9 DEF StartSearch, Awake, Accounted, Starting
  <2>2. /\ \/ tasks' = Tail(tasks)
           \/ tasks' = Append(Tail(tasks), Await(o, "StartRecording"))
           \/ tasks' = Append(Tail(tasks), GetPhoto(o))
        /\ state'[o] = "ENDED" <=> state[o] = "ENDED"
        /\ state'[o] # "NEW"
    BY <1>9, <2>1 DEF StartSearch
  <2> QED
    BY <1>1, <1>2, <2>1, <2>2, FollowsQuietly DEF Awaited
<1>10. CASE StartFirstPhoto(o)
  BY <1>2, <1>4, <1>10, FollowsQuietly DEF StartFirstPhoto
<1> QED
  BY <1>5, <1>6, <1>7, <1>8, <1>9, <1>10

LEMMA SearchFollows ==
  ASSUME NEW Q, Carries(Q), tasks \in Seq(Q), MissionTypeOK, NEW o \in Orchs, Resumable(o),
         \/ HandlePhotoAndTelemetry(o) \/ HandleVlmAnalysis(o)
         \/ UserConfirms(o) \/ UserWarns(o) \/ UserCancels(o)
         \/ HandleMoveStarted(o) \/ MoveSucceeded(o) \/ MoveFailed(o)
  PROVE  Follows(Q, o, tasks')
<1>1. \A type : Handles(o, type) => EventFor(o) /\ Task.type = type /\ state[o] \in Expected(type)
  BY HandlesEvent
<1>2. /\ Expected("PhotoWithTelemetryReceived") = {"WAITING_FOR_DRONE"}
      /\ Expected("VlmAnalysisCompleted") = {"WAITING_FOR_VLM"}
      /\ Expected("UserDecisionReceived") = {"WAITING_FOR_USER"}
      /\ Expected("MoveStarted") = {"WAITING_FOR_ACK"}
      /\ Expected("MoveExecuted") = {"FLYING"}
  BY DEF Expected
<1>3. EventFor(o) => Base(o, Rest(o))
  BY DEF Base
<1>4. GetPhoto(o) \in Q /\ Proper(o, GetPhoto(o))
  BY QuietItems
<1> USE DEF MissionTypeOK, Goto, Terminate
<1>5. CASE HandlePhotoAndTelemetry(o)
  <2> DEFINE x == Analyze(o, Task.photo, is_warning[o])
  <2>1. EventFor(o) /\ Task.type = "PhotoWithTelemetryReceived" /\ is_warning[o] \in BOOLEAN
    BY <1>1, <1>5 DEF HandlePhotoAndTelemetry
  <2>2. x \in Q /\ Proper(o, x)
    BY <1>5, <2>1, TaskCarries, QuietItems
  <2>3. tasks' = Append(Rest(o), x)
    BY <1>5 DEF HandlePhotoAndTelemetry, Analyze
  <2> HIDE DEF x
  <2>4. state[o] = "WAITING_FOR_DRONE" /\ state'[o] = "WAITING_FOR_VLM"
    BY <1>1, <1>2, <1>5 DEF HandlePhotoAndTelemetry
  <2> QED
    BY <1>3, <2>1, <2>2, <2>3, <2>4, FollowsQuietly
<1>6. CASE HandleVlmAnalysis(o)
  <2> DEFINE save == Await(o, "SaveSession")
             ask == Asked(o, Task.move)
  <2>1. /\ EventFor(o) /\ Task.type = "VlmAnalysisCompleted" /\ state[o] = "WAITING_FOR_VLM"
        /\ Base(o, Rest(o))
    BY <1>1, <1>2, <1>3, <1>6 DEF HandleVlmAnalysis
  <2>2. save \in Q /\ Proper(o, save) /\ save.type = "SaveSession"
    BY QuietItems DEF Awaited, Await
  <2>3. ask \in Q /\ Proper(o, ask)
    BY <1>6, <2>1, TaskCarries, QuietItems DEF Proposing
  <2>4. \/ tasks' = Append(Rest(o), save) \o Farewell(o) /\ state'[o] = "ENDED"
        \/ tasks' = Append(Append(Rest(o), save), ask) /\ state'[o] = "WAITING_FOR_USER"
    BY <1>6 DEF HandleVlmAnalysis, Asked
  <2>5. CASE tasks' = Append(Rest(o), save) \o Farewell(o) /\ state'[o] = "ENDED"
    BY <2>1, <2>5, FollowsSavedEnding
  <2> HIDE DEF save, ask
  <2>6. CASE tasks' = Append(Append(Rest(o), save), ask) /\ state'[o] = "WAITING_FOR_USER"
    BY <2>1, <2>2, <2>3, <2>6, FollowsTwice
  <2> QED
    BY <2>4, <2>5, <2>6
<1>7. CASE UserConfirms(o)
  <2>1. /\ EventFor(o) /\ Task.type = "UserDecisionReceived" /\ state[o] = "WAITING_FOR_USER"
        /\ state'[o] = "WAITING_FOR_ACK"
        /\ tasks' = Append(Rest(o), ExecuteMove(o, Task.move))
    BY <1>1, <1>2, <1>7 DEF UserConfirms
  <2>2. Task.move \in Moves /\ Sends(o, Task.move)
    BY <1>7, <2>1, TaskCarries DEF Proposing, Sends
  <2> QED
    BY <1>3, <2>1, <2>2, FollowsCommand
<1>8. CASE UserWarns(o)
  BY <1>1, <1>2, <1>3, <1>4, <1>8, FollowsQuietly DEF UserWarns
<1>9. CASE UserCancels(o)
  BY <1>1, <1>2, <1>3, <1>9, FollowsEnding DEF UserCancels
<1>10. CASE HandleMoveStarted(o)
  BY <1>1, <1>2, <1>3, <1>10, FollowsQuietly DEF HandleMoveStarted
<1>11. CASE MoveSucceeded(o)
  BY <1>1, <1>2, <1>3, <1>4, <1>11, FollowsQuietly DEF MoveSucceeded
<1>12. CASE MoveFailed(o)
  <2>1. EventFor(o) /\ state[o] = "FLYING" /\ current_move[o] \in Moves
    BY <1>1, <1>2, <1>12 DEF MoveFailed, Resumable
  <2>2. \/ tasks' = Rest(o) \o Farewell(o) /\ state'[o] = "ENDED"
        \/ /\ tasks' = Append(Rest(o), ExecuteMove(o, current_move[o]))
           /\ state'[o] = "WAITING_FOR_ACK"
    BY <1>12 DEF MoveFailed
  <2>3. state'[o] = "WAITING_FOR_ACK" => Sends(o, current_move[o])
    BY <1>12 DEF Sends
  <2> QED
    BY <1>3, <2>1, <2>2, <2>3, FollowsEnding, FollowsCommand
<1> QED
  BY <1>5, <1>6, <1>7, <1>8, <1>9, <1>10, <1>11, <1>12

LEMMA LinkFollows ==
  ASSUME NEW Q, Carries(Q), tasks \in Seq(Q), MissionTypeOK, NEW o \in Orchs, Resumable(o),
         \/ HandleDroneConnectionLost(o) \/ HandleDroneReconnected(o)
         \/ HandleFatal(o) \/ Ignore(o)
  PROVE  Follows(Q, o, tasks')
<1>1. \A type : Handles(o, type) => EventFor(o) /\ state[o] \in Expected(type)
  BY HandlesEvent
<1>2. /\ Expected("DroneConnectionLost") = {"WAITING_FOR_DRONE", "WAITING_FOR_ACK"}
      /\ Expected("DroneReconnected") = {"PAUSED"}
      /\ \A type \in Fatal : "ENDED" \notin Expected(type)
  BY DEF Expected, Fatal, ChatNotice
<1>3. EventFor(o) => Base(o, Rest(o))
  BY DEF Base
<1>4. GetPhoto(o) \in Q /\ Proper(o, GetPhoto(o))
  BY QuietItems
<1> USE DEF MissionTypeOK, Goto, Terminate
<1>5. CASE HandleDroneConnectionLost(o)
  BY <1>1, <1>2, <1>3, <1>5, FollowsQuietly DEF HandleDroneConnectionLost
<1>6. CASE HandleDroneReconnected(o)
  <2>1. EventFor(o) /\ state[o] = "PAUSED"
    BY <1>1, <1>2, <1>6 DEF HandleDroneReconnected
  <2>2. CASE pending_command[o] = GetPhoto(o)
    <3>1. tasks' = Append(Rest(o), GetPhoto(o)) /\ state'[o] = "WAITING_FOR_DRONE"
      BY <1>6, <2>2 DEF HandleDroneReconnected, GetPhoto, NoCommand
    <3> QED
      BY <1>3, <1>4, <2>1, <3>1, FollowsQuietly
  <2>3. CASE pending_command[o] = ExecuteMove(o, current_move[o]) /\ current_move[o] \in Moves
    <3>1. /\ tasks' = Append(Rest(o), ExecuteMove(o, current_move[o]))
          /\ state'[o] = "WAITING_FOR_ACK"
      BY <1>6, <2>3 DEF HandleDroneReconnected, ExecuteMove, NoCommand
    <3>2. Sends(o, current_move[o])
      BY <1>6, <2>3 DEF Sends
    <3> QED
      BY <1>3, <2>1, <2>3, <3>1, <3>2, FollowsCommand
  <2> QED
    BY <2>1, <2>2, <2>3 DEF Resumable
<1>7. CASE HandleFatal(o)
  BY <1>1, <1>2, <1>3, <1>7, FollowsEnding DEF HandleFatal
<1>8. CASE Ignore(o)
  BY <1>3, <1>8, FollowsQuietly DEF Ignore, orchVars
<1> QED
  BY <1>5, <1>6, <1>7, <1>8

\* What any step of a mission does to the queue.
LEMMA MissionFollows ==
  ASSUME NEW Q, Carries(Q), tasks \in Seq(Q), MissionTypeOK, NEW o \in Orchs,
         Accounted(o), Resumable(o), Writes(o)
  PROVE  Follows(Q, o, tasks')
  BY StartFollows, SearchFollows, LinkFollows DEF Writes, Handle

-----------------------------------------------------------------------------
(* Steps *)

\* Another part of the program takes a task or publishes events, or neither: the
\* missions do not move and nobody commands anything in their name.
IsNews(x) == /\ x.type \notin CommandTypes
             /\ x.type \in EventTypes => x.to = Subscribed

Served(q, news) ==
  /\ UNCHANGED orchVars
  /\ \/ q = tasks
     \/ tasks # <<>> /\ Task.type \notin EventTypes /\ q = Tail(tasks)
  /\ \A i \in 1..Len(news) : IsNews(news[i])
  /\ tasks' = q \o news

Serves(Q) == \E q, news \in Seq(Q) : Served(q, news)

MissionNext(Q) == (\E o \in Orchs : Writes(o)) \/ Serves(Q)

\* The end of a mission that is announced in the queue has happened, and is
\* announced once.
Farewells ==
  \A i, j \in 1..Len(tasks) :
    tasks[i].type = "SearchEnded" =>
      /\ tasks[i].by \in Orchs /\ state[tasks[i].by] = "ENDED"
      /\ tasks[j].type = "SearchEnded" /\ tasks[j].by = tasks[i].by => i = j

\* No event waits for a mission that had not begun when it was published.
Addressed ==
  \A i \in 1..Len(tasks), o \in Orchs :
    tasks[i].type \in EventTypes /\ o \in tasks[i].to => state[o] # "NEW"

MissionInv(Q) ==
  /\ MissionTypeOK
  /\ tasks \in Seq(Q)
  /\ \A o \in Orchs : Accounted(o) /\ Resumable(o)
  /\ Farewells /\ Addressed

\* The queue after a service.
LEMMA ServedKeeps ==
  ASSUME NEW Q, tasks \in Seq(Q), NEW q \in Seq(Q), NEW news \in Seq(Q), Served(q, news)
  PROVE  /\ tasks' \in Seq(Q) /\ Len(tasks') = Len(q) + Len(news)
         /\ \A k \in 1..Len(news) : tasks'[Len(q) + k] = news[k]
         /\ \A i \in Added(tasks', Len(q)) : /\ i - Len(q) \in 1..Len(news)
                                             /\ tasks'[i] = news[i - Len(q)]
         /\ \E s \in {0, 1} : /\ Len(q) + s = Len(tasks)
                              /\ s = 1 => Task.type \notin EventTypes
                              /\ \A i \in 1..Len(q) : tasks'[i] = tasks[i + s]
<1>1. /\ tasks' \in Seq(Q) /\ Len(tasks') = Len(q) + Len(news)
      /\ \A i \in 1..Len(q) : tasks'[i] = q[i]
      /\ \A k \in 1..Len(news) : tasks'[Len(q) + k] = news[k]
      /\ \A i \in Added(tasks', Len(q)) : /\ i - Len(q) \in 1..Len(news)
                                          /\ tasks'[i] = news[i - Len(q)]
  BY DEF Served, Added
<1>2. CASE q = tasks
  <2>1. Len(q) + 0 = Len(tasks) /\ \A i \in 1..Len(q) : tasks'[i] = tasks[i + 0]
    BY <1>1, <1>2
  <2> QED
    BY <1>1, <2>1
<1>3. CASE q = Tail(tasks) /\ tasks # <<>> /\ Task.type \notin EventTypes
  <2>1. Len(q) + 1 = Len(tasks) /\ \A i \in 1..Len(q) : tasks'[i] = tasks[i + 1]
    BY <1>1, <1>3
  <2> QED
    BY <1>1, <1>3, <2>1
<1> QED
  BY <1>2, <1>3 DEF Served

LEMMA ServesKeeps ==
  ASSUME NEW Q, tasks \in Seq(Q), Serves(Q)
  PROVE  /\ UNCHANGED orchVars
         /\ tasks' \in Seq(Q)
         /\ \E n \in Nat, s \in {0, 1} :
              /\ n + s = Len(tasks) /\ n <= Len(tasks')
              /\ s = 1 => Task.type \notin EventTypes
              /\ \A i \in 1..n : tasks'[i] = tasks[i + s]
              /\ \A i \in Added(tasks', n) : IsNews(tasks'[i])
<1>1. PICK q \in Seq(Q), news \in Seq(Q) : Served(q, news)
  BY DEF Serves
<1>2. PICK s \in {0, 1} : /\ Len(q) + s = Len(tasks)
                          /\ s = 1 => Task.type \notin EventTypes
                          /\ \A i \in 1..Len(q) : tasks'[i] = tasks[i + s]
  BY <1>1, ServedKeeps
<1>3. /\ tasks' \in Seq(Q) /\ Len(tasks') = Len(q) + Len(news)
      /\ \A i \in Added(tasks', Len(q)) : /\ i - Len(q) \in 1..Len(news)
                                          /\ tasks'[i] = news[i - Len(q)]
  BY <1>1, ServedKeeps
<1>4. \A i \in Added(tasks', Len(q)) : IsNews(tasks'[i])
  BY <1>1, <1>3 DEF Served
<1>5. Len(q) \in Nat /\ Len(q) <= Len(tasks')
  BY <1>3
<1>6. UNCHANGED orchVars
  BY <1>1 DEF Served
<1> QED
  BY <1>2, <1>3, <1>4, <1>5, <1>6

\* The same of a step of a mission, with what it adds.
LEMMA WritesKeeps ==
  ASSUME NEW Q, Carries(Q), tasks \in Seq(Q), NEW o \in Orchs, Follows(Q, o, tasks')
  PROVE  /\ tasks' \in Seq(Q)
         /\ \E n \in Nat, s \in {0, 1} :
              /\ n + s = Len(tasks) /\ n <= Len(tasks')
              /\ s = 1 => /\ Task.type \notin CommandTypes
                          /\ Task.type \in EventTypes => Task.to \subseteq {o}
              /\ \A i \in 1..n : \/ tasks'[i] = tasks[i + s]
                                 \/ i + s = 1 /\ Told(o, tasks[1], tasks'[1])
              /\ Parts(o, n, tasks') \/ Commands(o, n, tasks') \/ Continues(o, n, tasks')
<1>1. PICK q \in Seq(Q) :
        /\ Base(o, q)
        /\ Len(q) <= Len(tasks') /\ \A i \in 1..Len(q) : tasks'[i] = q[i]
        /\ \/ Parts(o, Len(q), tasks') \/ Commands(o, Len(q), tasks')
           \/ Continues(o, Len(q), tasks')
  BY DEF Follows
<1>2. PICK s \in {0, 1} : Keeps(o, q, s)
  BY <1>1, BaseKeeps
<1>3. tasks' \in Seq(Q) /\ Len(q) \in Nat
  BY <1>1 DEF Follows
<1>4. /\ Len(q) + s = Len(tasks)
      /\ s = 1 => /\ Task.type \notin CommandTypes
                  /\ Task.type \in EventTypes => Task.to \subseteq {o}
      /\ \A i \in 1..Len(q) : \/ tasks'[i] = tasks[i + s]
                              \/ i + s = 1 /\ Told(o, tasks[1], tasks'[1])
  BY <1>1, <1>2 DEF Keeps
<1> QED
  BY <1>1, <1>3, <1>4

\* Only an item that was queued before, or the last but one of a mission that
\* has just ended, announces an end.
LEMMA FarewellsKept ==
  ASSUME NEW Q, Carries(Q), tasks \in Seq(Q), MissionTypeOK, Farewells, NEW o \in Orchs,
         Writes(o), Follows(Q, o, tasks')
  PROVE  Farewells'
<1>1. PICK n \in Nat, s \in {0, 1} :
        /\ n + s = Len(tasks) /\ n <= Len(tasks')
        /\ \A i \in 1..n : \/ tasks'[i] = tasks[i + s]
                           \/ i + s = 1 /\ Told(o, tasks[1], tasks'[1])
        /\ Parts(o, n, tasks') \/ Commands(o, n, tasks') \/ Continues(o, n, tasks')
  BY WritesKeeps
<1> DEFINE End(r, i) == r[i].type = "SearchEnded"
<1>2. Len(tasks') \in Nat
  BY WritesKeeps
<1>3. ASSUME NEW i \in 1..n, End(tasks', i)
      PROVE  /\ i + s \in 1..Len(tasks) /\ tasks'[i] = tasks[i + s]
             /\ tasks'[i].by \in Orchs /\ state[tasks'[i].by] = "ENDED"
  <2>1. i + s \in 1..Len(tasks)
    BY <1>1
  <2>2. i + s = 1 => i = 1 /\ ~Told(o, tasks[1], tasks'[1])
    BY <1>3 DEF Told, EventTypes, DroneEventTypes, MissionEventTypes, DroneNotice, ChatNotice
  <2>3. tasks'[i] = tasks[i + s]
    BY <1>1, <2>2
  <2> QED
    BY <1>3, <2>1, <2>3 DEF Farewells
<1>4. ASSUME NEW i \in 1..Len(tasks'), End(tasks', i), i \notin 1..n
      PROVE  /\ state[o] # "ENDED" /\ state'[o] = "ENDED"
             /\ i = Len(tasks') - 1 /\ tasks'[i].by = o
  <2>1. i \in Added(tasks', n)
    BY <1>1, <1>2, <1>4 DEF Added
  <2>2. ~Continues(o, n, tasks')
    BY <1>4, <2>1 DEF Continues, Proper, Quiet
  <2>3. ~Commands(o, n, tasks')
    <3>1. ASSUME Commands(o, n, tasks')
          PROVE  i = n + 1
      BY <1>1, <2>1, <3>1 DEF Commands, Added
    <3>2. Commands(o, n, tasks') => tasks'[n + 1].type = "ExecuteMove"
      BY DEF Commands, ExecuteMove
    <3> QED
      BY <1>4, <3>1, <3>2
  <2>4. Parts(o, n, tasks')
    BY <1>1, <2>2, <2>3
  <2>5. i # Len(tasks')
    BY <1>4, <2>4 DEF Parts, Await
  <2>6. ~(i < Len(tasks') - 1)
    BY <1>4, <2>1, <2>4 DEF Parts, Await
  <2>7. i = Len(tasks') - 1
    BY <1>2, <2>5, <2>6
  <2> QED
    BY <2>4, <2>7 DEF Parts, Await
<1>5. ASSUME NEW p \in Orchs, state[p] = "ENDED"
      PROVE  state'[p] = "ENDED"
  <2>1. CASE p = o
    BY <1>1, <1>5, <2>1 DEF Parts, Commands, Continues
  <2>2. CASE p # o
    BY <1>5, <2>2, OthersKept DEF Ledger
  <2> QED
    BY <2>1, <2>2
<1>6. ASSUME NEW i \in 1..Len(tasks'), End(tasks', i)
      PROVE  tasks'[i].by \in Orchs /\ state'[tasks'[i].by] = "ENDED"
  <2>1. CASE i \in 1..n
    BY <1>3, <1>5, <1>6, <2>1 DEF Farewells
  <2>2. CASE i \notin 1..n
    BY <1>4, <1>6, <2>2
  <2> QED
    BY <2>1, <2>2
<1>7. ASSUME NEW i \in 1..Len(tasks'), NEW j \in 1..Len(tasks'),
             End(tasks', i), End(tasks', j), tasks'[j].by = tasks'[i].by
      PROVE  i = j
  <2>1. CASE i \in 1..n /\ j \in 1..n
    <3>1. i + s = j + s
      BY <1>3, <1>7, <2>1 DEF Farewells
    <3> QED
      BY <1>1, <2>1, <3>1
  <2>2. CASE i \in 1..n /\ j \notin 1..n
    BY <1>3, <1>4, <1>7, <2>2
  <2>3. CASE i \notin 1..n /\ j \in 1..n
    BY <1>3, <1>4, <1>7, <2>3
  <2>4. CASE i \notin 1..n /\ j \notin 1..n
    BY <1>4, <1>7, <2>4
  <2> QED
    BY <2>1, <2>2, <2>3, <2>4
<1> QED
  BY <1>6, <1>7 DEF Farewells

\* Nobody else announces the end of a mission.
LEMMA FarewellsServed ==
  ASSUME NEW Q, tasks \in Seq(Q), Farewells, Serves(Q)
  PROVE  Farewells'
<1>1. PICK n \in Nat, s \in {0, 1} :
        /\ n + s = Len(tasks) /\ n <= Len(tasks')
        /\ \A i \in 1..n : tasks'[i] = tasks[i + s]
        /\ \A i \in Added(tasks', n) : IsNews(tasks'[i])
  BY ServesKeeps
<1>2. Len(tasks') \in Nat /\ UNCHANGED state
  BY ServesKeeps DEF orchVars
<1>3. ASSUME NEW i \in 1..Len(tasks'), tasks'[i].type = "SearchEnded"
      PROVE  i + s \in 1..Len(tasks) /\ tasks'[i] = tasks[i + s]
  <2>1. i \notin Added(tasks', n)
    BY <1>1, <1>3 DEF CommandTypes, IsNews
  <2>2. i \in 1..n
    BY <1>1, <1>2, <2>1 DEF Added
  <2> QED
    BY <1>1, <2>2
<1>4. ASSUME NEW i \in 1..Len(tasks'), NEW j \in 1..Len(tasks'),
             tasks'[i].type = "SearchEnded",
             tasks'[j].type = "SearchEnded", tasks'[j].by = tasks'[i].by
      PROVE  i = j
  <2>1. i + s = j + s
    BY <1>3, <1>4 DEF Farewells
  <2> QED
    BY <1>1, <2>1
<1>5. ASSUME NEW i \in 1..Len(tasks'), tasks'[i].type = "SearchEnded"
      PROVE  tasks'[i].by \in Orchs /\ state'[tasks'[i].by] = "ENDED"
  BY <1>2, <1>3, <1>5 DEF Farewells
<1> QED
  BY <1>4, <1>5 DEF Farewells

\* A mission that has begun is never new again, and a handler only shortens the
\* list of those an event waits for.
LEMMA AddressedKept ==
  ASSUME NEW Q, Carries(Q), tasks \in Seq(Q), MissionTypeOK, Addressed, NEW o \in Orchs,
         Writes(o), Follows(Q, o, tasks')
  PROVE  Addressed'
<1>1. PICK n \in Nat, s \in {0, 1} :
        /\ n + s = Len(tasks) /\ n <= Len(tasks')
        /\ \A i \in 1..n : \/ tasks'[i] = tasks[i + s]
                           \/ i + s = 1 /\ Told(o, tasks[1], tasks'[1])
        /\ Parts(o, n, tasks') \/ Commands(o, n, tasks') \/ Continues(o, n, tasks')
  BY WritesKeeps
<1>2. Len(tasks') \in Nat
  BY WritesKeeps
<1>3. ASSUME NEW p \in Orchs, state[p] # "NEW"
      PROVE  state'[p] # "NEW"
  <2>1. CASE p = o
    BY <1>1, <1>3, <2>1 DEF Parts, Commands, Continues
  <2>2. CASE p # o
    BY <1>3, <2>2, OthersKept DEF Ledger
  <2> QED
    BY <2>1, <2>2
<1>4. ASSUME NEW i \in 1..Len(tasks'), NEW p \in Orchs,
             tasks'[i].type \in EventTypes, p \in tasks'[i].to
      PROVE  state[p] # "NEW"
  <2>1. i \notin Added(tasks', n)
    BY <1>1, <1>2, <1>4, AddedIsOwn
  <2>2. i \in 1..n /\ i + s \in 1..Len(tasks)
    BY <1>1, <1>2, <2>1 DEF Added
  <2>3. CASE tasks'[i] = tasks[i + s]
    BY <1>4, <2>2, <2>3 DEF Addressed
  <2>4. CASE i + s = 1 /\ Told(o, tasks[1], tasks'[1])
    <3>1. i = 1 /\ 1 \in 1..Len(tasks)
      BY <2>2, <2>4
    <3>2. tasks[1].type \in EventTypes /\ p \in tasks[1].to
      BY <1>4, <2>4, <3>1 DEF Told
    <3> QED
      BY <3>1, <3>2 DEF Addressed
  <2> QED
    BY <1>1, <2>2, <2>3, <2>4
<1> QED
  BY <1>3, <1>4 DEF Addressed

LEMMA AddressedServed ==
  ASSUME NEW Q, tasks \in Seq(Q), Addressed, Serves(Q)
  PROVE  Addressed'
<1>1. PICK n \in Nat, s \in {0, 1} :
        /\ n + s = Len(tasks) /\ n <= Len(tasks')
        /\ \A i \in 1..n : tasks'[i] = tasks[i + s]
        /\ \A i \in Added(tasks', n) : IsNews(tasks'[i])
  BY ServesKeeps
<1>2. Len(tasks') \in Nat /\ UNCHANGED state
  BY ServesKeeps DEF orchVars
<1>3. ASSUME NEW i \in 1..Len(tasks'), NEW p \in Orchs,
             tasks'[i].type \in EventTypes, p \in tasks'[i].to
      PROVE  state[p] # "NEW"
  <2>1. CASE i \in Added(tasks', n)
    BY <1>1, <1>3, <2>1 DEF IsNews, Subscribed
  <2>2. CASE i \notin Added(tasks', n)
    <3>1. i \in 1..n /\ i + s \in 1..Len(tasks)
      BY <1>1, <1>2, <2>2 DEF Added
    <3> QED
      BY <1>1, <1>3, <3>1 DEF Addressed
  <2> QED
    BY <2>1, <2>2
<1> QED
  BY <1>2, <1>3 DEF Addressed

LEMMA MissionKeeps ==
  ASSUME OrchAssumption, NEW Q, Carries(Q), MissionInv(Q), NEW o \in Orchs, Writes(o)
  PROVE  MissionInv(Q)'
<1> USE DEF MissionInv
<1>1. Follows(Q, o, tasks')
  BY MissionFollows
<1>2. MissionTypeOK' /\ tasks' \in Seq(Q) /\ Farewells' /\ Addressed'
  BY <1>1, MissionTyped, WritesKeeps, FarewellsKept, AddressedKept
<1>3. ASSUME NEW p \in Orchs
      PROVE  Accounted(p)' /\ Resumable(p)'
  <2>1. CASE o = p
    BY <2>1, StartAccounted, SearchAccounted, LinkAccounted DEF Writes, Handle
  <2>2. CASE o # p
    BY <2>2, OthersKept, LedgerKept
  <2> QED
    BY <2>1, <2>2
<1> QED
  BY <1>2, <1>3

LEMMA ServiceStep ==
  ASSUME NEW Q, MissionInv(Q), Serves(Q)
  PROVE  MissionInv(Q)'
<1> USE DEF MissionInv
<1>1. MissionTypeOK'
  BY ServesKeeps DEF orchVars, MissionTypeOK, MissionInv
<1>2. tasks' \in Seq(Q) /\ Farewells' /\ Addressed'
  BY ServesKeeps, FarewellsServed, AddressedServed
<1>3. ASSUME NEW p \in Orchs
      PROVE  Accounted(p)' /\ Resumable(p)'
  BY ServesKeeps, LedgerKept DEF orchVars, Ledger, MissionInv
<1> QED
  BY <1>1, <1>2, <1>3

\* The invariant of the missions, in whichever program they run.
LEMMA MissionNextInv ==
  ASSUME OrchAssumption, NEW Q, Carries(Q), MissionInv(Q), MissionNext(Q)
  PROVE  MissionInv(Q)'
  BY MissionKeeps, ServiceStep DEF MissionNext

LEMMA MissionInit ==
  ASSUME NEW Q, Init
  PROVE  MissionInv(Q)
<1>1. MissionTypeOK
  BY DEF Init, MissionTypeOK, MissionState, StartAt
<1>2. tasks \in Seq(Q) /\ Farewells /\ Addressed
  BY DEF Init, Farewells, Addressed
<1>3. ASSUME NEW o \in Orchs
      PROVE  Accounted(o) /\ Resumable(o)
  BY DEF Init, Accounted, Resumable, MoveOpen, Starting
<1> QED
  BY <1>1, <1>2, <1>3 DEF MissionInv

-----------------------------------------------------------------------------
(* What the invariant says *)

LEMMA InvBudget ==
  ASSUME NEW Q, MissionInv(Q)
  PROVE  MoveBudget
  BY DEF MissionInv, Accounted, MoveBudget

LEMMA InvAccounted ==
  ASSUME NEW Q, MissionInv(Q)
  PROVE  MovesAccounted
  BY DEF MissionInv, Accounted, MovesAccounted, Subscribed

LEMMA InvResumable ==
  ASSUME NEW Q, MissionInv(Q)
  PROVE  PauseResumable
<1>1. ASSUME NEW o \in Subscribed
      PROVE  /\ state[o] = "PAUSED" <=> pending_command[o] # NoCommand
             /\ pending_command[o] \in {NoCommand, GetPhoto(o)}
                                         \cup {ExecuteMove(o, m) : m \in Moves}
             /\ pending_command[o].type = "ExecuteMove"
                  => pending_command[o] = ExecuteMove(o, current_move[o])
  <2>1. Resumable(o) /\ state[o] # "ENDED"
    BY DEF MissionInv, Subscribed
  <2>2. CASE state[o] # "PAUSED"
    BY <2>1, <2>2 DEF Resumable, NoCommand
  <2>3. CASE state[o] = "PAUSED" /\ pending_command[o] = GetPhoto(o)
    BY <2>3 DEF GetPhoto, NoCommand
  <2>4. CASE /\ state[o] = "PAUSED" /\ current_move[o] \in Moves
             /\ pending_command[o] = ExecuteMove(o, current_move[o])
    <3>1. ExecuteMove(o, current_move[o]) # NoCommand
      BY DEF ExecuteMove, NoCommand
    <3> QED
      BY <2>4, <3>1
  <2> QED
    BY <2>1, <2>2, <2>3, <2>4 DEF Resumable
<1> QED
  BY <1>1 DEF PauseResumable

LEMMA InvFarewell ==
  ASSUME NEW Q, MissionInv(Q)
  PROVE  OneFarewell
<1>1. Farewells
  BY DEF MissionInv
<1>2. ASSUME NEW o \in Orchs, NEW i \in Outstanding(o, "SearchEnded")
      PROVE  state[o] = "ENDED"
  BY <1>1 DEF Outstanding, Farewells
<1>3. ASSUME NEW o \in Orchs, NEW i \in Outstanding(o, "SearchEnded"),
             NEW j \in Outstanding(o, "SearchEnded")
      PROVE  i = j
  BY <1>1 DEF Outstanding, Farewells
<1> QED
  BY <1>2, <1>3 DEF OneFarewell, Subscribed

-----------------------------------------------------------------------------
(* Silence after the end *)

\* A queue that has only moved up holds no more tasks of a kind than before.
LEMMA OutstandingShrinks ==
  ASSUME NEW Q, tasks \in Seq(Q), NEW p, NEW type, NEW n \in Nat, NEW s \in {0, 1},
         n + s = Len(tasks),
         \A i \in 1..Len(tasks') :
           tasks'[i].type = type /\ tasks'[i].by = p
             => i \in 1..n /\ tasks'[i] = tasks[i + s]
  PROVE  Cardinality(Outstanding(p, type)') <= Cardinality(Outstanding(p, type))
<1> DEFINE S == Outstanding(p, type)'
           T == Outstanding(p, type)
           f == [i \in S |-> i + s]
<1>1. ASSUME NEW i \in S
      PROVE  i \in Nat /\ i + s \in T
  BY DEF Outstanding
<1>2. f \in Injection(S, T)
  <2>1. f \in [S -> T]
    BY <1>1
  <2>2. \A i, j \in S : f[i] = f[j] => i = j
    BY <1>1
  <2> QED
    BY <2>1, <2>2, Fun_IsInj
<1>3. IsFiniteSet(T)
  <2>1. IsFiniteSet(1..Len(tasks))
    BY FS_Interval
  <2>2. T \in SUBSET (1..Len(tasks))
    BY DEF Outstanding
  <2> QED
    BY <2>1, <2>2, FS_Subset
<1> HIDE DEF S, T, f
<1>4. Cardinality(S) <= Cardinality(T)
  BY <1>2, <1>3, FS_Injection
<1> QED
  BY <1>4 DEF S, T

\* An ended mission stays ended, and no more moves of it are queued.
Silent(o) ==
  state[o] = "ENDED" =>
    /\ state'[o] = "ENDED"
    /\ Cardinality(Outstanding(o, "ExecuteMove")')
         <= Cardinality(Outstanding(o, "ExecuteMove"))

LEMMA SilentMission ==
  ASSUME OrchAssumption, NEW Q, Carries(Q), MissionInv(Q), NEW o \in Orchs, Writes(o),
         NEW p \in Orchs
  PROVE  Silent(p)
<1> SUFFICES ASSUME state[p] = "ENDED"
             PROVE  /\ state'[p] = "ENDED"
                    /\ Cardinality(Outstanding(p, "ExecuteMove")')
                         <= Cardinality(Outstanding(p, "ExecuteMove"))
  BY DEF Silent
<1>1. tasks \in Seq(Q) /\ MissionTypeOK /\ Follows(Q, o, tasks')
  BY MissionFollows DEF MissionInv
<1>2. tasks' \in Seq(Q)
  BY <1>1, WritesKeeps
<1>3. PICK n \in Nat, s \in {0, 1} :
        /\ n + s = Len(tasks) /\ n <= Len(tasks')
        /\ \A i \in 1..n : \/ tasks'[i] = tasks[i + s]
                           \/ i + s = 1 /\ Told(o, tasks[1], tasks'[1])
        /\ Parts(o, n, tasks') \/ Commands(o, n, tasks') \/ Continues(o, n, tasks')
  BY <1>1, WritesKeeps
<1>4. state'[p] = "ENDED"
  <2>1. CASE p = o
    BY <1>3, <2>1 DEF Parts, Commands, Continues
  <2>2. CASE p # o
    BY <1>1, <2>2, OthersKept DEF Ledger
  <2> QED
    BY <2>1, <2>2
<1>5. ASSUME NEW i \in 1..Len(tasks'), tasks'[i].type = "ExecuteMove", tasks'[i].by = p
      PROVE  i \in 1..n /\ tasks'[i] = tasks[i + s]
  <2>1. i \in 1..n \/ i \in Added(tasks', n)
    BY <1>2, <1>3 DEF Added
  <2>2. CASE i \in 1..n
    <3>1. i + s = 1 => i = 1 /\ ~Told(o, tasks[1], tasks'[1])
      BY <1>5 DEF Told, EventTypes, DroneEventTypes, MissionEventTypes, DroneNotice,
                  ChatNotice
    <3> QED
      BY <1>3, <2>2, <3>1
  <2>3. ASSUME i \in Added(tasks', n), Parts(o, n, tasks')
        PROVE  FALSE
    <3>1. i < Len(tasks') - 1 \/ i = Len(tasks') - 1 \/ i = Len(tasks')
      BY <1>2, <1>3, <2>3 DEF Added
    <3> QED
      BY <1>5, <2>3, <3>1 DEF Parts, Await
  <2>4. ASSUME i \in Added(tasks', n), Commands(o, n, tasks')
        PROVE  FALSE
    <3>1. i = n + 1
      BY <1>3, <2>4 DEF Commands, Added
    <3>2. tasks'[n + 1].by = o /\ state[o] # "ENDED"
      BY <2>4 DEF Commands, ExecuteMove
    <3> QED
      BY <1>5, <3>1, <3>2
  <2>5. ASSUME i \in Added(tasks', n), Continues(o, n, tasks')
        PROVE  FALSE
    BY <1>5, <2>5 DEF Continues, Proper, Quiet
  <2> QED
    BY <1>3, <2>1, <2>2, <2>3, <2>4, <2>5
<1> QED
  BY <1>1, <1>3, <1>4, <1>5, OutstandingShrinks

LEMMA SilentService ==
  ASSUME NEW Q, MissionInv(Q), Serves(Q), NEW p \in Orchs
  PROVE  Silent(p)
<1>1. tasks \in Seq(Q) /\ tasks' \in Seq(Q) /\ UNCHANGED state
  BY ServesKeeps DEF MissionInv, orchVars
<1>2. PICK n \in Nat, s \in {0, 1} :
        /\ n + s = Len(tasks) /\ n <= Len(tasks')
        /\ \A i \in 1..n : tasks'[i] = tasks[i + s]
        /\ \A i \in Added(tasks', n) : IsNews(tasks'[i])
  BY <1>1, ServesKeeps
<1>3. ASSUME NEW i \in 1..Len(tasks'), tasks'[i].type = "ExecuteMove", tasks'[i].by = p
      PROVE  i \in 1..n /\ tasks'[i] = tasks[i + s]
  <2>1. i \notin Added(tasks', n)
    BY <1>2, <1>3 DEF CommandTypes, IsNews
  <2>2. i \in 1..n
    BY <1>1, <1>2, <2>1 DEF Added
  <2> QED
    BY <1>2, <2>2
<1>4. Cardinality(Outstanding(p, "ExecuteMove")') <= Cardinality(Outstanding(p, "ExecuteMove"))
  BY <1>1, <1>2, <1>3, OutstandingShrinks
<1> QED
  BY <1>1, <1>4 DEF Silent

LEMMA SilentStep ==
  ASSUME OrchAssumption, NEW Q, Carries(Q), MissionInv(Q), MissionNext(Q), NEW p \in Orchs
  PROVE  Silent(p)
  BY SilentMission, SilentService DEF MissionNext

-----------------------------------------------------------------------------
(* The open environment *)

LEMMA CommandIsNoEvent == CommandTypes \cap EventTypes = {}
  BY DEF CommandTypes, Awaited, EventTypes, DroneEventTypes, MissionEventTypes, DroneNotice,
         ChatNotice

\* What is published for somebody.
News(e) == IF e.to = {} THEN <<>> ELSE <<e>>

LEMMA NewsPublished ==
  ASSUME NEW Q, NEW e \in Q
  PROVE  /\ News(e) \in Seq(Q) /\ Len(News(e)) \in {0, 1}
         /\ \A i \in 1..Len(News(e)) : News(e)[i] = e
         /\ e.to # {} => Len(News(e)) = 1
         /\ \A q \in Seq(Q) : Publish(q, e) = q \o News(e)
<1>1. <<e>> \in Seq(Q) /\ \A i \in 1..Len(<<e>>) : <<e>>[i] = e
  OBVIOUS
<1>2. ASSUME NEW q \in Seq(Q)
      PROVE  Append(q, e) = q \o <<e>> /\ q = q \o <<>>
  OBVIOUS
<1> QED
  BY <1>1, <1>2 DEF News, Publish

\* A step that takes a task, or none, and publishes an event, or none.
LEMMA TakenServes ==
  ASSUME NEW Q, tasks \in Seq(Q), UNCHANGED orchVars,
         \/ tasks' = tasks
         \/ tasks # <<>> /\ Task.type \notin EventTypes /\ tasks' = Tail(tasks)
  PROVE  /\ tasks' \in Seq(Q) /\ Served(tasks', <<>>)
         /\ Serves(Q)
<1>1. <<>> \in Seq(Q) /\ \A i \in 1..Len(<<>>) : IsNews((<<>>)[i])
  OBVIOUS
<1>2. tasks' \in Seq(Q) /\ tasks' = tasks' \o <<>>
  OBVIOUS
<1>3. Served(tasks', <<>>)
  BY <1>1, <1>2 DEF Served
<1> QED
  BY <1>1, <1>2, <1>3 DEF Serves

LEMMA PublishServes ==
  ASSUME NEW Q, tasks \in Seq(Q), UNCHANGED orchVars, NEW q,
         \/ q = tasks
         \/ tasks # <<>> /\ Task.type \notin EventTypes /\ q = Tail(tasks),
         NEW e \in Q, IsNews(e), tasks' = Publish(q, e)
  PROVE  /\ q \in Seq(Q) /\ Served(q, News(e))
         /\ Serves(Q)
<1>1. q \in Seq(Q)
  <2>1. tasks # <<>> => Tail(tasks) \in Seq(Q)
    OBVIOUS
  <2> QED
    BY <2>1
<1>2. Served(q, News(e))
  BY <1>1, NewsPublished DEF Served
<1> QED
  BY <1>1, <1>2, NewsPublished DEF Serves

\* One that appends a task of another component.
LEMMA AppendServes ==
  ASSUME NEW Q, tasks \in Seq(Q), UNCHANGED orchVars,
         NEW x \in Q, IsNews(x), tasks' = Append(tasks, x)
  PROVE  Served(tasks, <<x>>) /\ Serves(Q)
<1>1. <<x>> \in Seq(Q) /\ \A i \in 1..Len(<<x>>) : <<x>>[i] = x
  OBVIOUS
<1>2. Append(tasks, x) = tasks \o <<x>>
  OBVIOUS
<1>3. Served(tasks, <<x>>)
  BY <1>1, <1>2 DEF Served
<1> QED
  BY <1>1, <1>3 DEF Serves

\* What the outside says is an event.
LEMMA DroneSpoken ==
  ASSUME DroneSpeaks
  PROVE  \E e \in Event :
           e.to = Subscribed /\ Announce(e) /\ e.type \in DroneEventTypes
<1> USE DEF DroneEventTypes
<1>1. Subscribed \subseteq Orchs
  BY DEF Subscribed
<1>2. PICK d \in Drones :
        \/ \E type \in DroneNotice :
             Announce([type |-> type, drone |-> d, to |-> Subscribed])
        \/ \E ok \in BOOLEAN :
             Announce([type |-> "MoveExecuted", drone |-> d, ok |-> ok, to |-> Subscribed])
        \/ \E p \in Photos :
             Announce([type |-> "PhotoWithTelemetryReceived", drone |-> d, photo |-> p,
                       to |-> Subscribed])
  BY DEF DroneSpeaks
<1>3. ASSUME NEW type \in DroneNotice
      PROVE  [type |-> type, drone |-> d, to |-> Subscribed] \in Event
  BY <1>1 DEF Event
<1>4. ASSUME NEW ok \in BOOLEAN
      PROVE  [type |-> "MoveExecuted", drone |-> d, ok |-> ok, to |-> Subscribed] \in Event
  BY <1>1 DEF Event
<1>5. ASSUME NEW p \in Photos
      PROVE  [type |-> "PhotoWithTelemetryReceived", drone |-> d, photo |-> p,
              to |-> Subscribed] \in Event
  BY <1>1 DEF Event
<1> QED
  BY <1>2, <1>3, <1>4, <1>5

LEMMA OperatorSpoken ==
  ASSUME OperatorSpeaks
  PROVE  \E e \in Event :
           e.to = Subscribed /\ Announce(e) /\ e.type = "UserDecisionReceived"
<1>1. PICK c \in Missions, decision \in Decisions, m \in Moves :
        Announce([type |-> "UserDecisionReceived", mission |-> c, decision |-> decision,
                  move |-> m, to |-> Subscribed])
  BY DEF OperatorSpeaks
<1>2. [type |-> "UserDecisionReceived", mission |-> c, decision |-> decision,
       move |-> m, to |-> Subscribed] \in Event
  BY DEF Event, Subscribed
<1> QED
  BY <1>1, <1>2

LEMMA Spoken ==
  ASSUME DroneSpeaks \/ ChatSpeaks \/ OperatorSpeaks
  PROVE  \E e \in Event :
           /\ e.to = Subscribed /\ Announce(e)
           /\ e.type = "UserDecisionReceived" => ~(DroneSpeaks \/ ChatSpeaks)
<1>1. Subscribed \subseteq Orchs
  BY DEF Subscribed
<1>2. CASE DroneSpeaks
  BY <1>2, DroneSpoken DEF DroneEventTypes, DroneNotice
<1>3. CASE ChatSpeaks
  <2>1. PICK c \in Missions :
          \/ \E type \in ChatNotice :
               Announce([type |-> type, mission |-> c, to |-> Subscribed])
          \/ \E found \in BOOLEAN, m \in Moves :
               Announce([type |-> "VlmAnalysisCompleted", mission |-> c, found |-> found,
                         move |-> m, to |-> Subscribed])
    BY <1>3 DEF ChatSpeaks
  <2>2. ASSUME NEW type \in ChatNotice
        PROVE  [type |-> type, mission |-> c, to |-> Subscribed] \in Event
    BY <1>1 DEF Event
  <2>3. ASSUME NEW found \in BOOLEAN, NEW m \in Moves
        PROVE  [type |-> "VlmAnalysisCompleted", mission |-> c, found |-> found,
                move |-> m, to |-> Subscribed] \in Event
    BY <1>1 DEF Event
  <2> QED
    BY <2>1, <2>2, <2>3 DEF ChatNotice
<1>4. CASE OperatorSpeaks /\ ~(DroneSpeaks \/ ChatSpeaks)
  BY <1>4, OperatorSpoken
<1> QED
  BY <1>2, <1>3, <1>4

LEMMA NextIsMission ==
  ASSUME tasks \in Seq(Item), [Next]_vars
  PROVE  MissionNext(Item)
<1>1. CASE UNCHANGED vars
  BY <1>1, TakenServes DEF vars, MissionNext
<1>2. CASE TakeCommand
  BY <1>2, CommandIsNoEvent, TakenServes DEF TakeCommand, MissionNext
<1>3. CASE DroneSpeaks \/ ChatSpeaks \/ OperatorSpeaks
  <2>1. PICK e \in Event : e.to = Subscribed /\ Announce(e)
    BY <1>3, Spoken
  <2>2. e \in Item
    BY ItemIs
  <2>3. IsNews(e)
    BY <2>1 DEF IsNews, Event, DroneNotice, ChatNotice, CommandTypes, Awaited
  <2> QED
    BY <2>1, <2>2, <2>3, PublishServes DEF Announce, MissionNext
<1>4. CASE \E o \in Orchs :
             \/ \E g \in Glimpses, prompt_ok \in BOOLEAN : Start(o, g, prompt_ok, tasks)
             \/ AwaitedDone(o) \/ StartCancelled(o) \/ Handle(o)
  BY <1>4 DEF MissionNext, Writes, Starts
<1> QED
  BY <1>1, <1>2, <1>3, <1>4 DEF Next

-----------------------------------------------------------------------------
(* The queue after a step, item by item *)

\* The first n items of r are those of q without its first s, events apart, which
\* their handlers shorten.
Up(q, r, n, s) ==
  /\ n \in Nat /\ s \in {0, 1} /\ Len(q) \in Nat /\ Len(r) \in Nat
  /\ n + s = Len(q) /\ n <= Len(r)
  /\ \A i \in 1..n : \/ r[i] = q[i + s]
                     \/ r[i].type \in EventTypes /\ q[i + s].type \in EventTypes

LEMMA UpCommands ==
  ASSUME NEW q, NEW r, NEW n, NEW s, Up(q, r, n, s)
  PROVE  /\ \A i \in 1..n : r[i].type \in CommandTypes =>
                              i + s \in 1..Len(q) /\ r[i] = q[i + s]
         /\ \A i \in (1 + s)..Len(q) : q[i].type \in CommandTypes =>
                                         i - s \in 1..n /\ r[i - s] = q[i]
         /\ \A i \in 1..Len(r) : i \in 1..n \/ i \in Added(r, n)
         /\ \A i \in 1..n : i \in 1..Len(r)
<1>1. /\ \A i \in 1..n : i + s \in 1..Len(q) /\ i \in 1..Len(r)
      /\ \A i \in (1 + s)..Len(q) : i - s \in 1..n /\ (i - s) + s = i
  BY DEF Up
<1>2. \A i \in 1..Len(r) : i \in 1..n \/ i \in Added(r, n)
  BY DEF Up, Added
<1> QED
  BY <1>1, <1>2, CommandIsNoEvent DEF Up

LEMMA FarewellTypes ==
  {"SearchEnded", "DeleteSession", "AskUserConfirmation", "AnalyzePhoto"} \subseteq CommandTypes
  BY DEF CommandTypes

LEMMA FollowedUp ==
  ASSUME NEW Q, Carries(Q), tasks \in Seq(Q), NEW o \in Orchs, Follows(Q, o, tasks')
  PROVE  \E n \in Nat, s \in {0, 1} :
           /\ Up(tasks, tasks', n, s)
           /\ s = 1 => /\ Task.type \notin CommandTypes
                       /\ Task.type \in EventTypes => Task.to \subseteq {o}
           /\ \A i \in 1..n : \/ tasks'[i] = tasks[i + s]
                              \/ i + s = 1 /\ Told(o, tasks[1], tasks'[1])
           /\ Parts(o, n, tasks') \/ Commands(o, n, tasks') \/ Continues(o, n, tasks')
<1>1. PICK n \in Nat, s \in {0, 1} :
        /\ n + s = Len(tasks) /\ n <= Len(tasks')
        /\ s = 1 => /\ Task.type \notin CommandTypes
                    /\ Task.type \in EventTypes => Task.to \subseteq {o}
        /\ \A i \in 1..n : \/ tasks'[i] = tasks[i + s]
                           \/ i + s = 1 /\ Told(o, tasks[1], tasks'[1])
        /\ Parts(o, n, tasks') \/ Commands(o, n, tasks') \/ Continues(o, n, tasks')
  BY WritesKeeps
<1>2. Len(tasks) \in Nat /\ Len(tasks') \in Nat
  BY WritesKeeps
<1>3. ASSUME NEW i \in 1..n
      PROVE  \/ tasks'[i] = tasks[i + s]
             \/ tasks'[i].type \in EventTypes /\ tasks[i + s].type \in EventTypes
  <2>1. i + s = 1 => i = 1
    OBVIOUS
  <2> QED
    BY <1>1, <2>1 DEF Told
<1>4. Up(tasks, tasks', n, s)
  BY <1>1, <1>2, <1>3 DEF Up
<1> QED
  BY <1>1, <1>4

\* No start() is suspended, and no event waits, before its mission begins.
LEMMA UnderWay ==
  ASSUME NEW Q, MissionInv(Q), NEW o \in Orchs,
         AwaitedDone(o) \/ StartCancelled(o) \/ Handle(o)
  PROVE  state[o] # "NEW"
<1>1. start_at[o] # "none" => state[o] # "NEW"
  BY DEF MissionInv, Accounted
<1>2. EventFor(o) => state[o] # "NEW"
  <2>1. EventFor(o) => /\ 1 \in 1..Len(tasks) /\ Task = tasks[1]
                       /\ tasks[1].type \in EventTypes /\ o \in tasks[1].to
    BY DEF EventFor, EventTypes, Task, MissionInv
  <2> QED
    BY <2>1 DEF MissionInv, Addressed
<1>3. AwaitedDone(o) \/ StartCancelled(o) => start_at[o] # "none"
  BY DEF AwaitedDone, StartCancelled, Awaited
<1>4. StartSave(o) \/ StartSearch(o) \/ StartFirstPhoto(o) => start_at[o] # "none"
  BY DEF StartSave, StartSearch, StartFirstPhoto, Awake
<1>5. \A type : Handles(o, type) => EventFor(o)
  BY HandlesEvent
<1> QED
  BY <1>1, <1>2, <1>3, <1>4, <1>5
  DEF Handle, HandlePhotoAndTelemetry, HandleVlmAnalysis, UserConfirms, UserWarns, UserCancels,
      HandleMoveStarted, MoveSucceeded, MoveFailed, HandleDroneConnectionLost,
      HandleDroneReconnected, HandleFatal, Ignore

-----------------------------------------------------------------------------
(* Questions and answers in the queue *)

\* A mission asks the VLM about a photo, and the operator about a move.
Analysing == [asked |-> "AnalyzePhoto", answered |-> "VlmAnalysisCompleted"]
Confirming == [asked |-> "AskUserConfirmation", answered |-> "UserDecisionReceived"]
Topics == {Analysing, Confirming}

\* x is a question of o that is not handled, or an answer o has to handle.
Token(k, x, o) ==
  \/ x.type = k.asked /\ x.by = o
  \/ x.type = k.answered /\ o \in x.to /\ x.mission = MissionOf[o]

\* No such item is queued; there is at most one; its move is this one.
None(k, q, o) == \A i \in 1..Len(q) : ~Token(k, q[i], o)
One(k, q, o) == \A i, j \in 1..Len(q) : Token(k, q[i], o) /\ Token(k, q[j], o) => i = j
Only(k, q, o, move) ==
  One(k, q, o) /\ \A i \in 1..Len(q) : Token(k, q[i], o) => q[i].move = move

Fewer(k, q, r, o) == /\ None(k, q, o) => None(k, r, o)
                     /\ One(k, q, o) => One(k, r, o)
                     /\ \A move : Only(k, q, o, move) => Only(k, r, o, move)
Same(k, q, r, o) == Fewer(k, q, r, o) /\ (None(k, r, o) => None(k, q, o))

Opens(k, p) ==
  \/ k = Analysing /\ HandlePhotoAndTelemetry(p)
  \/ k = Confirming /\ HandleVlmAnalysis(p) /\ state'[p] = "WAITING_FOR_USER"

LEMMA TopicTypes ==
  ASSUME NEW k \in Topics
  PROVE  /\ k.asked \in CommandTypes /\ k.asked \notin EventTypes
         /\ k.answered \in EventTypes /\ k.answered \notin CommandTypes
         /\ k.answered \in MissionEventTypes /\ k.answered \in Proposing
         /\ k.answered \notin DroneEventTypes
<1>1. k.asked \in CommandTypes
  BY FarewellTypes DEF Topics, Analysing, Confirming
<1>2. k.answered \in EventTypes /\ k.answered \in MissionEventTypes /\ k.answered \in Proposing
  BY DEF Topics, Analysing, Confirming, EventTypes, MissionEventTypes, Proposing
<1>3. k.answered \notin DroneEventTypes
  BY DEF Topics, Analysing, Confirming, DroneEventTypes, DroneNotice
<1> QED
  BY <1>1, <1>2, <1>3, CommandIsNoEvent

LEMMA SameMoves ==
  ASSUME NEW k \in Topics, NEW q, NEW r, NEW t, NEW o, Same(k, q, r, o), Same(k, r, t, o)
  PROVE  Same(k, q, t, o)
  BY DEF Same, Fewer

LEMMA NoneIsOnly ==
  ASSUME NEW k \in Topics, NEW q, NEW o, NEW move, None(k, q, o)
  PROVE  Only(k, q, o, move)
  BY DEF None, One, Only

\* The first n items of r are those of q without the first s, or tell o no more.
LEMMA TokensWithin ==
  ASSUME NEW k \in Topics, NEW q, NEW r, NEW o, Len(q) \in Nat, Len(r) \in Nat, NEW s \in {0, 1},
         \A i \in 1..Len(r) :
           Token(k, r[i], o) => /\ i + s \in 1..Len(q) /\ Token(k, q[i + s], o)
                             /\ r[i].move = q[i + s].move
  PROVE  Fewer(k, q, r, o)
<1>1. None(k, q, o) => None(k, r, o)
  BY DEF None
<1>2. ASSUME One(k, q, o)
      PROVE  One(k, r, o)
  <2>1. ASSUME NEW i \in 1..Len(r), NEW j \in 1..Len(r), Token(k, r[i], o), Token(k, r[j], o)
        PROVE  i = j
    <3>1. i + s = j + s
      BY <1>2, <2>1 DEF One
    <3> QED
      BY <3>1
  <2> QED
    BY <2>1 DEF One
<1>3. ASSUME NEW move, Only(k, q, o, move)
      PROVE  Only(k, r, o, move)
  BY <1>2, <1>3 DEF Only
<1> QED
  BY <1>1, <1>2, <1>3 DEF Fewer

LEMMA TailTokens ==
  ASSUME NEW k \in Topics, NEW Q, NEW q \in Seq(Q), q # <<>>, NEW o
  PROVE  /\ Fewer(k, q, Tail(q), o)
         /\ ~Token(k, Head(q), o) => Same(k, q, Tail(q), o)
         /\ Token(k, Head(q), o) /\ One(k, q, o) => None(k, Tail(q), o)
<1> DEFINE r == Tail(q)
<1>1. /\ Len(q) \in Nat /\ Len(r) \in Nat /\ Len(r) + 1 = Len(q) /\ Head(q) = q[1]
      /\ \A i \in 1..Len(r) : i + 1 \in 1..Len(q) /\ r[i] = q[i + 1]
      /\ \A i \in 1..Len(q) : i # 1 => i - 1 \in 1..Len(r) /\ r[i - 1] = q[i]
  OBVIOUS
<1> HIDE DEF r
<1>2. Fewer(k, q, r, o)
  BY <1>1, TokensWithin
<1>3. ASSUME ~Token(k, Head(q), o), None(k, r, o)
      PROVE  None(k, q, o)
  BY <1>1, <1>3 DEF None
<1>4. ASSUME Token(k, Head(q), o), One(k, q, o)
      PROVE  None(k, r, o)
  <2>1. ASSUME NEW i \in 1..Len(r), Token(k, r[i], o)
        PROVE  FALSE
    <3>1. i + 1 \in 1..Len(q) /\ Token(k, q[i + 1], o) /\ 1 \in 1..Len(q) /\ Token(k, q[1], o)
      BY <1>1, <1>4, <2>1
    <3>2. i + 1 = 1
      BY <1>4, <3>1 DEF One
    <3> QED
      BY <3>2
  <2> QED
    BY <2>1 DEF None
<1> QED
  BY <1>2, <1>3, <1>4 DEF Same, r

LEMMA AppendTokens ==
  ASSUME NEW k \in Topics, NEW Q, NEW q \in Seq(Q), NEW x \in Q, NEW o
  PROVE  /\ ~Token(k, x, o) => Same(k, q, Append(q, x), o)
         /\ Token(k, x, o) => ~None(k, Append(q, x), o)
         /\ Token(k, x, o) /\ None(k, q, o) => Only(k, Append(q, x), o, x.move)
<1> DEFINE r == Append(q, x)
<1>1. /\ Len(q) \in Nat /\ Len(r) \in Nat /\ Len(r) = Len(q) + 1
      /\ \A i \in 1..Len(q) : i \in 1..Len(r) /\ r[i] = q[i]
      /\ \A i \in 1..Len(r) : i \in 1..Len(q) \/ i = Len(r)
      /\ Len(r) \in 1..Len(r) /\ r[Len(r)] = x
  OBVIOUS
<1> HIDE DEF r
<1>2. ASSUME ~Token(k, x, o)
      PROVE  Same(k, q, r, o)
  <2>1. \A i \in 1..Len(r) : Token(k, r[i], o) => i \in 1..Len(q) /\ r[i] = q[i]
    BY <1>1, <1>2
  <2>2. \A i \in 1..Len(r) :
          Token(k, r[i], o) => /\ i + 0 \in 1..Len(q) /\ Token(k, q[i + 0], o)
                            /\ r[i].move = q[i + 0].move
    BY <2>1
  <2>3. Fewer(k, q, r, o)
    BY <1>1, <2>2, TokensWithin
  <2>4. None(k, r, o) => None(k, q, o)
    BY <1>1 DEF None
  <2> QED
    BY <2>3, <2>4 DEF Same
<1>3. Token(k, x, o) => ~None(k, r, o)
  BY <1>1 DEF None
<1>4. ASSUME Token(k, x, o), None(k, q, o)
      PROVE  Only(k, r, o, x.move)
  <2>1. \A i \in 1..Len(r) : Token(k, r[i], o) => i = Len(r)
    BY <1>1, <1>4 DEF None
  <2> QED
    BY <1>1, <2>1 DEF One, Only
<1> QED
  BY <1>2, <1>3, <1>4 DEF r

\* An event that another mission has handled says the same.
LEMMA ToldTokens ==
  ASSUME NEW k \in Topics, NEW p, NEW o, NEW x, NEW y, Told(p, x, y)
  PROVE  /\ Token(k, y, o) => Token(k, x, o) /\ y.move = x.move
         /\ o # p /\ Token(k, x, o) => Token(k, y, o)
<1>1. x.type # k.asked /\ y.type = x.type
  BY TopicTypes DEF Told
<1>2. x.type = k.answered => /\ y.mission = x.mission /\ y.move = x.move
                             /\ y.to = x.to \ {p}
  BY TopicTypes DEF Told
<1> QED
  BY <1>1, <1>2 DEF Token

\* A step of the mission of p, as o sees it.
LEMMA MissionTokens ==
  ASSUME NEW k \in Topics, NEW Q, Carries(Q), tasks \in Seq(Q), MissionTypeOK,
         NEW p \in Orchs, Follows(Q, p, tasks'), NEW o \in Orchs,
         o = p => ~Opens(k, p)
  PROVE  /\ Fewer(k, tasks, tasks', o)
         /\ o # p => Same(k, tasks, tasks', o)
<1>1. PICK n \in Nat, s \in {0, 1} :
        /\ Up(tasks, tasks', n, s)
        /\ s = 1 => /\ Task.type \notin CommandTypes
                    /\ Task.type \in EventTypes => Task.to \subseteq {p}
        /\ \A i \in 1..n : \/ tasks'[i] = tasks[i + s]
                           \/ i + s = 1 /\ Told(p, tasks[1], tasks'[1])
        /\ Parts(p, n, tasks') \/ Commands(p, n, tasks') \/ Continues(p, n, tasks')
  BY FollowedUp
<1>2. /\ Len(tasks) \in Nat /\ Len(tasks') \in Nat /\ n + s = Len(tasks) /\ n <= Len(tasks')
      /\ \A i \in 1..n : i + s \in 1..Len(tasks) /\ i \in 1..Len(tasks')
      /\ \A i \in 1..Len(tasks') : i \in 1..n \/ i \in Added(tasks', n)
  <2>1. Len(tasks) \in Nat /\ Len(tasks') \in Nat /\ n + s = Len(tasks) /\ n <= Len(tasks')
    BY <1>1 DEF Up
  <2> QED
    BY <2>1 DEF Added
<1>3. ASSUME NEW i \in Added(tasks', n), Token(k, tasks'[i], o)
      PROVE  FALSE
  <2>1. tasks'[i].by = p /\ tasks'[i].type \notin EventTypes
    BY <1>1, <1>2, AddedIsOwn
  <2>2. tasks'[i].type = k.asked /\ o = p
    BY <1>3, <2>1, TopicTypes DEF Token
  <2>q. k.asked \in {"AnalyzePhoto", "AskUserConfirmation"}
    BY DEF Topics, Analysing, Confirming
  <2>3. CASE Parts(p, n, tasks')
    <3>1. i < Len(tasks') - 1 \/ i = Len(tasks') - 1 \/ i = Len(tasks')
      BY <1>2 DEF Added
    <3> QED
      BY <2>2, <2>3, <2>q, <3>1 DEF Parts, Await
  <2>4. CASE Commands(p, n, tasks')
    BY <2>2, <2>4, <2>q DEF Commands, Added, ExecuteMove
  <2>5. CASE Continues(p, n, tasks')
    <3>1. CASE k = Analysing
      BY <2>2, <2>5, <3>1 DEF Continues, Proper, Opens, Analysing
    <3>2. CASE k = Confirming
      <4>1. HandleVlmAnalysis(p) /\ (state'[p] = "ENDED" <=> state[p] = "ENDED")
        BY <2>2, <2>5, <3>2 DEF Continues, Proper, Confirming
      <4>2. state[p] = "WAITING_FOR_VLM"
        BY <4>1, HandlesEvent DEF HandleVlmAnalysis, Expected
      <4>3. state'[p] = "WAITING_FOR_USER"
        BY <4>1, <4>2 DEF HandleVlmAnalysis, Goto, Terminate, MissionTypeOK
      <4> QED
        BY <2>2, <3>2, <4>1, <4>3 DEF Opens
    <3> QED
      BY <3>1, <3>2 DEF Topics
  <2> QED
    BY <1>1, <2>3, <2>4, <2>5
<1>4. ASSUME NEW i \in 1..n
      PROVE  /\ Token(k, tasks'[i], o) => /\ Token(k, tasks[i + s], o)
                                       /\ tasks'[i].move = tasks[i + s].move
             /\ o # p /\ Token(k, tasks[i + s], o) => Token(k, tasks'[i], o)
  <2>1. CASE tasks'[i] = tasks[i + s]
    BY <2>1
  <2>2. CASE i + s = 1 /\ Told(p, tasks[1], tasks'[1])
    <3>1. i = 1
      BY <2>2
    <3> QED
      BY <2>2, <3>1, ToldTokens
  <2> QED
    BY <1>1, <2>1, <2>2
<1>5. Fewer(k, tasks, tasks', o)
  <2>1. \A i \in 1..Len(tasks') :
          Token(k, tasks'[i], o) => /\ i + s \in 1..Len(tasks) /\ Token(k, tasks[i + s], o)
                                 /\ tasks'[i].move = tasks[i + s].move
    BY <1>2, <1>3, <1>4
  <2> QED
    BY <1>2, <2>1, TokensWithin
<1>6. ASSUME o # p, None(k, tasks', o)
      PROVE  None(k, tasks, o)
  <2>1. ASSUME NEW i \in 1..Len(tasks), Token(k, tasks[i], o)
        PROVE  FALSE
    <3>1. s = 1 => i # 1
      <4>1. s = 1 /\ i = 1 => Task = tasks[i]
        BY DEF Task
      <4> QED
        BY <1>1, <1>6, <2>1, <4>1, TopicTypes DEF Token
    <3>2. i - s \in 1..n /\ (i - s) + s = i /\ i - s \in 1..Len(tasks')
      BY <1>2, <3>1
    <3>3. Token(k, tasks'[i - s], o)
      BY <1>4, <1>6, <2>1, <3>2
    <3> QED
      BY <1>6, <3>2, <3>3 DEF None
  <2> QED
    BY <2>1 DEF None
<1> QED
  BY <1>5, <1>6 DEF Same

\* The queue once o has handled the event at its head.
LEMMA RestTokens ==
  ASSUME NEW k \in Topics, NEW Q, Carries(Q), tasks \in Seq(Q), NEW o \in Orchs, EventFor(o)
  PROVE  /\ Rest(o) \in Seq(Q) /\ Fewer(k, tasks, Rest(o), o)
         /\ ~Token(k, Task, o) => Same(k, tasks, Rest(o), o)
         /\ Token(k, Task, o) /\ One(k, tasks, o) => None(k, Rest(o), o)
<1> DEFINE q == Rest(o)
<1>1. Base(o, q)
  BY DEF Base
<1>2. /\ tasks # <<>> /\ Task = tasks[1] /\ Len(tasks) \in Nat /\ 1 \in 1..Len(tasks)
      /\ Task \in Q /\ Task.type \in EventTypes
  BY TaskCarries DEF EventFor, Task, EventTypes
<1> HIDE DEF q
<1>3. PICK s \in {0, 1} : q \in Seq(Q) /\ Keeps(o, q, s)
  BY <1>1, BaseKeeps
<1>4. Len(q) \in Nat
  BY <1>3
<1>5. ASSUME NEW i \in 1..Len(q), Token(k, q[i], o)
      PROVE  /\ i + s \in 1..Len(tasks) /\ Token(k, tasks[i + s], o)
             /\ q[i].move = tasks[i + s].move
  <2>1. i + s \in 1..Len(tasks)
    BY <1>3 DEF Keeps
  <2>2. CASE q[i] = tasks[i + s]
    BY <1>5, <2>1, <2>2
  <2>3. CASE i + s = 1 /\ Told(o, tasks[1], q[1])
    <3>1. i = 1
      BY <2>3
    <3> QED
      BY <1>5, <2>1, <2>3, <3>1, ToldTokens
  <2> QED
    BY <1>3, <2>2, <2>3 DEF Keeps
<1>6. Fewer(k, tasks, q, o)
  BY <1>2, <1>4, <1>5, TokensWithin
<1>7. ASSUME ~Token(k, Task, o), None(k, q, o)
      PROVE  None(k, tasks, o)
  <2>1. ASSUME NEW i \in 1..Len(tasks), Token(k, tasks[i], o)
        PROVE  FALSE
    <3>1. i # 1
      BY <1>2, <1>7, <2>1
    <3>2. i - s \in 1..Len(q) /\ (i - s) + s = i
      BY <1>3, <3>1 DEF Keeps
    <3>3. q[i - s] = tasks[i]
      BY <1>3, <3>1, <3>2 DEF Keeps
    <3> QED
      BY <1>7, <2>1, <3>2, <3>3 DEF None
  <2> QED
    BY <2>1 DEF None
<1>8. ASSUME Token(k, Task, o), One(k, tasks, o)
      PROVE  None(k, q, o)
  <2> DEFINE e == [Task EXCEPT !.to = @ \ {o}]
             t == Tail(tasks)
  <2>1. None(k, t, o) /\ t \in Seq(Q)
    BY <1>2, <1>8, TailTokens DEF Task
  <2>2. e \in Q /\ Told(o, Task, e)
    BY <1>2 DEF Carries
  <2>3. ~Token(k, e, o)
    BY <1>2, <2>2, TopicTypes DEF Token, Told
  <2>4. q = t \/ q = <<e>> \o t
    BY DEF Rest, q
  <2> HIDE DEF e, t
  <2>5. \A i \in 1..Len(<<e>> \o t) : \/ (<<e>> \o t)[i] = e
                                      \/ i - 1 \in 1..Len(t) /\ (<<e>> \o t)[i] = t[i - 1]
    BY <2>1, <2>2
  <2> QED
    BY <2>1, <2>3, <2>4, <2>5 DEF None
<1> QED
  BY <1>3, <1>6, <1>7, <1>8 DEF q, Same

-----------------------------------------------------------------------------
(* A step of a mission, as the operator sees it *)

Begins(o) == HandleVlmAnalysis(o) /\ state'[o] = "WAITING_FOR_USER"

\* It goes on waiting for the operator, or for something else.
GoesOn(o) ==
  /\ state'[o] = "WAITING_FOR_USER" <=> state[o] = "WAITING_FOR_USER"
  /\ state[o] = "WAITING_FOR_USER" => (None(Confirming, tasks', o) => None(Confirming, tasks, o))
  /\ current_move' = current_move
  /\ MoveOpen(o)' => MoveOpen(o)

\* A question is asked.
LEMMA AskedTokens ==
  ASSUME NEW Q, Carries(Q), tasks \in Seq(Q), MissionTypeOK, NEW o \in Orchs, Begins(o)
  PROVE  /\ ~None(Confirming, tasks', o)
         /\ None(Confirming, tasks, o) => Only(Confirming, tasks', o, Task.move)
         /\ state[o] = "WAITING_FOR_VLM" /\ Task.move \in Moves
<1> DEFINE q == Rest(o)
           a == Await(o, "SaveSession")
           x == Asked(o, Task.move)
<1>t. Confirming \in Topics
  BY DEF Topics
<1>1. EventFor(o) /\ state[o] = "WAITING_FOR_VLM" /\ Task.type = "VlmAnalysisCompleted"
  BY HandlesEvent DEF Begins, HandleVlmAnalysis, Expected
<1>2. tasks' = Append(Append(q, a), x)
  BY DEF Begins, HandleVlmAnalysis, Goto, Terminate, MissionTypeOK, Asked
<1>3. Task.move \in Moves
  BY <1>1, TaskCarries DEF Proposing
<1>4. a \in Q /\ x \in Q
  BY <1>3 DEF Carries, OwnItems, Awaited
<1>5. q \in Seq(Q) /\ Fewer(Confirming, tasks, q, o)
  BY <1>t, <1>1, RestTokens
<1>6. /\ ~Token(Confirming, a, o) /\ Token(Confirming, x, o) /\ x.move = Task.move
  BY DEF Token, Confirming, Await, Asked
<1> HIDE DEF q, a, x
<1>7. /\ Append(q, a) \in Seq(Q)
      /\ None(Confirming, tasks, o) => None(Confirming, Append(q, a), o)
  BY <1>t, <1>4, <1>5, <1>6, AppendTokens DEF Same, Fewer
<1> QED
  BY <1>t, <1>1, <1>2, <1>3, <1>4, <1>6, <1>7, AppendTokens

\* An answer is handled.
LEMMA AnsweredTokens ==
  ASSUME NEW k \in Topics, NEW Q, Carries(Q), tasks \in Seq(Q), NEW o \in Orchs,
         Handles(o, k.answered)
  PROVE  /\ Token(k, Task, o) /\ ~None(k, tasks, o)
         /\ One(k, tasks, o) => None(k, Rest(o), o)
         /\ \A move : Only(k, tasks, o, move) => Task.move = move
<1>1. EventFor(o) /\ Task.type = k.answered /\ Task.mission = MissionOf[o]
  BY TopicTypes DEF Handles, Concerns
<1>2. /\ tasks # <<>> /\ Task = tasks[1] /\ 1 \in 1..Len(tasks) /\ Token(k, Task, o)
  BY <1>1 DEF EventFor, Task, Token
<1>3. One(k, tasks, o) => None(k, Rest(o), o)
  BY <1>1, <1>2, RestTokens
<1> QED
  BY <1>2, <1>3 DEF None, Only

LEMMA StartGoesOn ==
  ASSUME NEW Q, Carries(Q), MissionInv(Q), NEW o \in Orchs,
         AwaitedDone(o) \/ StartSave(o) \/ StartSearch(o) \/ StartFirstPhoto(o)
  PROVE  GoesOn(o)
<1> USE DEF MissionInv, MissionTypeOK, Goto, MoveOpen
<1>t. Confirming \in Topics
  BY DEF Topics
<1>1. Woken(o) \in Q /\ GetPhoto(o) \in Q /\ \A c \in Awaited : Await(o, c) \in Q
  BY DEF Carries, OwnItems
<1>2. /\ ~Token(Confirming, Woken(o), o) /\ ~Token(Confirming, GetPhoto(o), o)
      /\ \A c \in Awaited : ~Token(Confirming, Await(o, c), o)
  BY DEF Token, Confirming, Woken, GetPhoto, Await, Awaited
<1>3. ASSUME tasks # <<>>, Task = Woken(o)
      PROVE  Tail(tasks) \in Seq(Q) /\ Same(Confirming, tasks, Tail(tasks), o)
  <2>1. ~Token(Confirming, Head(tasks), o)
    BY <1>2, <1>3 DEF Task
  <2> QED
    BY <1>t, <1>3, <2>1, TailTokens
<1>4. CASE AwaitedDone(o)
  <2>1. tasks' = Append(tasks, Woken(o))
    BY <1>4 DEF AwaitedDone, Woken
  <2>2. Same(Confirming, tasks, tasks', o)
    BY <1>t, <1>1, <1>2, <2>1, AppendTokens
  <2> QED
    BY <1>4, <2>2 DEF AwaitedDone, GoesOn, Same
<1>5. CASE StartSave(o)
  <2>1. /\ tasks # <<>> /\ Task = Woken(o)
        /\ tasks' = Append(Tail(tasks), Await(o, "SaveSession"))
    BY <1>5 DEF StartSave, Awake, Woken
  <2>2. Same(Confirming, tasks, tasks', o)
    BY <1>t, <1>1, <1>2, <1>3, <2>1, AppendTokens, SameMoves DEF Awaited
  <2> QED
    BY <1>5, <2>2 DEF StartSave, GoesOn, Same
<1>6. CASE StartFirstPhoto(o)
  <2>1. tasks # <<>> /\ Task = Woken(o) /\ tasks' = Append(Tail(tasks), GetPhoto(o))
    BY <1>6 DEF StartFirstPhoto, Awake, Woken
  <2>2. Same(Confirming, tasks, tasks', o)
    BY <1>t, <1>1, <1>2, <1>3, <2>1, AppendTokens, SameMoves
  <2> QED
    BY <1>6, <2>2 DEF StartFirstPhoto, GoesOn, Same
<1>7. CASE StartSearch(o)
  <2>1. state[o] \in {"IDLE", "ENDED"}
    BY <1>7 DEF StartSearch, Awake, Accounted, Starting
  <2>2. state'[o] \in {"WAITING_FOR_DRONE", "ENDED"}
    BY <1>7, <2>1 DEF StartSearch
  <2> QED
    BY <1>7, <2>1, <2>2 DEF StartSearch, GoesOn
<1> QED
  BY <1>4, <1>5, <1>6, <1>7

LEMMA EventGoesOn ==
  ASSUME NEW Q, Carries(Q), MissionInv(Q), NEW o \in Orchs,
         \/ HandlePhotoAndTelemetry(o) \/ HandleVlmAnalysis(o)
         \/ HandleMoveStarted(o) \/ MoveSucceeded(o) \/ MoveFailed(o)
         \/ HandleDroneConnectionLost(o) \/ HandleDroneReconnected(o)
         \/ HandleFatal(o) \/ UserCancels(o) \/ Ignore(o)
  PROVE  Begins(o) \/ state'[o] = "ENDED" \/ GoesOn(o)
<1> USE DEF MissionInv, MissionTypeOK, Goto, Terminate, MoveOpen
<1>t. Confirming \in Topics
  BY DEF Topics
<1>1. \A type : Handles(o, type) => state[o] \in Expected(type)
  BY HandlesEvent
<1>2. CASE HandlePhotoAndTelemetry(o)
  BY <1>1, <1>2 DEF HandlePhotoAndTelemetry, Expected, GoesOn
<1>3. CASE HandleVlmAnalysis(o)
  BY <1>3 DEF HandleVlmAnalysis, Begins
<1>4. CASE HandleMoveStarted(o)
  BY <1>1, <1>4 DEF HandleMoveStarted, Expected, GoesOn
<1>5. CASE MoveSucceeded(o)
  BY <1>1, <1>5 DEF MoveSucceeded, Expected, GoesOn
<1>6. CASE MoveFailed(o)
  BY <1>1, <1>6 DEF MoveFailed, Expected, GoesOn
<1>7. CASE HandleDroneConnectionLost(o)
  <2>1. /\ state[o] \in {"WAITING_FOR_DRONE", "WAITING_FOR_ACK"} /\ state'[o] = "PAUSED"
        /\ current_move' = current_move
        /\ state[o] = "WAITING_FOR_DRONE" => pending_command'[o] = GetPhoto(o)
    BY <1>1, <1>7 DEF HandleDroneConnectionLost, Expected
  <2>2. GetPhoto(o).type # "ExecuteMove"
    BY DEF GetPhoto
  <2> QED
    BY <2>1, <2>2 DEF GoesOn
<1>8. CASE HandleDroneReconnected(o)
  <2>1. /\ state[o] = "PAUSED" /\ current_move' = current_move
        /\ Resumable(o)
    BY <1>1, <1>8 DEF HandleDroneReconnected, Expected
  <2>2. CASE pending_command[o].type = "ExecuteMove"
    <3>1. state'[o] = "WAITING_FOR_ACK"
      BY <1>8, <2>2 DEF HandleDroneReconnected
    <3> QED
      BY <2>1, <2>2, <3>1 DEF GoesOn
  <2>3. CASE pending_command[o] = GetPhoto(o)
    <3>1. state'[o] = "WAITING_FOR_DRONE"
      BY <1>8, <2>3 DEF HandleDroneReconnected, GetPhoto
    <3> QED
      BY <2>1, <3>1 DEF GoesOn
  <2> QED
    BY <2>1, <2>2, <2>3 DEF Resumable, ExecuteMove
<1>9. CASE HandleFatal(o) \/ UserCancels(o)
  BY <1>9 DEF HandleFatal, UserCancels
<1>10. CASE Ignore(o)
  <2>1. EventFor(o) /\ ~Handles(o, Task.type) /\ tasks' = Rest(o) /\ UNCHANGED orchVars
    BY <1>10 DEF Ignore
  <2>2. ASSUME state[o] = "WAITING_FOR_USER"
        PROVE  ~Token(Confirming, Task, o)
    <3>1. Task.type # "AskUserConfirmation"
      BY <2>1, FarewellTypes, CommandIsNoEvent DEF EventFor, EventTypes
    <3>2. Task.type = "UserDecisionReceived" => Task.mission # MissionOf[o]
      BY <2>1, <2>2 DEF Handles, Concerns, Expected, DroneEventTypes, DroneNotice
    <3> QED
      BY <3>1, <3>2 DEF Token, Confirming
  <2> QED
    BY <1>t, <2>1, <2>2, RestTokens DEF GoesOn, Same, orchVars
<1> QED
  BY <1>2, <1>3, <1>4, <1>5, <1>6, <1>7, <1>8, <1>9, <1>10

LEMMA OwnStep ==
  ASSUME NEW Q, Carries(Q), MissionInv(Q), NEW o \in Orchs, AwaitedDone(o) \/ Handle(o)
  PROVE  \/ Begins(o) \/ UserConfirms(o) \/ UserWarns(o) \/ state'[o] = "ENDED" \/ GoesOn(o)
  BY StartGoesOn, EventGoesOn DEF Handle

\* A mission begins to wait for the operator with the move the VLM has proposed.
LEMMA EntersAsking ==
  ASSUME MissionTypeOK, NEW Q, Carries(Q), tasks \in Seq(Q), NEW o \in Orchs,
         AwaitedDone(o) \/ StartCancelled(o) \/ Handle(o),
         state'[o] = "WAITING_FOR_USER", state[o] # "WAITING_FOR_USER"
  PROVE  HandleVlmAnalysis(o) /\ Task.move \in Moves
<1> USE DEF MissionTypeOK, Goto, Terminate
<1>1. HandleVlmAnalysis(o) => Task.move \in Moves
  BY HandlesEvent, TaskCarries DEF HandleVlmAnalysis, Proposing
<1>2. ~(AwaitedDone(o) \/ StartCancelled(o) \/ StartSave(o) \/ StartSearch(o)
          \/ StartFirstPhoto(o) \/ Ignore(o))
  BY DEF AwaitedDone, StartCancelled, StartSave, StartSearch, StartFirstPhoto, Ignore, orchVars
<1>3. ~(HandlePhotoAndTelemetry(o) \/ UserConfirms(o) \/ UserWarns(o) \/ UserCancels(o))
  BY DEF HandlePhotoAndTelemetry, UserConfirms, UserWarns, UserCancels
<1>4. ~(HandleMoveStarted(o) \/ MoveSucceeded(o) \/ MoveFailed(o) \/ HandleFatal(o))
  BY DEF HandleMoveStarted, MoveSucceeded, MoveFailed, HandleFatal
<1>5. ~(HandleDroneConnectionLost(o) \/ HandleDroneReconnected(o))
  BY DEF HandleDroneConnectionLost, HandleDroneReconnected
<1> QED
  BY <1>1, <1>2, <1>3, <1>4, <1>5 DEF Handle

\* No mission begins with it.
LEMMA UnderWayKept ==
  ASSUME NEW Q, Carries(Q), MissionInv(Q), NEW p \in Orchs, AwaitedDone(p) \/ Handle(p)
  PROVE  Subscribed' \subseteq Subscribed
<1>1. state[p] # "NEW" /\ Writes(p)
  BY UnderWay DEF Writes
<1>2. Follows(Q, p, tasks')
  BY <1>1, MissionFollows DEF MissionInv
<1>3. \A o \in Orchs \ {p} : state'[o] = state[o]
  BY <1>1, OthersKept DEF Ledger, MissionInv
<1>4. state[p] = "ENDED" => state'[p] = "ENDED"
  BY <1>2 DEF Follows, Parts, Commands, Continues
<1> QED
  BY <1>1, <1>3, <1>4 DEF Subscribed

-----------------------------------------------------------------------------
(* Theorems *)

LEMMA Invariant == Spec => []MissionInv(Item)
<1>1. Init => MissionInv(Item)
  BY MissionInit
<1>2. MissionInv(Item) /\ [Next]_vars => MissionInv(Item)'
  <2>1. MissionInv(Item) => tasks \in Seq(Item)
    BY DEF MissionInv
  <2> QED
    BY <2>1, OrchAssumption, ItemCarries, NextIsMission, MissionNextInv
<1> QED
  BY <1>1, <1>2, PTL DEF Spec

(* Every variable of a mission, and every task of the event loop, keeps the  *)
(* shape the handlers of search_orchestrator.py rely on.                     *)
THEOREM TypeCorrect == Spec => []TypeOK
<1>1. MissionInv(Item) => TypeOK
  <2>1. tasks \in Seq(Item) => tasks \in Seq(Event \cup Command \cup WakeUp)
    BY ItemIs
  <2> QED
    BY <2>1 DEF MissionInv, MissionTypeOK, TypeOK
<1> QED
  BY <1>1, Invariant, PTL

(* However reports, losses and reconnections interleave, a mission neither   *)
(* counts more moves than the operator confirmed nor lets the operator       *)
(* confirm more than glimpses - 1.                                           *)
THEOREM BudgetKept == Spec => []MoveBudget
<1>1. MissionInv(Item) => MoveBudget
  BY OrchAssumption, ItemCarries, InvBudget
<1> QED
  BY <1>1, Invariant, PTL

(* A mission under way differs from the operator's count of moves by exactly *)
(* the one move it has open, acknowledged or not, flying or paused.          *)
THEOREM MovesCounted == Spec => []MovesAccounted
<1>1. MissionInv(Item) => MovesAccounted
  BY OrchAssumption, ItemCarries, InvAccounted
<1> QED
  BY <1>1, Invariant, PTL

(* A paused mission remembers the photo request or the move it was waiting   *)
(* on, and no other state remembers one: handle_drone_reconnected always has *)
(* exactly the interrupted command to send.                                  *)
THEOREM PausesResumable == Spec => []PauseResumable
<1>1. MissionInv(Item) => PauseResumable
  BY OrchAssumption, ItemCarries, InvResumable
<1> QED
  BY <1>1, Invariant, PTL

(* Whatever fails after the end of a mission, and however often, the manager *)
(* and the interfaces are told of that end once, and never before it.        *)
THEOREM FarewellIsOnce == Spec => []OneFarewell
<1>1. MissionInv(Item) => OneFarewell
  BY OrchAssumption, ItemCarries, InvFarewell
<1> QED
  BY <1>1, Invariant, PTL

(* _terminate_mission is final: no handler still queued, no report, no       *)
(* reconnection and no start() that wakes up late makes an ended mission     *)
(* command another move.                                                     *)
THEOREM EndIsSilent == Spec => NoFlightAfterEnd
<1>1. MissionInv(Item) /\ [Next]_vars => \A o \in Orchs : Silent(o)
  <2>1. MissionInv(Item) => tasks \in Seq(Item)
    BY DEF MissionInv
  <2> QED
    BY <2>1, OrchAssumption, ItemCarries, NextIsMission, SilentStep
<1>2. MissionInv(Item) /\ [Next]_vars =>
        [\A o \in Orchs :
           state[o] = "ENDED" =>
             /\ state'[o] = "ENDED"
             /\ Cardinality(Outstanding(o, "ExecuteMove")')
                  <= Cardinality(Outstanding(o, "ExecuteMove"))]_vars
  BY <1>1 DEF Silent
<1> QED
  BY <1>2, Invariant, PTL DEF Spec, NoFlightAfterEnd
=============================================================================
