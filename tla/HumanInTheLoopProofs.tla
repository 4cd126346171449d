------------------------- MODULE HumanInTheLoopProofs -------------------------
(***************************************************************************)
(* SearchOrchestrator implements HumanInTheLoop, for any number of         *)
(* missions, any queue and any budget, in whichever program its missions   *)
(* run (MissionNext).                                                      *)
(***************************************************************************)
EXTENDS SearchOrchestratorProofs

\* The moves queue q orders for p, in its first n items and in all of them.
OrdersBelow(q, n, p) ==
  {q[i].move : i \in {j \in 1..n : q[j].type = "ExecuteMove" /\ q[j].by = p}}
OrdersIn(q, p) == OrdersBelow(q, Len(q), p)

OrderOf(x, p) == IF x.type = "ExecuteMove" /\ x.by = p THEN {x.move} ELSE {}

-----------------------------------------------------------------------------
(* The queue *)

LEMMA OrderedIsOrdersIn ==
  ASSUME NEW p
  PROVE  Ordered(p) = OrdersIn(tasks, p) /\ Ordered(p)' = OrdersIn(tasks', p)
  BY DEF Ordered, Outstanding, OrdersIn, OrdersBelow

LEMMA AppendOrders ==
  ASSUME NEW Q, NEW q \in Seq(Q), NEW x \in Q, NEW p
  PROVE  OrdersIn(Append(q, x), p) = OrdersIn(q, p) \cup OrderOf(x, p)
<1> DEFINE r == Append(q, x)
<1>1. /\ Len(r) = Len(q) + 1 /\ Len(q) \in Nat
      /\ \A i \in 1..Len(q) : r[i] = q[i]
      /\ r[Len(q) + 1] = x
  OBVIOUS
<1> HIDE DEF r
<1>2. ASSUME NEW m, m \in OrdersIn(r, p)
      PROVE  m \in OrdersIn(q, p) \cup OrderOf(x, p)
  <2>1. PICK i \in 1..Len(r) : r[i].type = "ExecuteMove" /\ r[i].by = p /\ m = r[i].move
    BY <1>2 DEF OrdersIn, OrdersBelow
  <2>2. CASE i \in 1..Len(q)
    BY <1>1, <2>1, <2>2 DEF OrdersIn, OrdersBelow
  <2>3. CASE i = Len(q) + 1
    BY <1>1, <2>1, <2>3 DEF OrderOf
  <2> QED
    BY <1>1, <2>1, <2>2, <2>3
<1>3. ASSUME NEW m, m \in OrdersIn(q, p)
      PROVE  m \in OrdersIn(r, p)
  <2>1. PICK i \in 1..Len(q) : q[i].type = "ExecuteMove" /\ q[i].by = p /\ m = q[i].move
    BY <1>3 DEF OrdersIn, OrdersBelow
  <2>2. i \in 1..Len(r)
    BY <1>1
  <2> QED
    BY <1>1, <2>1, <2>2 DEF OrdersIn, OrdersBelow
<1>4. OrderOf(x, p) \subseteq OrdersIn(r, p)
  <2>1. Len(q) + 1 \in 1..Len(r)
    BY <1>1
  <2> QED
    BY <1>1, <2>1 DEF OrderOf, OrdersIn, OrdersBelow
<1> QED
  BY <1>2, <1>3, <1>4 DEF r

\* An event is no order, whoever has handled it, and what takes or handles a
\* task takes no order away.
LEMMA KeptOrders ==
  ASSUME NEW o, NEW p, NEW r, NEW n \in Nat, NEW s \in {0, 1}, Len(tasks) \in Nat,
         n + s = Len(tasks), s = 1 => Task.type \notin CommandTypes,
         \A i \in 1..n : r[i] = tasks[i + s] \/ (i + s = 1 /\ Told(o, tasks[1], r[1]))
  PROVE  OrdersBelow(r, n, p) = OrdersIn(tasks, p)
<1> DEFINE Order(q, i) == q[i].type = "ExecuteMove" /\ q[i].by = p
<1>1. ASSUME NEW i \in 1..n, Order(r, i) \/ Order(tasks, i + s)
      PROVE  i + s \in 1..Len(tasks) /\ r[i] = tasks[i + s]
  <2>1. i + s \in 1..Len(tasks)
    OBVIOUS
  <2>2. i + s = 1 => i = 1 /\ ~Told(o, tasks[1], r[1])
    BY <1>1 DEF Told, EventTypes, DroneEventTypes, MissionEventTypes, DroneNotice, ChatNotice
  <2> QED
    BY <2>1, <2>2
<1>2. ASSUME NEW i \in 1..Len(tasks), Order(tasks, i)
      PROVE  i - s \in 1..n /\ (i - s) + s = i
  <2>1. s = 1 => i # 1
    BY <1>2 DEF Task, CommandTypes
  <2> QED
    BY <2>1
<1>3. ASSUME NEW m, m \in OrdersIn(tasks, p)
      PROVE  \E i \in 1..n : Order(r, i) /\ m = r[i].move
  <2>1. PICK i \in 1..Len(tasks) : Order(tasks, i) /\ m = tasks[i].move
    BY <1>3 DEF OrdersIn, OrdersBelow
  <2>2. i - s \in 1..n /\ r[i - s] = tasks[i]
    BY <1>1, <1>2, <2>1
  <2> QED
    BY <2>1, <2>2
<1>4. ASSUME NEW i \in 1..n, Order(r, i)
      PROVE  r[i].move \in OrdersIn(tasks, p)
  BY <1>1, <1>4 DEF OrdersIn, OrdersBelow
<1> QED
  BY <1>3, <1>4 DEF OrdersBelow

\* The three steps that send a move.
LEMMA SendsMoves ==
  ASSUME MissionTypeOK, NEW o \in Orchs, NEW move, Sends(o, move)
  PROVE  /\ EventFor(o) /\ state[o] \in {"WAITING_FOR_USER", "FLYING", "PAUSED"}
         /\ state'[o] = "WAITING_FOR_ACK"
         /\ tasks' = Append(Rest(o), ExecuteMove(o, move))
<1>1. \A type : Handles(o, type) => EventFor(o) /\ state[o] \in Expected(type)
  BY HandlesEvent
<1>2. CASE UserConfirms(o) /\ move = Task.move
  BY <1>1, <1>2 DEF UserConfirms, Goto, MissionTypeOK, Expected
<1>3. CASE MoveFailed(o) /\ state'[o] = "WAITING_FOR_ACK" /\ move = current_move[o]
  BY <1>1, <1>3 DEF MoveFailed, Terminate, Goto, MissionTypeOK, Expected
<1>4. CASE HandleDroneReconnected(o) /\ pending_command[o] = ExecuteMove(o, move)
  BY <1>1, <1>4
  DEF HandleDroneReconnected, ExecuteMove, NoCommand, MissionTypeOK, Expected
<1> QED
  BY <1>2, <1>3, <1>4 DEF Sends

LEMMA SendingStep ==
  ASSUME NEW Q, Carries(Q), tasks \in Seq(Q), MissionTypeOK, NEW o \in Orchs, NEW p,
         NEW move \in Moves, Sends(o, move)
  PROVE  Ordered(p)' = Ordered(p) \cup (IF p = o THEN {move} ELSE {})
<1>1. EventFor(o) /\ tasks' = Append(Rest(o), ExecuteMove(o, move))
  BY SendsMoves
<1>2. Base(o, Rest(o))
  BY <1>1 DEF Base
<1>3. Rest(o) \in Seq(Q) /\ \E s \in {0, 1} : Keeps(o, Rest(o), s)
  BY <1>2, BaseKeeps
<1> DEFINE q == Rest(o)
<1> HIDE DEF q
<1>4. PICK s \in {0, 1} : Keeps(o, q, s)
  BY <1>3 DEF q
<1>5. OrdersIn(q, p) = OrdersIn(tasks, p)
  <2>1. Len(q) \in Nat /\ Len(tasks) \in Nat
    BY <1>3 DEF q
  <2> QED
    BY <1>4, <2>1, KeptOrders DEF Keeps, OrdersIn
<1>6. ExecuteMove(o, move) \in Q
  BY DEF Carries, OwnItems
<1>7. OrdersIn(tasks', p) = OrdersIn(q, p) \cup OrderOf(ExecuteMove(o, move), p)
  BY <1>1, <1>3, <1>6, AppendOrders DEF q
<1>8. OrderOf(ExecuteMove(o, move), p) = IF p = o THEN {move} ELSE {}
  BY DEF OrderOf, ExecuteMove
<1> QED
  BY <1>5, <1>7, <1>8, OrderedIsOrdersIn

\* Every other step of a mission orders nothing.
LEMMA QuietStep ==
  ASSUME NEW Q, Carries(Q), MissionInv(Q), NEW o \in Orchs, NEW p, Writes(o),
         \A move \in Moves : ~Sends(o, move)
  PROVE  Ordered(p)' = Ordered(p)
<1> USE DEF MissionInv
<1>1. Follows(Q, o, tasks')
  BY MissionFollows
<1>2. PICK n \in Nat, s \in {0, 1} :
        /\ n + s = Len(tasks) /\ n <= Len(tasks')
        /\ s = 1 => Task.type \notin CommandTypes
        /\ \A i \in 1..n : \/ tasks'[i] = tasks[i + s]
                           \/ i + s = 1 /\ Told(o, tasks[1], tasks'[1])
        /\ Parts(o, n, tasks') \/ Commands(o, n, tasks') \/ Continues(o, n, tasks')
  BY <1>1, WritesKeeps
<1>3. Len(tasks') \in Nat /\ Len(tasks) \in Nat
  BY <1>1, WritesKeeps
<1>4. ~Commands(o, n, tasks')
  BY DEF Commands
<1>5. ASSUME NEW i \in Added(tasks', n)
      PROVE  tasks'[i].type # "ExecuteMove"
  <2>1. CASE Continues(o, n, tasks')
    BY <2>1 DEF Continues, Proper, Quiet
  <2>2. CASE Parts(o, n, tasks')
    <3>1. i < Len(tasks') - 1 \/ i = Len(tasks') - 1 \/ i = Len(tasks')
      BY <1>3 DEF Added
    <3> QED
      BY <2>2, <3>1 DEF Parts, Await
  <2> QED
    BY <1>2, <1>4, <2>1, <2>2
<1>6. {j \in 1..Len(tasks') : tasks'[j].type = "ExecuteMove" /\ tasks'[j].by = p}
        = {j \in 1..n : tasks'[j].type = "ExecuteMove" /\ tasks'[j].by = p}
  <2>1. \A j \in 1..Len(tasks') : j \in 1..n \/ j \in Added(tasks', n)
    BY <1>3 DEF Added
  <2>2. \A j \in 1..n : j \in 1..Len(tasks')
    BY <1>2, <1>3
  <2> QED
    BY <1>5, <2>1, <2>2
<1>7. OrdersIn(tasks', p) = OrdersBelow(tasks', n, p)
  BY <1>6 DEF OrdersIn, OrdersBelow
<1>8. OrdersIn(tasks', p) = OrdersIn(tasks, p)
  BY <1>2, <1>3, <1>7, KeptOrders
<1> QED
  BY <1>8, OrderedIsOrdersIn

-----------------------------------------------------------------------------
(* The mapping *)

Stages == [o \in Orchs |-> Stage(o)]
Orders == [o \in Orchs |-> Ordered(o)]

\* A step of o moves no other mission.
LEMMA StagesMove ==
  ASSUME MissionTypeOK, NEW o \in Orchs, Writes(o)
  PROVE  Stages' = [Stages EXCEPT ![o] = Stage(o)']
<1>1. ASSUME NEW p \in Orchs \ {o}
      PROVE  Stage(p)' = Stage(p)
  <2>1. UNCHANGED Ledger(p)
    BY OthersKept
  <2> QED
    BY <2>1 DEF Ledger, Stage, MoveOpen
<1> QED
  BY <1>1 DEF Stages

LEMMA OrdersKept ==
  ASSUME \A p \in Orchs : Ordered(p)' = Ordered(p)
  PROVE  UNCHANGED Orders
  BY DEF Orders

LEMMA OrdersGrow ==
  ASSUME NEW Q, Carries(Q), tasks \in Seq(Q), MissionTypeOK, NEW o \in Orchs,
         NEW move \in Moves, Sends(o, move)
  PROVE  Orders' = [Orders EXCEPT ![o] = @ \cup {move}]
<1>1. ASSUME NEW p \in Orchs
      PROVE  Ordered(p)' = Ordered(p) \cup (IF p = o THEN {move} ELSE {})
  BY SendingStep
<1> QED
  BY <1>1 DEF Orders

LEMMA StagesOf ==
  ASSUME NEW o \in Orchs
  PROVE  Stages[o] = Stage(o) /\ Orders[o] = Ordered(o)
  BY DEF Stages, Orders

\* Steps the promise does not see.
LEMMA HiddenStep ==
  ASSUME OrchAssumption, NEW Q, Carries(Q), MissionInv(Q), NEW o \in Orchs,
         \/ AwaitedDone(o) \/ StartCancelled(o)
         \/ StartSave(o) \/ StartSearch(o) \/ StartFirstPhoto(o)
         \/ HandlePhotoAndTelemetry(o) \/ HandleMoveStarted(o)
         \/ HandleDroneConnectionLost(o) \/ Ignore(o)
  PROVE  UNCHANGED <<Stages, Orders, current_move, moves_performed, max_moves>>
<1>1. MissionTypeOK /\ tasks \in Seq(Q) /\ Accounted(o) /\ Resumable(o)
  BY DEF MissionInv
<1>2. UNCHANGED Orders
  <2>1. state'[o] = state[o] \/ state'[o] # "WAITING_FOR_ACK"
    BY <1>1
    DEF MissionTypeOK, AwaitedDone, StartCancelled, StartSave, StartSearch, StartFirstPhoto,
        HandlePhotoAndTelemetry, HandleMoveStarted, HandleDroneConnectionLost, Ignore, Goto,
        orchVars
  <2>2. \A move \in Moves : ~Sends(o, move)
    BY <1>1, <2>1, SendsMoves
  <2> QED
    BY <2>2, QuietStep, OrdersKept DEF Writes, Handle
<1>3. \A type : Handles(o, type) => state[o] \in Expected(type)
  BY HandlesEvent
<1>4. /\ Stage(o)' = Stage(o)
      /\ UNCHANGED <<current_move, moves_performed, max_moves>>
  <2> USE <1>1 DEF MissionTypeOK, Goto, Stage, MoveOpen
  <2>1. CASE AwaitedDone(o)
    BY <2>1 DEF AwaitedDone
  <2>2. CASE StartCancelled(o)
    BY <2>2 DEF StartCancelled
  <2>3. CASE StartSave(o)
    BY <2>3 DEF StartSave
  <2>4. CASE StartSearch(o)
    BY <2>4 DEF StartSearch, Awake, Accounted, Starting
  <2>5. CASE StartFirstPhoto(o)
    BY <2>5 DEF StartFirstPhoto
  <2>6. CASE HandlePhotoAndTelemetry(o)
    BY <1>3, <2>6 DEF HandlePhotoAndTelemetry, Expected
  <2>7. CASE HandleMoveStarted(o)
    BY <1>3, <2>7 DEF HandleMoveStarted, Expected
  <2>8. CASE HandleDroneConnectionLost(o)
    BY <1>3, <2>8 DEF HandleDroneConnectionLost, Expected, GetPhoto, ExecuteMove
  <2>9. CASE Ignore(o)
    BY <2>9 DEF Ignore, orchVars
  <2> QED
    BY <2>1, <2>2, <2>3, <2>4, <2>5, <2>6, <2>7, <2>8, <2>9
<1>5. UNCHANGED Stages
  <2>1. Stages' = [Stages EXCEPT ![o] = Stage(o)']
    BY <1>1, StagesMove DEF Writes, Handle
  <2> QED
    BY <1>4, <2>1, StagesOf DEF Stages
<1> QED
  BY <1>2, <1>4, <1>5

\* Steps that change the stage and order nothing.
LEMMA StageStep ==
  ASSUME OrchAssumption, NEW Q, Carries(Q), MissionInv(Q), NEW o \in Orchs,
         \/ Starts(o)
         \/ HandleVlmAnalysis(o) \/ UserWarns(o) \/ UserCancels(o)
         \/ MoveSucceeded(o) \/ HandleFatal(o)
  PROVE  \/ Promise!Begin(o) \/ Promise!Ask(o) \/ Promise!Decline(o)
         \/ Promise!Arrive(o) \/ Promise!Finish(o)
<1>1. MissionTypeOK /\ tasks \in Seq(Q) /\ Accounted(o) /\ Resumable(o)
  BY DEF MissionInv
<1>2. UNCHANGED Orders
  <2>1. state'[o] = state[o] \/ state'[o] # "WAITING_FOR_ACK"
    BY <1>1
    DEF MissionTypeOK, Starts, Start, HandleVlmAnalysis, UserWarns, UserCancels,
        MoveSucceeded, HandleFatal, Goto, Terminate
  <2>2. \A move \in Moves : ~Sends(o, move)
    BY <1>1, <2>1, SendsMoves
  <2> QED
    BY <2>2, QuietStep, OrdersKept DEF Writes, Handle
<1>3. /\ Stages' = [Stages EXCEPT ![o] = Stage(o)']
      /\ Stages[o] = Stage(o)
  BY <1>1, StagesMove, StagesOf DEF Writes, Handle
<1>4. \A type : Handles(o, type) => state[o] \in Expected(type)
  BY HandlesEvent
<1> USE <1>1, <1>2, <1>3 DEF Stages, Orders
<1>5. CASE Starts(o)
  <2>1. PICK g \in Glimpses, ok \in BOOLEAN :
          Start(o, g, ok, tasks) \/ Start(o, g, ok, Tail(tasks))
    BY <1>5 DEF Starts
  <2>2. /\ state[o] = "NEW" /\ state'[o] \in {"IDLE", "ENDED"}
        /\ max_moves' = [max_moves EXCEPT ![o] = g - 1]
        /\ UNCHANGED <<current_move, moves_performed>>
    BY <2>1 DEF Start, Goto, Terminate, MissionTypeOK
  <2>3. Stage(o) = "new" /\ Stage(o)' \in {"looking", "over"}
    BY <2>2 DEF Stage, MoveOpen
  <2>4. g - 1 \in {h - 1 : h \in Glimpses}
    OBVIOUS
  <2> QED
    BY <2>2, <2>3, <2>4 DEF Promise!Begin, Promise!Enter
<1>6. CASE HandleVlmAnalysis(o)
  <2>1. state[o] = "WAITING_FOR_VLM"
    BY <1>4, <1>6 DEF HandleVlmAnalysis, Expected
  <2>2. /\ \/ state'[o] = "WAITING_FOR_USER" /\ ~(moves_performed[o] >= max_moves[o])
           \/ state'[o] = "ENDED"
        /\ UNCHANGED <<current_move, moves_performed, max_moves>>
    BY <1>6 DEF HandleVlmAnalysis, Goto, Terminate, MissionTypeOK
  <2>3. moves_performed[o] \in Int /\ max_moves[o] \in Int
    BY DEF MissionTypeOK
  <2>4. /\ Stage(o) = "looking"
        /\ \/ Stage(o)' = "asking" /\ moves_performed[o] < max_moves[o]
           \/ Stage(o)' = "over"
    BY <2>1, <2>2, <2>3 DEF Stage, MoveOpen
  <2> QED
    BY <2>2, <2>4 DEF Promise!Ask, Promise!Finish, Promise!Enter
<1>7. CASE UserWarns(o)
  <2>1. /\ Stage(o) = "asking" /\ Stage(o)' = "looking"
        /\ UNCHANGED <<current_move, moves_performed, max_moves>>
    BY <1>4, <1>7 DEF UserWarns, Goto, Stage, MoveOpen, MissionTypeOK, Expected
  <2> QED
    BY <2>1 DEF Promise!Decline, Promise!Enter
<1>8. CASE UserCancels(o) \/ HandleFatal(o)
  <2>1. state[o] # "ENDED"
    BY <1>4, <1>8 DEF UserCancels, HandleFatal, Fatal, ChatNotice, Expected
  <2>2. /\ Stage(o) # "over" /\ Stage(o)' = "over"
        /\ UNCHANGED <<current_move, moves_performed, max_moves>>
    BY <1>8, <2>1 DEF UserCancels, HandleFatal, Goto, Terminate, Stage, MoveOpen, MissionTypeOK
  <2> QED
    BY <2>2 DEF Promise!Finish, Promise!Enter
<1>9. CASE MoveSucceeded(o)
  <2>1. /\ Stage(o) = "moving" /\ Stage(o)' = "looking"
        /\ moves_performed' = [moves_performed EXCEPT ![o] = @ + 1]
        /\ UNCHANGED <<current_move, max_moves>>
    BY <1>4, <1>9 DEF MoveSucceeded, Goto, Stage, MoveOpen, MissionTypeOK, Expected
  <2> QED
    BY <2>1 DEF Promise!Arrive, Promise!Enter
<1> QED
  BY <1>5, <1>6, <1>7, <1>8, <1>9

\* Steps that may order a move.
LEMMA OrderStep ==
  ASSUME OrchAssumption, NEW Q, Carries(Q), MissionInv(Q), NEW o \in Orchs,
         UserConfirms(o) \/ MoveFailed(o) \/ HandleDroneReconnected(o)
  PROVE  \/ Promise!Approve(o) \/ Promise!OrderAgain(o) \/ Promise!Finish(o)
         \/ UNCHANGED <<Stages, Orders, current_move, moves_performed, max_moves>>
<1>1. MissionTypeOK /\ tasks \in Seq(Q) /\ Accounted(o) /\ Resumable(o)
  BY DEF MissionInv
<1>2. /\ Stages' = [Stages EXCEPT ![o] = Stage(o)']
      /\ Stages[o] = Stage(o)
  BY <1>1, StagesMove, StagesOf DEF Writes, Handle
<1>3. /\ EventFor(o)
      /\ UserConfirms(o) => state[o] = "WAITING_FOR_USER"
      /\ MoveFailed(o) => state[o] = "FLYING"
      /\ HandleDroneReconnected(o) => state[o] = "PAUSED"
  <2>1. \A type : Handles(o, type) => EventFor(o) /\ state[o] \in Expected(type)
    BY HandlesEvent
  <2> QED
    BY <2>1 DEF UserConfirms, MoveFailed, HandleDroneReconnected, Expected
<1>4. CASE UserConfirms(o)
  <2>1. Task.move \in Moves /\ Sends(o, Task.move)
    BY <1>1, <1>3, <1>4, TaskCarries DEF UserConfirms, Sends, Handles, Proposing
  <2>2. Orders' = [Orders EXCEPT ![o] = @ \cup {Task.move}]
    BY <1>1, <2>1, OrdersGrow
  <2>3. /\ state'[o] = "WAITING_FOR_ACK"
        /\ current_move' = [current_move EXCEPT ![o] = Task.move]
        /\ UNCHANGED <<moves_performed, max_moves>>
    BY <1>1, <1>4 DEF UserConfirms, Goto, MissionTypeOK
  <2>4. Stage(o) = "asking" /\ Stage(o)' = "moving"
    BY <1>3, <1>4, <2>3 DEF Stage, MoveOpen
  <2> QED
    BY <1>2, <2>1, <2>2, <2>3, <2>4
    DEF Promise!Approve, Promise!Enter, Promise!Order, Stages, Orders
<1>5. ASSUME MoveFailed(o) \/ HandleDroneReconnected(o),
             Sends(o, current_move[o]), current_move[o] \in Moves
      PROVE  Promise!OrderAgain(o)
  <2>1. Orders' = [Orders EXCEPT ![o] = @ \cup {current_move[o]}]
    BY <1>1, <1>5, OrdersGrow
  <2>2. state'[o] = "WAITING_FOR_ACK" /\ UNCHANGED <<current_move, moves_performed, max_moves>>
    BY <1>1, <1>3, <1>5
    DEF Sends, MoveFailed, HandleDroneReconnected, UserConfirms, ExecuteMove, Goto, MissionTypeOK
  <2>3. \/ state[o] = "FLYING"
        \/ state[o] = "PAUSED" /\ pending_command[o].type = "ExecuteMove"
    BY <1>3, <1>5 DEF Sends, ExecuteMove
  <2>4. Stage(o) = "moving" /\ Stage(o)' = "moving"
    BY <2>2, <2>3 DEF Stage, MoveOpen
  <2>5. UNCHANGED Stages
    BY <1>2, <2>4 DEF Stages
  <2> QED
    BY <1>2, <2>1, <2>2, <2>4, <2>5 DEF Promise!OrderAgain, Promise!Order, Stages, Orders
<1>9. ASSUME MoveFailed(o) \/ HandleDroneReconnected(o), ~Sends(o, current_move[o])
      PROVE  UNCHANGED Orders
  <2>1. \A move \in Moves : Sends(o, move) => move = current_move[o]
    BY <1>3, <1>9 DEF Sends
  <2>2. \A move \in Moves : ~Sends(o, move)
    BY <1>9, <2>1
  <2> QED
    BY <1>9, <2>2, QuietStep, OrdersKept DEF Writes, Handle
<1>6. CASE MoveFailed(o) /\ ~Sends(o, current_move[o])
  <2>1. UNCHANGED Orders
    BY <1>6, <1>9
  <2>2. state'[o] = "ENDED" /\ UNCHANGED <<current_move, moves_performed, max_moves>>
    BY <1>1, <1>6 DEF Sends, MoveFailed, Goto, Terminate, MissionTypeOK
  <2>3. Stage(o) # "over" /\ Stage(o)' = "over"
    BY <1>3, <1>6, <2>2 DEF Stage, MoveOpen
  <2> QED
    BY <1>2, <2>1, <2>2, <2>3 DEF Promise!Finish, Promise!Enter, Stages, Orders
<1>7. CASE HandleDroneReconnected(o) /\ ~Sends(o, current_move[o])
  <2>1. UNCHANGED Orders
    BY <1>7, <1>9
  <2>2. pending_command[o] = GetPhoto(o)
    BY <1>1, <1>3, <1>7 DEF Resumable, Sends
  <2>3. /\ state'[o] = "WAITING_FOR_DRONE"
        /\ UNCHANGED <<current_move, moves_performed, max_moves>>
    BY <1>1, <1>7, <2>2 DEF HandleDroneReconnected, GetPhoto, MissionTypeOK
  <2>4. Stage(o) = "looking" /\ Stage(o)' = "looking"
    BY <1>3, <1>7, <2>2, <2>3 DEF Stage, MoveOpen, GetPhoto
  <2>5. UNCHANGED Stages
    BY <1>2, <2>4 DEF Stages
  <2> QED
    BY <2>1, <2>3, <2>5
<1>8. (MoveFailed(o) \/ HandleDroneReconnected(o)) /\ Sends(o, current_move[o])
        => current_move[o] \in Moves
  BY <1>1, <1>3 DEF Resumable, Sends, UserConfirms, HandleDroneReconnected, ExecuteMove,
                    GetPhoto
<1> QED
  BY <1>4, <1>5, <1>6, <1>7, <1>8

\* The loop gives a task to its component, or something is published.
LEMMA QueueStep ==
  ASSUME OrchAssumption, NEW Q, MissionInv(Q), Serves(Q)
  PROVE  \/ \E o \in Orchs : Promise!Send(o)
         \/ UNCHANGED <<Stages, Orders, current_move, moves_performed, max_moves>>
<1>1. /\ UNCHANGED <<state, pending_command, current_move, moves_performed, max_moves>>
      /\ UNCHANGED Stages
  BY ServesKeeps DEF MissionInv, orchVars, Stages, Stage, MoveOpen
<1>2. PICK n \in Nat, s \in {0, 1} :
        /\ n + s = Len(tasks) /\ n <= Len(tasks')
        /\ \A i \in 1..n : tasks'[i] = tasks[i + s]
        /\ \A i \in Added(tasks', n) : IsNews(tasks'[i])
  BY ServesKeeps DEF MissionInv
<1>3. Len(tasks') \in Nat /\ Len(tasks) \in Nat
  BY ServesKeeps DEF MissionInv
<1> DEFINE Order(q, i, p) == q[i].type = "ExecuteMove" /\ q[i].by = p
<1>4. ASSUME NEW p, NEW m, m \in OrdersIn(tasks', p)
      PROVE  m \in OrdersIn(tasks, p)
  <2>1. PICK i \in 1..Len(tasks') : Order(tasks', i, p) /\ m = tasks'[i].move
    BY <1>4 DEF OrdersIn, OrdersBelow
  <2>2. i \in 1..n
    BY <1>2, <1>3, <2>1 DEF Added, CommandTypes, IsNews
  <2>3. i + s \in 1..Len(tasks) /\ tasks'[i] = tasks[i + s]
    BY <1>2, <2>2
  <2> QED
    BY <2>1, <2>3 DEF OrdersIn, OrdersBelow
<1>5. ASSUME NEW p, ~(Len(tasks) # 0 /\ Order(tasks, 1, p)), NEW m,
             m \in OrdersIn(tasks, p)
      PROVE  m \in OrdersIn(tasks', p)
  <2>1. PICK i \in 1..Len(tasks) : Order(tasks, i, p) /\ m = tasks[i].move
    BY <1>5 DEF OrdersIn, OrdersBelow
  <2>2. i # 1
    BY <1>3, <1>5, <2>1
  <2>3. i - s \in 1..n /\ i - s \in 1..Len(tasks') /\ (i - s) + s = i
    BY <1>2, <1>3, <2>2
  <2>4. tasks'[i - s] = tasks[i]
    BY <1>2, <2>3
  <2> QED
    BY <2>1, <2>3, <2>4 DEF OrdersIn, OrdersBelow
<1>6. CASE \E p \in Orchs : Len(tasks) # 0 /\ Order(tasks, 1, p)
  <2>1. PICK o \in Orchs : Len(tasks) # 0 /\ Order(tasks, 1, o)
    BY <1>6
  <2>2. ASSUME NEW p \in Orchs \ {o}
        PROVE  Ordered(p)' = Ordered(p)
    <3>1. ~(Len(tasks) # 0 /\ Order(tasks, 1, p))
      BY <2>1
    <3>2. OrdersIn(tasks', p) \subseteq OrdersIn(tasks, p)
      BY <1>4
    <3>3. \A m \in OrdersIn(tasks, p) : m \in OrdersIn(tasks', p)
      BY ONLY <1>5, <3>1
    <3> QED
      BY <3>2, <3>3 DEF Ordered, Outstanding, OrdersIn, OrdersBelow
  <2>3. Orders' = [Orders EXCEPT ![o] = Ordered(o)']
    BY <2>2 DEF Orders
  <2>4. Ordered(o)' \in SUBSET Orders[o]
    BY <1>4, StagesOf, OrderedIsOrdersIn
  <2>5. Promise!Send(o)
    BY <1>1, <2>3, <2>4 DEF Promise!Send, Stages, Orders
  <2> QED
    BY <2>5
<1>7. CASE \A p \in Orchs : ~(Len(tasks) # 0 /\ Order(tasks, 1, p))
  <2>1. \A p \in Orchs : Ordered(p)' = Ordered(p)
    BY <1>4, <1>5, <1>7, OrderedIsOrdersIn
  <2> QED
    BY <1>1, <2>1, OrdersKept
<1> QED
  BY <1>6, <1>7

-----------------------------------------------------------------------------
(* The theorem *)

LEMMA PromiseInit == Init => Promise!Init
<1> SUFFICES ASSUME Init PROVE Promise!Init
  OBVIOUS
<1>1. \A o \in Orchs : Stage(o) = "new"
  BY DEF Init, Stage, MoveOpen
<1>2. ASSUME NEW o \in Orchs
      PROVE  Ordered(o) = {}
  <2>1. Len(tasks) = 0
    BY DEF Init
  <2> QED
    BY <2>1 DEF Ordered, Outstanding
<1> QED
  BY <1>1, <1>2 DEF Promise!Init, Init

\* In every program the missions run in.
LEMMA PromiseStep ==
  ASSUME OrchAssumption, NEW Q, Carries(Q), MissionInv(Q), MissionNext(Q)
  PROVE  [Promise!Next]_(Promise!promiseVars)
<1>1. ASSUME UNCHANGED <<Stages, Orders, current_move, moves_performed, max_moves>>
      PROVE  UNCHANGED Promise!promiseVars
  BY <1>1 DEF Promise!promiseVars, Stages, Orders
<1>2. ASSUME NEW o \in Orchs, Writes(o)
      PROVE  \/ Promise!Begin(o) \/ Promise!Ask(o) \/ Promise!Decline(o)
             \/ Promise!Approve(o) \/ Promise!OrderAgain(o)
             \/ Promise!Arrive(o) \/ Promise!Finish(o)
             \/ UNCHANGED <<Stages, Orders, current_move, moves_performed, max_moves>>
  BY <1>2, HiddenStep, StageStep, OrderStep DEF Writes, Handle
<1>3. CASE Serves(Q)
  BY <1>1, <1>3, QueueStep DEF Promise!Next
<1>4. CASE \E o \in Orchs : Writes(o)
  BY <1>1, <1>2, <1>4 DEF Promise!Next
<1> QED
  BY <1>3, <1>4 DEF MissionNext

(* For any number of missions, any queue and any budget, every behaviour of  *)
(* the orchestrators is one HumanInTheLoop allows: a move is ordered only    *)
(* under its approval, also after failures, pauses and resent commands, it   *)
(* is counted at most once, and an ended mission orders nothing.             *)
THEOREM PromiseKept == Spec => KeepsPromise
<1>1. MissionInv(Item) /\ [Next]_vars => [Promise!Next]_(Promise!promiseVars)
  <2>1. MissionInv(Item) => tasks \in Seq(Item)
    BY DEF MissionInv
  <2> QED
    BY <2>1, OrchAssumption, ItemCarries, NextIsMission, PromiseStep
<1> QED
  BY <1>1, PromiseInit, Invariant, PTL DEF Spec, KeepsPromise, Promise!Spec
===============================================================================
