-------------------------- MODULE SearchSystemProofs --------------------------
(***************************************************************************)
(* Proofs about SearchSystem, for any number of missions, drones and       *)
(* connections, any number of losses and any outcome of the move threads.  *)
(*                                                                         *)
(* The missions of the composition take the steps of SearchOrchestrator    *)
(* and the rest of the program serves them (NextIsMission), so what        *)
(* SearchOrchestratorProofs and HumanInTheLoopProofs say of missions holds *)
(* here.  About the bridge and the connections there is an invariant of    *)
(* its own (LinkInv).                                                      *)
(***************************************************************************)
EXTENDS SearchSystem, HumanInTheLoopProofs

\* The place a photo shows is a number, or NoPhoto.
SystemItem == Items(Int)

Report == {Auth, MoveAck} \cup {MoveReport(ok) : ok \in BOOLEAN}
                          \cup {PhotoReport(place) : place \in Int}

LinkTypeOK ==
  /\ BridgeTypeOK
  /\ to_server \in [Conns -> Seq(Report)]
  /\ proc \in [Drones -> Conns \cup {NoConn}]
  /\ flying \in [Drones -> Nat]
  /\ flights \in [Drones -> Nat]

\* A connection belongs to the drone whose process holds it and to the one it
\* is registered for, and a library that knows of its end is right.
Owned ==
  /\ \A c \in Conns : handler[c] # "none" => owner[c] \in Drones
  /\ \A d \in Drones : proc[d] # NoConn => owner[proc[d]] = d
  /\ \A d \in Drones : connected[d] # NoConn => owner[connected[d]] = d
  /\ \A c \in Conns : noticed[c] => wire[c] # "up"

LinkInv == LinkTypeOK /\ Owned /\ ServedIsRegistered

-----------------------------------------------------------------------------
(* The connections *)

LEMMA NoConnIsNone == BridgeAssumption => NoConn \notin Conns
  BY DEF BridgeAssumption, NoConn

LEMMA SentTyped ==
  ASSUME NEW c, NEW q \in Seq(Report), NEW x \in Report
  PROVE  Sent(c, q, <<x>>) \in Seq(Report)
  BY DEF Sent

\* handler() ends: the connection is unregistered and closed.
LEMMA LeaveStep ==
  ASSUME BridgeAssumption, LinkInv, NEW c \in Conns, handler[c] = "serving",
         NEW queue, NEW exception, Leave(c, queue, exception), UNCHANGED clientVars
  PROVE  LinkInv'
<1> USE DEF LinkInv, LinkTypeOK, BridgeTypeOK
<1>1. /\ handler' = [handler EXCEPT ![c] = "none"]
      /\ connected' = [d \in Drones |-> IF d = owner[c] /\ connected[d] = c
                                        THEN NoConn ELSE connected[d]]
      /\ wire' = [wire EXCEPT ![c] = IF @ = "up" THEN "ok" ELSE @]
      /\ noticed' = [noticed EXCEPT ![c] = TRUE]
      /\ to_server' = [to_server EXCEPT ![c] = <<>>]
      /\ disconnected' = disconnected \/ disconnected' = disconnected \cup {owner[c]}
      /\ UNCHANGED <<owner, proc, flying, flights>>
  BY DEF Leave, Finish, Unregister, Hangup, clientVars
<1>2. owner[c] \in Drones /\ connected[owner[c]] = c
  BY DEF Owned, ServedIsRegistered
<1>3. LinkTypeOK'
  <2>1. <<>> \in Seq(Report)
    OBVIOUS
  <2>2. to_server' \in [Conns -> Seq(Report)]
    BY <1>1, <2>1
  <2>3. connected' \in [Drones -> Conns \cup {NoConn}]
    BY <1>1
  <2>4. disconnected' \subseteq Drones
    BY <1>1, <1>2
  <2>5. wire' \in [Conns -> {"up", "ok", "err"}] /\ noticed' \in [Conns -> BOOLEAN]
    BY <1>1
  <2> QED
    BY <1>1, <2>2, <2>3, <2>4, <2>5
<1>4. Owned'
  BY <1>1 DEF Owned
<1>5. ServedIsRegistered'
  <2>1. ASSUME NEW b \in Conns, handler'[b] = "serving"
        PROVE  connected'[owner'[b]] = b
    BY <1>1, <2>1 DEF Owned, ServedIsRegistered
  <2>2. ASSUME NEW d \in disconnected'
        PROVE  connected'[d] = NoConn
    BY <1>1, <1>2, <2>2 DEF ServedIsRegistered
  <2> QED
    BY <2>1, <2>2 DEF ServedIsRegistered
<1> QED
  BY <1>3, <1>4, <1>5

\* A report is taken from a connection, and perhaps its handler ends.
LEMMA TakenStep ==
  ASSUME BridgeAssumption, LinkInv, NEW c \in Conns, to_server[c] # <<>>,
         to_server' = [to_server EXCEPT ![c] = Tail(@)],
         UNCHANGED <<connected, disconnected, handler, owner, wire, noticed, clientVars>>
  PROVE  LinkInv'
<1>1. to_server' \in [Conns -> Seq(Report)]
  BY DEF LinkInv, LinkTypeOK
<1> QED
  BY <1>1 DEF LinkInv, LinkTypeOK, BridgeTypeOK, Owned, ServedIsRegistered, clientVars

LEMMA AuthStep ==
  ASSUME BridgeAssumption, LinkInv, NEW c \in Conns,
         Reject(c) \/ Accept(c) \/ AuthFails(c), UNCHANGED clientVars
  PROVE  LinkInv'
<1> USE DEF LinkInv, LinkTypeOK, BridgeTypeOK
<1>1. CASE Reject(c)
  <2>1. /\ handler' = [handler EXCEPT ![c] = "none"]
        /\ wire' = [wire EXCEPT ![c] = IF @ = "up" THEN "ok" ELSE @]
        /\ noticed' = [noticed EXCEPT ![c] = TRUE]
        /\ to_server' = [to_server EXCEPT ![c] = <<>>]
        /\ UNCHANGED <<connected, disconnected, owner, proc, flying, flights>>
    BY <1>1 DEF Reject, Finish, Hangup, clientVars
  <2>2. LinkTypeOK'
    BY <2>1
  <2>3. Owned' /\ ServedIsRegistered'
    BY <2>1 DEF Owned, ServedIsRegistered
  <2> QED
    BY <2>2, <2>3
<1>2. CASE Accept(c)
  <2> DEFINE d == owner[c]
  <2>1. /\ handler[c] = "auth" /\ connected[d] = NoConn
        /\ connected' = [connected EXCEPT ![d] = c]
        /\ disconnected' = disconnected \ {d}
        /\ \/ handler' = [handler EXCEPT ![c] = "none"]
           \/ handler' = [handler EXCEPT ![c] = "serving"]
        /\ \/ to_server' = [to_server EXCEPT ![c] = <<>>]
           \/ to_server' = [to_server EXCEPT ![c] = Tail(@)]
        /\ to_server[c] # <<>>
        /\ UNCHANGED <<owner, wire, noticed, proc, flying, flights>>
    BY <1>2 DEF Accept, Finish, clientVars
  <2>2. d \in Drones
    BY <2>1 DEF Owned
  <2>3. to_server' \in [Conns -> Seq(Report)]
    <3>1. <<>> \in Seq(Report) /\ Tail(to_server[c]) \in Seq(Report)
      BY <2>1
    <3>2. \/ to_server' = [to_server EXCEPT ![c] = <<>>]
          \/ to_server' = [to_server EXCEPT ![c] = Tail(to_server[c])]
      BY <2>1
    <3> QED
      BY <3>1, <3>2
  <2>4. LinkTypeOK'
    <3>1. connected' \in [Drones -> Conns \cup {NoConn}]
      BY <2>1, <2>2
    <3>2. handler' \in [Conns -> {"none", "auth", "serving"}] /\ disconnected' \subseteq Drones
      BY <2>1
    <3> QED
      BY <2>1, <2>3, <3>1, <3>2
  <2>5. Owned'
    BY <2>1, <2>2, NoConnIsNone DEF Owned
  <2>6. ServedIsRegistered'
    BY <2>1, <2>2, NoConnIsNone DEF ServedIsRegistered
  <2> QED
    BY <2>4, <2>5, <2>6
<1>3. CASE AuthFails(c)
  <2>1. /\ handler' = [handler EXCEPT ![c] = "none"]
        /\ UNCHANGED <<connected, disconnected, linkVars, clientVars>>
    BY <1>3 DEF AuthFails, Finish
  <2> QED
    BY <2>1 DEF Owned, ServedIsRegistered, linkVars, clientVars
<1> QED
  BY <1>1, <1>2, <1>3

LEMMA ServeStep ==
  ASSUME BridgeAssumption, LinkInv, NEW c \in Conns, Serve(c), UNCHANGED clientVars
  PROVE  LinkInv'
<1>1. CASE ReceiveMoveAck(c)
  BY <1>1, TakenStep DEF ReceiveMoveAck, Incoming, bridgeVars
<1>2. CASE ReceiveMoveReport(c) \/ ReceivePhoto(c)
  <2>1. /\ handler[c] = "serving" /\ to_server[c] # <<>>
        /\ \E queue : Reported(c, queue)
    BY <1>2 DEF ReceiveMoveReport, ReceivePhoto, Incoming
  <2> QED
    BY <2>1, TakenStep, LeaveStep DEF Reported
<1>3. CASE PhotoNotStored(c) \/ EndOfMessages(c)
  <2>1. /\ handler[c] = "serving"
        /\ \E queue, exception : Leave(c, queue, exception)
    BY <1>3 DEF PhotoNotStored, EndOfMessages, Incoming
  <2> QED
    BY <2>1, LeaveStep
<1> QED
  BY <1>1, <1>2, <1>3, AuthStep DEF Serve

\* The drone's process and the network.
LEMMA DroneStepKeeps ==
  ASSUME BridgeAssumption, LinkInv, NEW d \in Drones,
         \/ Dispatch(d) \/ FinishMove(d) \/ ConnectionGone(d) \/ Shutdown(d),
         UNCHANGED bridgeVars
  PROVE  LinkInv'
<1> USE DEF LinkInv, LinkTypeOK, BridgeTypeOK
<1> DEFINE c == proc[d]
<1>1. UNCHANGED <<connected, disconnected, handler>>
  BY DEF bridgeVars
<1>2. ASSUME NEW x \in Report, Send(d, x)
      PROVE  to_server' \in [Conns -> Seq(Report)]
  BY <1>2, SentTyped DEF Send
<1>3. CASE AuthAnswer(d)
  <2>1. /\ c \in Conns
        /\ \/ UNCHANGED wire
           \/ wire[c] = "up" /\ wire' = [wire EXCEPT ![c] = "err"]
        /\ UNCHANGED <<owner, noticed, to_server, proc, flying, flights>>
    BY <1>3 DEF AuthAnswer, Arrived
  <2> QED
    BY <1>1, <2>1 DEF Owned, ServedIsRegistered
<1>4. CASE TakePhoto(d)
  <2>1. PhotoReport(flights[d]) \in Report /\ PhotoReport(NoPhoto) \in Report
    BY DEF Report, NoPhoto
  <2>2. \E x \in Report : Send(d, x)
    BY <1>4, <2>1 DEF TakePhoto
  <2> QED
    BY <1>1, <1>2, <1>4, <2>2 DEF TakePhoto, clientVars, Owned, ServedIsRegistered
<1>5. CASE BeginMove(d)
  <2>1. MoveAck \in Report
    BY DEF Report
  <2>2. flying' \in [Drones -> Nat]
    <3>1. flying' = flying \/ flying' = [flying EXCEPT ![d] = flying[d] + 1]
      BY <1>5 DEF BeginMove
    <3>2. flying \in [Drones -> Nat] /\ flying[d] + 1 \in Nat
      OBVIOUS
    <3>3. [flying EXCEPT ![d] = flying[d] + 1] \in [Drones -> Nat]
      BY <3>2
    <3> QED
      BY <3>1, <3>2, <3>3
  <2> QED
    BY <1>1, <1>2, <1>5, <2>1, <2>2 DEF BeginMove, Owned, ServedIsRegistered
<1>6. CASE FinishMove(d)
  <2>1. PICK result \in MoveOutcomes :
          /\ flights' = [flights EXCEPT ![d] = IF result[1] THEN @ + 1 ELSE @]
          /\ Send(d, MoveReport(result[2]))
    BY <1>6 DEF FinishMove
  <2>2. MoveReport(result[2]) \in Report
    BY ClientAssumption DEF Report, ClientAssumption
  <2>3. flying' \in [Drones -> Nat] /\ flights' \in [Drones -> Nat]
    BY <1>6, <2>1 DEF FinishMove
  <2> QED
    BY <1>1, <1>2, <1>6, <2>1, <2>2, <2>3 DEF FinishMove, Owned, ServedIsRegistered
<1>7. CASE ConnectionGone(d) \/ Shutdown(d)
  <2>1. /\ c \in Conns /\ Exit(d)
        /\ \/ UNCHANGED wire
           \/ wire[c] = "up" /\ wire' = [wire EXCEPT ![c] = "ok"]
        /\ UNCHANGED <<owner, noticed, to_server>>
    BY <1>7 DEF ConnectionGone, Shutdown
  <2>2. /\ proc' = [proc EXCEPT ![d] = NoConn]
        /\ flying' = [flying EXCEPT ![d] = 0]
        /\ \E n \in 0..flying[d] : flights' = [flights EXCEPT ![d] = @ + n]
    BY <2>1 DEF Exit
  <2>3. LinkTypeOK'
    BY <1>1, <2>1, <2>2
  <2>4. Owned' /\ ServedIsRegistered'
    BY <1>1, <2>1, <2>2 DEF Owned, ServedIsRegistered
  <2> QED
    BY <2>3, <2>4
<1> QED
  BY <1>3, <1>4, <1>5, <1>6, <1>7 DEF Dispatch

LEMMA RestartKeeps ==
  ASSUME BridgeAssumption, LinkInv, NEW d \in Drones, RestartDrone(d)
  PROVE  LinkInv'
<1> USE DEF LinkInv, LinkTypeOK, BridgeTypeOK
<1>1. PICK c \in Conns : /\ FreeSlot(c) /\ StartProcess(d, c)
                         /\ handler' = [handler EXCEPT ![c] = "auth"]
  BY DEF RestartDrone
<1>2. /\ owner' = [owner EXCEPT ![c] = d]
      /\ wire' = [wire EXCEPT ![c] = "up"]
      /\ noticed' = [noticed EXCEPT ![c] = FALSE]
      /\ to_server' = [to_server EXCEPT ![c] = <<Auth>>]
      /\ proc' = [proc EXCEPT ![d] = c]
      /\ UNCHANGED <<flying, flights, connected, disconnected>>
  BY <1>1 DEF StartProcess, Open, RestartDrone
<1>3. \A b \in Drones : proc[b] # c /\ connected[b] # c
  BY <1>1 DEF FreeSlot
<1>4. <<Auth>> \in Seq(Report)
  BY DEF Report
<1>5. LinkTypeOK'
  BY <1>1, <1>2, <1>4
<1>6. Owned'
  BY <1>1, <1>2, <1>3 DEF Owned
<1>7. ServedIsRegistered'
  BY <1>1, <1>2 DEF ServedIsRegistered
<1> QED
  BY <1>5, <1>6, <1>7

LEMMA NetworkStep ==
  ASSUME BridgeAssumption, LinkInv, NEW c \in Conns, Break(c) \/ Notice(c),
         UNCHANGED <<bridgeVars, clientVars>>
  PROVE  LinkInv'
<1> USE DEF LinkInv, LinkTypeOK, BridgeTypeOK, Owned, ServedIsRegistered, bridgeVars,
            clientVars
<1>1. CASE Break(c)
  <2>1. PICK n \in 0..Len(to_server[c]) :
          to_server' = [to_server EXCEPT ![c] = SubSeq(@, 1, n)]
    BY <1>1 DEF Break
  <2>2. SubSeq(to_server[c], 1, n) \in Seq(Report)
    OBVIOUS
  <2>3. to_server' \in [Conns -> Seq(Report)]
    BY <2>1, <2>2
  <2> QED
    BY <1>1, <2>3 DEF Break
<1>2. CASE Notice(c)
  BY <1>2 DEF Notice
<1> QED
  BY <1>1, <1>2

\* A command goes to the drone, or nowhere.
LEMMA CommandSent ==
  ASSUME LinkInv, HandleGetPhoto \/ SendMove, UNCHANGED clientVars
  PROVE  LinkInv'
<1>1. /\ UNCHANGED <<bridgeVars, clientVars, owner, wire, noticed, to_server>>
  BY DEF HandleGetPhoto, SendMove, SendCommand, linkVars
<1> QED
  BY <1>1
  DEF LinkInv, LinkTypeOK, BridgeTypeOK, Owned, ServedIsRegistered, bridgeVars, clientVars

LEMMA LinkKept ==
  ASSUME LinkInv, UNCHANGED <<bridgeVars, linkVars, clientVars>>
  PROVE  LinkInv'
  BY DEF LinkInv, LinkTypeOK, BridgeTypeOK, Owned, ServedIsRegistered, bridgeVars,
         clientVars, linkVars

LEMMA LinkNext ==
  ASSUME BridgeAssumption, LinkInv, [SystemNext]_systemVars
  PROVE  LinkInv'
<1>1. CASE UNCHANGED systemVars
  BY <1>1, LinkKept DEF systemVars, droneVars
<1>2. CASE LoopStep
  <2>1. CASE DroneCommand
    BY <2>1, CommandSent DEF DroneCommand
  <2>2. CASE ~DroneCommand
    BY <1>2, <2>2, LinkKept
    DEF LoopStep, OrchestratorStep, ChatCommand, OperatorCommand, droneVars
  <2> QED
    BY <2>1, <2>2
<1>3. CASE \/ \E o \in Orchs : StartMission(o)
           \/ \E m \in Missions : ChatStep(m)
           \/ \E u \in UIs : OperatorStep(u)
  BY <1>3, LinkKept DEF StartMission, ChatStep, OperatorStep, droneVars
<1>4. CASE \E c \in Conns : ServerStep(c)
  BY <1>4, ServeStep, NetworkStep DEF ServerStep
<1>5. CASE \E d \in Drones : DroneStep(d) \/ RestartDrone(d)
  BY <1>5, DroneStepKeeps, RestartKeeps DEF DroneStep
<1>6. CASE ConnectionLost
  BY <1>6, NetworkStep, DroneStepKeeps DEF ConnectionLost
<1> QED
  BY <1>1, <1>2, <1>3, <1>4, <1>5, <1>6 DEF SystemNext

LEMMA LinkStart ==
  ASSUME BridgeAssumption, SystemInit
  PROVE  LinkInv
<1> USE DEF SystemInit, BridgeInit, LinkInit, ClientInit
<1>1. LinkTypeOK
  BY DEF LinkTypeOK, BridgeTypeOK
<1> QED
  BY <1>1, NoConnIsNone DEF LinkInv, Owned, ServedIsRegistered


-----------------------------------------------------------------------------
(* What the rest of the program does to the event loop *)

QuestionsShown == pending_ui \in [UIs -> {NoCommand} \cup Question]

\* The drones whose loss is known, or will be: the connection is broken, or has
\* no handler that would use it.
Noticeable ==
  {d \in Drones :
     \/ d \in disconnected
     \/ /\ connected[d] # NoConn
        /\ handler[connected[d]] # "serving" \/ wire[connected[d]] = "err"}

\* A loss is announced only when it is noticeable, and a noticeable loss stays
\* one until the return of the drone is announced.
Minds(e) ==
  /\ e.type = "DroneConnectionLost" => e.drone \in Noticeable'
  /\ ~StoreFails => \A d \in Noticeable :
       d \in Noticeable' \/ (e.type = "DroneReconnected" /\ e.drone = d)
Heard(news) ==
  /\ \A i \in 1..Len(news) :
       news[i].type = "DroneConnectionLost" => news[i].drone \in Noticeable'
  /\ ~StoreFails => \A d \in Noticeable :
       \/ d \in Noticeable'
       \/ Subscribed = {}
       \/ \E i \in 1..Len(news) : /\ news[i].type = "DroneReconnected"
                                  /\ news[i].drone = d /\ news[i].to = Subscribed

\* A step that serves the missions with news of the types T, and what they hear
\* of the drones.
ServesAndTells(T) ==
  \E q, news \in Seq(SystemItem) :
    Served(q, news) /\ Heard(news) /\ \A i \in 1..Len(news) : news[i].type \in T

LEMMA CalmLink ==
  ASSUME UNCHANGED <<bridgeVars, wire>>
  PROVE  UNCHANGED Noticeable
  BY DEF Noticeable, bridgeVars

LEMMA TakenTells ==
  ASSUME tasks \in Seq(SystemItem), UNCHANGED orchVars,
         \/ tasks' = tasks
         \/ tasks # <<>> /\ Task.type \notin EventTypes /\ tasks' = Tail(tasks),
         ~StoreFails => Noticeable \subseteq Noticeable',
         NEW T
  PROVE  ServesAndTells(T)
<1>1. tasks' \in Seq(SystemItem) /\ Served(tasks', <<>>)
  BY TakenServes
<1>2. <<>> \in Seq(SystemItem) /\ Heard(<<>>) /\ \A i \in 1..Len(<<>>) : FALSE
  BY DEF Heard
<1> QED
  BY <1>1, <1>2 DEF ServesAndTells

LEMMA PublishTells ==
  ASSUME tasks \in Seq(SystemItem), UNCHANGED orchVars, NEW q,
         \/ q = tasks
         \/ tasks # <<>> /\ Task.type \notin EventTypes /\ q = Tail(tasks),
         NEW e \in SystemItem, IsNews(e), e.to = Subscribed, Minds(e),
         tasks' = Publish(q, e),
         NEW T, e.type \in T
  PROVE  ServesAndTells(T)
<1>1. q \in Seq(SystemItem) /\ Served(q, News(e))
  BY PublishServes
<1>2. /\ News(e) \in Seq(SystemItem) /\ Len(News(e)) \in {0, 1}
      /\ \A i \in 1..Len(News(e)) : News(e)[i] = e
      /\ e.to # {} => Len(News(e)) = 1
  BY NewsPublished
<1>3. Heard(News(e))
  <2>1. ASSUME NEW i \in 1..Len(News(e)), News(e)[i].type = "DroneConnectionLost"
        PROVE  News(e)[i].drone \in Noticeable'
    BY <1>2, <2>1 DEF Minds
  <2>2. ASSUME NEW d \in Noticeable, ~StoreFails, d \notin Noticeable', Subscribed # {}
        PROVE  \E i \in 1..Len(News(e)) : /\ News(e)[i].type = "DroneReconnected"
                                          /\ News(e)[i].drone = d
                                          /\ News(e)[i].to = Subscribed
    <3>1. Len(News(e)) = 1 /\ 1 \in 1..1
      BY <1>2, <2>2
    <3> QED
      BY <1>2, <2>2, <3>1 DEF Minds
  <2> QED
    BY <2>1, <2>2 DEF Heard
<1> QED
  BY <1>1, <1>2, <1>3 DEF ServesAndTells

\* What the program publishes are tasks of the composition.
LEMMA EventsTyped ==
  ASSUME NEW d \in Drones, NEW m \in Missions
  PROVE  /\ \A type \in DroneNotice :
              [type |-> type, drone |-> d, to |-> Subscribed] \in SystemItem
         /\ \A ok \in BOOLEAN :
              [type |-> "MoveExecuted", drone |-> d, ok |-> ok, to |-> Subscribed]
                \in SystemItem
         /\ \A photo \in Int :
              [type |-> "PhotoWithTelemetryReceived", drone |-> d, photo |-> photo,
               to |-> Subscribed] \in SystemItem
         /\ \A type \in ChatNotice :
              [type |-> type, mission |-> m, to |-> Subscribed] \in SystemItem
         /\ \A found \in BOOLEAN, move \in Moves :
              [type |-> "VlmAnalysisCompleted", mission |-> m, found |-> found,
               move |-> move, to |-> Subscribed] \in SystemItem
         /\ \A decision \in Decisions, move \in Moves :
              [type |-> "UserDecisionReceived", mission |-> m, decision |-> decision,
               move |-> move, to |-> Subscribed] \in SystemItem
<1>1. Subscribed \subseteq Orchs
  BY DEF Subscribed
<1> QED
  BY <1>1 DEF SystemItem, Items, Events

\* A command at the head of the queue has an author.
LEMMA CommandTaken ==
  ASSUME tasks \in Seq(SystemItem), tasks # <<>>, Task.type \in CommandTypes
  PROVE  /\ Task.by \in Orchs /\ Task.type \notin EventTypes
         /\ Task.type = "AskUserConfirmation" => Task \in Question
<1>1. Task \in SystemItem
  BY DEF Task
<1> QED
  BY <1>1, CommandIsNoEvent
  DEF SystemItem, Items, Events, SimpleCommand, Flight, Question, Analyses, WakeUp,
      CommandTypes, Awaited, DroneNotice, ChatNotice

\* A task is taken and an event published, while the drones are left alone.
LEMMA CalmNews ==
  ASSUME tasks \in Seq(SystemItem), UNCHANGED <<orchVars, bridgeVars, wire>>, NEW q,
         \/ q = tasks
         \/ tasks # <<>> /\ Task.type \notin EventTypes /\ q = Tail(tasks),
         NEW e \in SystemItem, IsNews(e), e.to = Subscribed,
         e.type # "DroneConnectionLost", tasks' = Publish(q, e),
         NEW T, e.type \in T
  PROVE  ServesAndTells(T)
<1>1. UNCHANGED Noticeable
  BY CalmLink
<1>2. Minds(e)
  BY <1>1 DEF Minds
<1> QED
  BY <1>2, PublishTells

LEMMA CalmTaken ==
  ASSUME tasks \in Seq(SystemItem), UNCHANGED <<orchVars, bridgeVars, wire>>,
         \/ tasks' = tasks
         \/ tasks # <<>> /\ Task.type \notin EventTypes /\ tasks' = Tail(tasks),
         NEW T
  PROVE  ServesAndTells(T)
<1>1. UNCHANGED Noticeable
  BY CalmLink
<1> QED
  BY <1>1, TakenTells

LEMMA ChatTells ==
  ASSUME OrchAssumption, tasks \in Seq(SystemItem), ChatCommand,
         NEW T, ChatNotice \subseteq T
  PROVE  ServesAndTells(T)
<1>1. /\ tasks # <<>> /\ Task.type \in CommandTypes
      /\ UNCHANGED <<orchVars, bridgeVars, wire>>
  BY DEF ChatCommand, HandleCreateNewSession, HandleSaveSession, HandleAnalyzePhoto,
         HandleDeleteSession, Taken, CommandTypes, Awaited, droneVars, linkVars
<1>2. Task.type \notin EventTypes /\ Chat \in Missions
  BY <1>1, CommandTaken DEF Chat, OrchAssumption
<1>3. \/ tasks' = Tail(tasks)
      \/ \E error \in ChatNotice : tasks' = Publish(Tail(tasks), ChatNews(error, Chat))
  BY DEF ChatCommand, HandleCreateNewSession, HandleSaveSession, HandleAnalyzePhoto,
         HandleDeleteSession, UseChat, ChatNotice
<1>4. ASSUME NEW error \in ChatNotice
      PROVE  /\ ChatNews(error, Chat) \in SystemItem /\ IsNews(ChatNews(error, Chat))
             /\ ChatNews(error, Chat).to = Subscribed
             /\ ChatNews(error, Chat).type # "DroneConnectionLost"
             /\ ChatNews(error, Chat).type \in T
  <2>1. OrchAssumption /\ DroneOf[Task.by] \in Drones
    BY <1>1, CommandTaken DEF OrchAssumption
  <2> QED
    BY <1>2, <2>1, EventsTyped DEF ChatNews, IsNews, ChatNotice, CommandTypes, Awaited
<1> QED
  BY <1>1, <1>2, <1>3, <1>4, CalmNews, CalmTaken

LEMMA ChatStepTells ==
  ASSUME tasks \in Seq(SystemItem), NEW m \in Missions, ChatStep(m),
         NEW T, ChatNotice \cup {"VlmAnalysisCompleted"} \subseteq T
  PROVE  ServesAndTells(T)
<1>1. UNCHANGED <<orchVars, bridgeVars, wire>>
  BY DEF ChatStep, droneVars, linkVars
<1>2. \/ tasks' = tasks
      \/ \E e \in SystemItem : /\ tasks' = Publish(tasks, e) /\ e.to = Subscribed
                               /\ IsNews(e) /\ e.type # "DroneConnectionLost"
                               /\ e.type \in T
  <2> USE DEF IsNews, CommandTypes, Awaited, ChatNotice
  <2>1. ASSUME NEW error \in ChatNotice, tasks' = Publish(tasks, ChatNews(error, m))
        PROVE  \E e \in SystemItem : /\ tasks' = Publish(tasks, e) /\ e.to = Subscribed
                                     /\ IsNews(e) /\ e.type # "DroneConnectionLost"
                                     /\ e.type \in T
    <3> DEFINE e == ChatNews(error, m)
    <3>1. /\ e \in SystemItem /\ e.to = Subscribed /\ IsNews(e)
          /\ e.type # "DroneConnectionLost" /\ e.type \in T
      <4>1. Subscribed \subseteq Orchs
        BY DEF Subscribed
      <4> QED
        BY <4>1 DEF ChatNews, SystemItem, Items, Events
    <3> QED
      BY <2>1, <3>1
  <2>2. ASSUME NEW found \in BOOLEAN, NEW move \in Moves,
               tasks' = Publish(tasks, [type |-> "VlmAnalysisCompleted", mission |-> m,
                                        found |-> found, move |-> move, to |-> Subscribed])
        PROVE  \E e \in SystemItem : /\ tasks' = Publish(tasks, e) /\ e.to = Subscribed
                                     /\ IsNews(e) /\ e.type # "DroneConnectionLost"
                                     /\ e.type \in T
    <3> DEFINE e == [type |-> "VlmAnalysisCompleted", mission |-> m, found |-> found,
                     move |-> move, to |-> Subscribed]
    <3>1. /\ e \in SystemItem /\ e.to = Subscribed /\ IsNews(e)
          /\ e.type # "DroneConnectionLost" /\ e.type \in T
      <4>1. Subscribed \subseteq Orchs
        BY DEF Subscribed
      <4> QED
        BY <4>1 DEF SystemItem, Items, Events
    <3> QED
      BY <2>2, <3>1
  <2>3. CASE FinishSave(m)
    BY <2>1, <2>3 DEF FinishSave
  <2>4. CASE FinishAnalysis(m)
    BY <2>1, <2>2, <2>4 DEF FinishAnalysis
  <2> QED
    BY <2>3, <2>4 DEF ChatStep
<1> QED
  BY <1>1, <1>2, CalmNews, CalmTaken

\* The operator's interfaces show questions, and answer them.
LEMMA OperatorTells ==
  ASSUME tasks \in Seq(SystemItem), QuestionsShown, OperatorCommand,
         NEW T
  PROVE  ServesAndTells(T) /\ QuestionsShown'
<1>1. /\ tasks # <<>> /\ Task.type \in CommandTypes /\ tasks' = Tail(tasks)
      /\ UNCHANGED <<orchVars, bridgeVars, wire>>
  BY DEF OperatorCommand, HandleAsk, HandleSearchEnded, Taken, CommandTypes, Awaited,
         droneVars, linkVars
<1>2. ServesAndTells(T)
  BY <1>1, CommandTaken, CalmTaken
<1>3. CASE HandleAsk
  <2>1. Task \in Question
    BY <1>1, <1>3, CommandTaken DEF HandleAsk, Taken
  <2>2. pending_ui' = [u \in UIs |-> Task]
    BY <1>3 DEF HandleAsk
  <2>3. pending_ui' \in [UIs -> {NoCommand} \cup Question]
    BY <2>1, <2>2
  <2> QED
    BY <1>2, <2>3 DEF QuestionsShown
<1>4. CASE HandleSearchEnded
  <2>1. \A u \in UIs : pending_ui[u] \in {NoCommand} \cup Question
    BY DEF QuestionsShown
  <2>2. PICK closed \in [UIs -> BOOLEAN] :
          pending_ui' = [u \in UIs |-> IF closed[u] THEN NoCommand ELSE pending_ui[u]]
    <3> DEFINE closed == [u \in UIs |-> pending_ui[u] # NoCommand
                                       /\ pending_ui[u].by = Task.by]
    <3>1. closed \in [UIs -> BOOLEAN]
      OBVIOUS
    <3> QED
      BY <1>4, <3>1 DEF HandleSearchEnded
  <2>3. pending_ui' \in [UIs -> {NoCommand} \cup Question]
    BY <2>1, <2>2
  <2> QED
    BY <1>2, <2>3 DEF QuestionsShown
<1> QED
  BY <1>2, <1>3, <1>4 DEF OperatorCommand

LEMMA OperatorStepTells ==
  ASSUME OrchAssumption, tasks \in Seq(SystemItem), QuestionsShown, NEW u \in UIs,
         OperatorStep(u),
         NEW T, "UserDecisionReceived" \in T
  PROVE  ServesAndTells(T) /\ QuestionsShown'
<1>1. PICK decision \in Decisions : Decide(u, decision)
  BY DEF OperatorStep
<1> DEFINE e == [type |-> "UserDecisionReceived", mission |-> MissionOf[pending_ui[u].by],
                 decision |-> decision, move |-> pending_ui[u].move, to |-> Subscribed]
<1>2. pending_ui[u] \in Question
  BY <1>1 DEF Decide, QuestionsShown
<1>3. MissionOf[pending_ui[u].by] \in Missions /\ pending_ui[u].move \in Moves
  BY <1>2 DEF Question, OrchAssumption
<1>4. Subscribed \subseteq Orchs
  BY DEF Subscribed
<1>5. e \in SystemItem /\ e.to = Subscribed /\ IsNews(e) /\ e.type # "DroneConnectionLost"
      /\ e.type \in T
  BY <1>3, <1>4 DEF SystemItem, Items, Events, IsNews, CommandTypes, Awaited
<1>6. tasks' = Publish(tasks, e) /\ UNCHANGED <<orchVars, bridgeVars, wire>>
  BY <1>1 DEF Decide, OperatorStep, droneVars, linkVars
<1>7. QuestionsShown'
  BY <1>1 DEF Decide, QuestionsShown
<1> HIDE DEF e
<1> QED
  BY <1>5, <1>6, <1>7, CalmNews

\* What is told of a drone.
Notified(type, d) == [type |-> type, drone |-> d, to |-> Subscribed]

LEMMA NoticeIsNews ==
  ASSUME NEW type \in DroneNotice, NEW d \in Drones
  PROVE  /\ Notified(type, d) \in SystemItem /\ IsNews(Notified(type, d))
         /\ Notified(type, d).to = Subscribed /\ Notified(type, d).type = type
         /\ Notified(type, d).drone = d
         /\ \A q : Tell(q, type, d) = Publish(q, Notified(type, d))
<1>1. Subscribed \subseteq Orchs
  BY DEF Subscribed
<1> QED
  BY <1>1
  DEF Notified, Tell, SystemItem, Items, Events, IsNews, DroneNotice, CommandTypes, Awaited

\* A command that cannot be sent reports a loss that is noticeable.
LEMMA DroneCommandTells ==
  ASSUME OrchAssumption, BridgeAssumption, LinkInv, tasks \in Seq(SystemItem), DroneCommand,
         NEW T, DroneNotice \subseteq T
  PROVE  ServesAndTells(T)
<1>1. /\ tasks # <<>> /\ Task.type \in CommandTypes
      /\ UNCHANGED <<orchVars, bridgeVars>>
      /\ \E msg : SendCommand(Task.by, msg)
  BY DEF DroneCommand, HandleGetPhoto, SendMove, CommandTypes, Awaited
<1> DEFINE d == DroneOf[Task.by]
<1>2. Task.type \notin EventTypes /\ d \in Drones
  BY <1>1, CommandTaken DEF OrchAssumption
<1>3. UNCHANGED wire
  BY <1>1 DEF SendCommand, linkVars
<1>4. UNCHANGED Noticeable
  BY <1>1, <1>3, CalmLink
<1>5. CASE tasks' = Tail(tasks)
  BY <1>1, <1>2, <1>3, <1>5, CalmTaken
<1>6. CASE tasks' = Tell(Tail(tasks), "DroneDisconnected", d)
  <2>1. "DroneDisconnected" \in DroneNotice
    BY DEF DroneNotice
  <2> DEFINE e == Notified("DroneDisconnected", d)
  <2>2. /\ e \in SystemItem /\ IsNews(e) /\ e.to = Subscribed
        /\ e.type # "DroneConnectionLost" /\ e.type \in T
        /\ tasks' = Publish(Tail(tasks), e)
    BY <1>2, <1>6, <2>1, NoticeIsNews
  <2> HIDE DEF e
  <2> QED
    BY <1>1, <1>2, <1>3, <2>2, CalmNews
<1>7. CASE /\ tasks' = Tell(Tail(tasks), "DroneConnectionLost", d)
           /\ d \in Noticeable
  <2>1. "DroneConnectionLost" \in DroneNotice
    BY DEF DroneNotice
  <2> DEFINE e == Notified("DroneConnectionLost", d)
  <2>2. /\ e \in SystemItem /\ IsNews(e) /\ e.to = Subscribed
        /\ e.type = "DroneConnectionLost" /\ e.drone = d /\ e.type \in T
        /\ tasks' = Publish(Tail(tasks), e)
    BY <1>2, <1>7, <2>1, NoticeIsNews
  <2> HIDE DEF e
  <2>3. Minds(e)
    BY <1>4, <1>7, <2>2 DEF Minds
  <2> QED
    BY <1>1, <1>2, <2>2, <2>3, PublishTells
<1>8. \/ tasks' = Tail(tasks)
      \/ tasks' = Tell(Tail(tasks), "DroneDisconnected", d)
      \/ tasks' = Tell(Tail(tasks), "DroneConnectionLost", d) /\ d \in disconnected
      \/ /\ tasks' = Tell(Tail(tasks), "DroneConnectionLost", d)
         /\ connected[d] # NoConn /\ noticed[connected[d]] /\ wire[connected[d]] # "ok"
  BY <1>1 DEF SendCommand
<1>9. ASSUME connected[d] # NoConn, noticed[connected[d]], wire[connected[d]] # "ok"
      PROVE  wire[connected[d]] = "err"
  <2>1. connected[d] \in Conns
    BY <1>2, <1>9 DEF LinkInv, LinkTypeOK, BridgeTypeOK
  <2> QED
    BY <1>9, <2>1 DEF LinkInv, LinkTypeOK, BridgeTypeOK, Owned
<1> QED
  BY <1>2, <1>5, <1>6, <1>7, <1>8, <1>9 DEF Noticeable

\* handler() ends.  Only a closed connection that reports no error and a photo
\* that cannot be stored leave a drone unregistered and not counted as lost.
LEMMA LeaveNotices ==
  ASSUME BridgeAssumption, LinkInv, NEW c \in Conns, handler[c] = "serving",
         NEW queue, NEW exception, Leave(c, queue, exception),
         exception \in {"ClosedOK", "none"} => wire[c] = "ok",
         exception \in {"ClosedOK", "ClosedError", "none"} \/ StoreFails
  PROVE  /\ ~StoreFails => Noticeable \subseteq Noticeable'
         /\ exception = "ClosedError" => owner[c] \in Noticeable'
         /\ owner[c] \in Drones
<1> DEFINE d == owner[c]
<1>1. /\ handler' = [handler EXCEPT ![c] = "none"]
      /\ connected' = [x \in Drones |-> IF x = d /\ connected[x] = c
                                        THEN NoConn ELSE connected[x]]
      /\ wire' = [wire EXCEPT ![c] = IF @ = "up" THEN "ok" ELSE @]
      /\ disconnected' = IF exception = "ClosedError" THEN disconnected \cup {d}
                                                      ELSE disconnected
  BY DEF Leave, Finish, Unregister, Hangup
<1>2. /\ d \in Drones /\ connected[d] = c /\ c # NoConn /\ d \notin disconnected
      /\ connected \in [Drones -> Conns \cup {NoConn}]
      /\ handler \in [Conns -> {"none", "auth", "serving"}]
      /\ wire \in [Conns -> {"up", "ok", "err"}]
  BY NoConnIsNone DEF LinkInv, LinkTypeOK, BridgeTypeOK, Owned, ServedIsRegistered
<1>3. ASSUME NEW x \in Noticeable, x # d
      PROVE  x \in Noticeable'
  <2>1. x \in Drones /\ connected'[x] = connected[x] /\ connected[x] # c
    BY <1>1, <1>2, <1>3 DEF Noticeable, LinkInv, Owned
  <2>2. x \in disconnected => x \in disconnected'
    BY <1>1
  <2>3. connected[x] # NoConn => /\ handler'[connected'[x]] = handler[connected[x]]
                                 /\ wire'[connected'[x]] = wire[connected[x]]
    BY <1>1, <1>2, <2>1
  <2> QED
    BY <1>3, <2>1, <2>2, <2>3 DEF Noticeable
<1>4. exception = "ClosedError" => d \in Noticeable'
  BY <1>1, <1>2 DEF Noticeable
<1>5. ~StoreFails /\ d \in Noticeable => d \in Noticeable'
  <2>1. d \in Noticeable => wire[c] = "err"
    BY <1>2 DEF Noticeable
  <2> QED
    BY <1>4, <2>1
<1> QED
  BY <1>2, <1>3, <1>4, <1>5

\* Two events may be published at once: a report, and the loss of its drone.
LEMMA TwoTell ==
  ASSUME tasks \in Seq(SystemItem), UNCHANGED orchVars,
         NEW e \in SystemItem, IsNews(e), e.to = Subscribed,
         e.type # "DroneConnectionLost",
         NEW f \in SystemItem, IsNews(f), f.to = Subscribed,
         f.type = "DroneConnectionLost" => f.drone \in Noticeable',
         ~StoreFails => Noticeable \subseteq Noticeable',
         tasks' = Publish(Publish(tasks, e), f),
         NEW T, e.type \in T, f.type \in T
  PROVE  ServesAndTells(T)
<1>1. /\ News(e) \in Seq(SystemItem) /\ News(f) \in Seq(SystemItem)
      /\ \A i \in 1..Len(News(e)) : News(e)[i] = e
      /\ \A i \in 1..Len(News(f)) : News(f)[i] = f
  BY NewsPublished
<1>2. Publish(tasks, e) = tasks \o News(e) /\ tasks \o News(e) \in Seq(SystemItem)
  BY <1>1, NewsPublished
<1>3. tasks' = (tasks \o News(e)) \o News(f)
  BY <1>2, NewsPublished
<1> HIDE DEF News
<1> DEFINE news == News(e) \o News(f)
<1>4. news \in Seq(SystemItem) /\ \A i \in 1..Len(news) : news[i] \in {e, f}
  BY <1>1
<1>5. tasks' = tasks \o news
  BY <1>1, <1>3
<1> HIDE DEF news
<1>6. Served(tasks, news)
  BY <1>4, <1>5 DEF Served
<1>7. Heard(news)
  BY <1>4 DEF Heard
<1> QED
  BY <1>4, <1>6, <1>7 DEF ServesAndTells

\* A report is published and acknowledged, or found to have come too late.
LEMMA ReportedTells ==
  ASSUME BridgeAssumption, LinkInv, tasks \in Seq(SystemItem),
         NEW c \in Conns, handler[c] = "serving",
         NEW e \in SystemItem, IsNews(e), e.to = Subscribed,
         e.type # "DroneConnectionLost",
         Reported(c, Publish(tasks, e)),
         NEW T, e.type \in T, DroneNotice \subseteq T
  PROVE  ServesAndTells(T)
<1>1. CASE ~noticed[c]
  <2>1. /\ tasks' = Publish(tasks, e)
        /\ UNCHANGED <<orchVars, bridgeVars, wire>>
    BY <1>1 DEF Reported, bridgeVars
  <2> QED
    BY <2>1, CalmNews
<1>2. CASE noticed[c]
  <2> DEFINE x == IF wire[c] = "ok" THEN "ClosedOK" ELSE "ClosedError"
             type == IF wire[c] = "ok" THEN "DroneDisconnected" ELSE "DroneConnectionLost"
             f == Notified(type, owner[c])
  <2>1. Leave(c, Publish(tasks, e), x)
    BY <1>2 DEF Reported
  <2>2. /\ ~StoreFails => Noticeable \subseteq Noticeable'
        /\ x = "ClosedError" => owner[c] \in Noticeable'
        /\ owner[c] \in Drones
    BY <2>1, LeaveNotices
  <2>3. tasks' = Tell(Publish(tasks, e), type, owner[c]) /\ UNCHANGED orchVars
    BY <2>1 DEF Leave
  <2>4. type \in DroneNotice
    BY DEF DroneNotice
  <2>5. /\ f \in SystemItem /\ IsNews(f) /\ f.to = Subscribed
        /\ f.type = type /\ f.drone = owner[c] /\ f.type \in T
        /\ tasks' = Publish(Publish(tasks, e), f)
    BY <2>2, <2>3, <2>4, NoticeIsNews
  <2> HIDE DEF f
  <2>6. f.type = "DroneConnectionLost" => f.drone \in Noticeable'
    BY <2>2, <2>5
  <2> QED
    BY <2>2, <2>3, <2>5, <2>6, TwoTell
<1> QED
  BY <1>1, <1>2

\* _authenticate_drone.
LEMMA AuthNotices ==
  ASSUME BridgeAssumption, LinkInv, NEW c \in Conns, handler[c] = "auth",
         UNCHANGED <<connected, disconnected>>,
         handler' = [handler EXCEPT ![c] = "none"],
         \/ UNCHANGED wire
         \/ wire' = [wire EXCEPT ![c] = IF @ = "up" THEN "ok" ELSE @]
  PROVE  Noticeable \subseteq Noticeable'
<1> SUFFICES ASSUME NEW d \in Noticeable
             PROVE  d \in Noticeable'
  OBVIOUS
<1>1. d \in Drones
  BY DEF Noticeable
<1>2. connected \in [Drones -> Conns \cup {NoConn}]
  BY DEF LinkInv, LinkTypeOK, BridgeTypeOK
<1>3. CASE connected[d] = c
  <2>1. handler'[c] = "none" /\ connected'[d] = c /\ c # NoConn
    BY <1>3, NoConnIsNone DEF LinkInv, LinkTypeOK, BridgeTypeOK
  <2> QED
    BY <1>1, <2>1 DEF Noticeable
<1>4. CASE connected[d] # c
  <2>1. connected[d] # NoConn => /\ handler'[connected[d]] = handler[connected[d]]
                                 /\ wire'[connected[d]] = wire[connected[d]]
    BY <1>1, <1>2, <1>4 DEF LinkInv, LinkTypeOK, BridgeTypeOK
  <2> QED
    BY <1>1, <2>1 DEF Noticeable
<1> QED
  BY <1>3, <1>4

LEMMA AcceptTells ==
  ASSUME BridgeAssumption, LinkInv, tasks \in Seq(SystemItem), NEW c \in Conns, Accept(c),
         NEW T, DroneNotice \subseteq T
  PROVE  ServesAndTells(T)
<1> DEFINE d == owner[c]
<1>1. /\ handler[c] = "auth" /\ connected[d] = NoConn
      /\ connected' = [connected EXCEPT ![d] = c]
      /\ disconnected' = disconnected \ {d}
      /\ \/ handler' = [handler EXCEPT ![c] = "none"]
         \/ handler' = [handler EXCEPT ![c] = "serving"]
      /\ tasks' = IF d \in disconnected THEN Tell(tasks, "DroneReconnected", d) ELSE tasks
      /\ UNCHANGED <<wire, orchVars>>
  BY DEF Accept, Finish
<1>2. /\ d \in Drones /\ c # NoConn
      /\ connected \in [Drones -> Conns \cup {NoConn}]
      /\ handler \in [Conns -> {"none", "auth", "serving"}]
  BY <1>1, NoConnIsNone DEF LinkInv, LinkTypeOK, BridgeTypeOK, Owned
<1>3. ASSUME NEW x \in Noticeable, x # d
      PROVE  x \in Noticeable'
  <2>1. x \in Drones /\ connected'[x] = connected[x] /\ connected[x] # c
    BY <1>1, <1>2, <1>3 DEF Noticeable, LinkInv, Owned
  <2>2. connected[x] # NoConn => handler'[connected'[x]] = handler[connected[x]]
    BY <1>1, <1>2, <2>1
  <2>3. x \in disconnected => x \in disconnected'
    BY <1>1, <1>3
  <2> QED
    BY <1>1, <1>3, <2>1, <2>2, <2>3 DEF Noticeable
<1>4. d \in Noticeable => d \in disconnected
  BY <1>1 DEF Noticeable
<1>5. CASE d \in disconnected
  <2> DEFINE e == Notified("DroneReconnected", d)
  <2>1. "DroneReconnected" \in DroneNotice
    BY DEF DroneNotice
  <2>2. /\ e \in SystemItem /\ IsNews(e) /\ e.to = Subscribed
        /\ e.type = "DroneReconnected" /\ e.drone = d /\ e.type \in T
        /\ tasks' = Publish(tasks, e)
    BY <1>1, <1>2, <1>5, <2>1, NoticeIsNews
  <2> HIDE DEF e
  <2>3. Minds(e)
    BY <1>3, <2>2 DEF Minds
  <2> QED
    BY <1>1, <2>2, <2>3, PublishTells
<1>6. CASE d \notin disconnected
  <2>1. Noticeable \subseteq Noticeable'
    BY <1>3, <1>4, <1>6
  <2> QED
    BY <1>1, <1>6, <2>1, TakenTells
<1> QED
  BY <1>5, <1>6

\* What a drone has reported is a number, or yes or no.
LEMMA ReportTyped ==
  ASSUME LinkInv, NEW c \in Conns, to_server[c] # <<>>
  PROVE  /\ Head(to_server[c]).type = "MOVE_EXECUTED" => Head(to_server[c]).ok \in BOOLEAN
         /\ Head(to_server[c]).type = "PHOTO_WITH_TELEMETRY" =>
              Head(to_server[c]).place \in Int
<1>1. Head(to_server[c]) \in Report
  BY DEF LinkInv, LinkTypeOK
<1> QED
  BY <1>1 DEF Report, Auth, MoveAck, MoveReport, PhotoReport

LEMMA ServeTells ==
  ASSUME BridgeAssumption, LinkInv, tasks \in Seq(SystemItem), NEW c \in Conns, Serve(c),
         NEW T, DroneNotice \subseteq T,
         ReceiveMoveReport(c) => "MoveExecuted" \in T,
         ReceivePhoto(c) => "PhotoWithTelemetryReceived" \in T
  PROVE  ServesAndTells(T)
<1> DEFINE d == owner[c]
<1>1. Subscribed \subseteq Orchs
  BY DEF Subscribed
<1>2. handler[c] = "serving" => d \in Drones
  BY DEF LinkInv, Owned
<1>3. CASE Reject(c) \/ AuthFails(c)
  <2>1. /\ handler[c] = "auth" /\ handler' = [handler EXCEPT ![c] = "none"]
        /\ UNCHANGED <<connected, disconnected, orchVars, tasks>>
        /\ \/ UNCHANGED wire
           \/ wire' = [wire EXCEPT ![c] = IF @ = "up" THEN "ok" ELSE @]
    BY <1>3 DEF Reject, AuthFails, Finish, Hangup, linkVars
  <2> QED
    BY <2>1, AuthNotices, TakenTells
<1>4. CASE Accept(c)
  BY <1>4, AcceptTells
<1>5. CASE ReceiveMoveAck(c)
  <2> DEFINE e == Notified("MoveStarted", d)
  <2>1. /\ tasks' = Tell(tasks, "MoveStarted", d) /\ handler[c] = "serving"
        /\ UNCHANGED <<orchVars, bridgeVars, wire>>
    BY <1>5 DEF ReceiveMoveAck, Incoming
  <2>2. "MoveStarted" \in DroneNotice
    BY DEF DroneNotice
  <2>3. /\ e \in SystemItem /\ IsNews(e) /\ e.to = Subscribed
        /\ e.type # "DroneConnectionLost" /\ e.type \in T
        /\ tasks' = Publish(tasks, e)
    BY <1>2, <2>1, <2>2, NoticeIsNews
  <2> HIDE DEF e
  <2> QED
    BY <2>1, <2>3, CalmNews
<1>6. CASE ReceiveMoveReport(c)
  <2> DEFINE e == [type |-> "MoveExecuted", drone |-> owner[c],
                   ok |-> Head(to_server[c]).ok, to |-> Subscribed]
  <2>1. handler[c] = "serving" /\ Reported(c, Publish(tasks, e))
    BY <1>6 DEF ReceiveMoveReport, Incoming
  <2>2. Head(to_server[c]).ok \in BOOLEAN
    BY <1>6, ReportTyped DEF ReceiveMoveReport, Incoming
  <2>3. e \in SystemItem /\ IsNews(e) /\ e.to = Subscribed /\ e.type # "DroneConnectionLost"
        /\ e.type \in T
    BY <1>1, <1>2, <1>6, <2>1, <2>2
    DEF SystemItem, Items, Events, IsNews, CommandTypes, Awaited
  <2> HIDE DEF e
  <2> QED
    BY <2>1, <2>3, ReportedTells
<1>7. CASE ReceivePhoto(c)
  <2> DEFINE e == [type |-> "PhotoWithTelemetryReceived", drone |-> owner[c],
                   photo |-> Head(to_server[c]).place, to |-> Subscribed]
  <2>1. handler[c] = "serving" /\ Reported(c, Publish(tasks, e))
    BY <1>7 DEF ReceivePhoto, Incoming
  <2>2. Head(to_server[c]).place \in Int
    BY <1>7, ReportTyped DEF ReceivePhoto, Incoming
  <2>3. e \in SystemItem /\ IsNews(e) /\ e.to = Subscribed /\ e.type # "DroneConnectionLost"
        /\ e.type \in T
    BY <1>1, <1>2, <1>7, <2>1, <2>2
    DEF SystemItem, Items, Events, IsNews, CommandTypes, Awaited
  <2> HIDE DEF e
  <2> QED
    BY <2>1, <2>3, ReportedTells
<1>8. CASE PhotoNotStored(c)
  <2>1. /\ handler[c] = "serving" /\ Leave(c, tasks, "other") /\ StoreFails
        /\ tasks' = tasks /\ UNCHANGED orchVars
    BY <1>8 DEF PhotoNotStored, Incoming, Leave
  <2> QED
    BY <2>1, TakenTells
<1>9. CASE EndOfMessages(c)
  <2> DEFINE x == IF wire[c] = "ok" THEN "none" ELSE "ClosedError"
             e == Notified("DroneConnectionLost", d)
  <2>1. handler[c] = "serving" /\ Leave(c, tasks, x)
    BY <1>9 DEF EndOfMessages
  <2>2. /\ ~StoreFails => Noticeable \subseteq Noticeable'
        /\ x = "ClosedError" => d \in Noticeable'
    BY <2>1, LeaveNotices
  <2>3. UNCHANGED orchVars
    BY <2>1 DEF Leave
  <2>4. CASE x = "none"
    <3>1. tasks' = tasks
      BY <2>1, <2>4 DEF Leave
    <3> QED
      BY <2>2, <2>3, <3>1, TakenTells
  <2>5. CASE x = "ClosedError"
    <3>1. tasks' = Tell(tasks, "DroneConnectionLost", d)
      BY <2>1, <2>5 DEF Leave
    <3>2. "DroneConnectionLost" \in DroneNotice
      BY DEF DroneNotice
    <3>3. /\ e \in SystemItem /\ IsNews(e) /\ e.to = Subscribed
          /\ e.type = "DroneConnectionLost" /\ e.drone = d /\ e.type \in T
          /\ tasks' = Publish(tasks, e)
      BY <1>2, <2>1, <3>1, <3>2, NoticeIsNews
    <3> HIDE DEF e
    <3>4. Minds(e)
      BY <2>2, <2>5, <3>3 DEF Minds
    <3> QED
      BY <2>3, <3>3, <3>4, PublishTells
  <2> QED
    BY <2>4, <2>5
<1> QED
  BY <1>3, <1>4, <1>5, <1>6, <1>7, <1>8, <1>9 DEF Serve

\* A wire that breaks makes the loss noticeable; one that the drone closes was
\* not broken.
LEMMA WireTells ==
  ASSUME LinkInv, tasks \in Seq(SystemItem), UNCHANGED <<orchVars, tasks, bridgeVars>>,
         NEW c \in Conns,
         \/ UNCHANGED wire
         \/ wire' = [wire EXCEPT ![c] = "err"]
         \/ wire[c] = "up" /\ wire' = [wire EXCEPT ![c] = "ok"],
         NEW T
  PROVE  ServesAndTells(T)
<1>1. \A x \in Conns : wire[x] = "err" => wire'[x] = "err"
  BY DEF LinkInv, LinkTypeOK, BridgeTypeOK
<1>2. connected \in [Drones -> Conns \cup {NoConn}]
  BY DEF LinkInv, LinkTypeOK, BridgeTypeOK
<1>3. Noticeable \subseteq Noticeable'
  BY <1>1, <1>2 DEF Noticeable, bridgeVars
<1> QED
  BY <1>3, TakenTells

LEMMA DroneStepTells ==
  ASSUME LinkInv, tasks \in Seq(SystemItem), UNCHANGED <<orchVars, tasks, bridgeVars>>,
         NEW d \in Drones,
         \/ Dispatch(d) \/ FinishMove(d) \/ ConnectionGone(d) \/ Shutdown(d),
         NEW T
  PROVE  ServesAndTells(T)
<1>1. CASE UNCHANGED wire
  BY <1>1, CalmTaken
<1>2. CASE proc[d] \in Conns
  <2>1. \/ UNCHANGED wire
        \/ wire' = [wire EXCEPT ![proc[d]] = "err"]
        \/ wire[proc[d]] = "up" /\ wire' = [wire EXCEPT ![proc[d]] = "ok"]
    <3>1. CASE AuthAnswer(d)
      BY <1>2, <3>1 DEF AuthAnswer, LinkInv, LinkTypeOK, BridgeTypeOK
    <3> QED
      BY <3>1 DEF Dispatch, TakePhoto, BeginMove, FinishMove, ConnectionGone, Shutdown
  <2> QED
    BY <1>2, <2>1, WireTells
<1>3. proc[d] # NoConn => proc[d] \in Conns
  BY DEF LinkInv, LinkTypeOK
<1> QED
  BY <1>1, <1>2, <1>3
  DEF Dispatch, AuthAnswer, Arrived, TakePhoto, BeginMove, FinishMove, ConnectionGone,
      Shutdown

LEMMA RestartTells ==
  ASSUME LinkInv, tasks \in Seq(SystemItem), NEW d \in Drones, RestartDrone(d),
         NEW T
  PROVE  ServesAndTells(T)
<1>1. PICK c \in Conns : /\ FreeSlot(c) /\ StartProcess(d, c)
                         /\ handler' = [handler EXCEPT ![c] = "auth"]
  BY DEF RestartDrone
<1>2. /\ wire' = [wire EXCEPT ![c] = "up"]
      /\ UNCHANGED <<connected, disconnected, orchVars, tasks>>
  BY <1>1 DEF StartProcess, Open, RestartDrone, missionVars
<1>3. \A x \in Drones : connected[x] # c
  BY <1>1 DEF FreeSlot
<1>4. \A b \in Conns : b # c => wire'[b] = wire[b] /\ handler'[b] = handler[b]
  BY <1>1, <1>2 DEF LinkInv, LinkTypeOK, BridgeTypeOK
<1>5. \A x \in Drones : connected[x] # NoConn => connected[x] \in Conns
  BY DEF LinkInv, LinkTypeOK, BridgeTypeOK
<1>6. Noticeable \subseteq Noticeable'
  <2> SUFFICES ASSUME NEW x \in Noticeable
               PROVE  x \in Noticeable'
    OBVIOUS
  <2>1. x \in Drones
    BY DEF Noticeable
  <2>2. connected[x] # NoConn => /\ wire'[connected[x]] = wire[connected[x]]
                                 /\ handler'[connected[x]] = handler[connected[x]]
    BY <1>3, <1>4, <1>5, <2>1
  <2> QED
    BY <1>2, <2>1, <2>2 DEF Noticeable
<1> QED
  BY <1>2, <1>6, TakenTells

LEMMA NetworkTells ==
  ASSUME LinkInv, tasks \in Seq(SystemItem), UNCHANGED <<orchVars, tasks, bridgeVars>>,
         NEW c \in Conns, Break(c) \/ Notice(c),
         NEW T
  PROVE  ServesAndTells(T)
  BY WireTells DEF Break, Notice

-----------------------------------------------------------------------------
(* The missions of the composition *)

MissionActs(o) == OrchestratorStep(o) \/ StartMission(o)

\* Every step of the composition is one of a mission, or serves the missions.
LEMMA SystemStep ==
  ASSUME OrchAssumption, BridgeAssumption, LinkInv, tasks \in Seq(SystemItem),
         QuestionsShown, [SystemNext]_systemVars
  PROVE  /\ QuestionsShown'
         /\ (\E o \in Orchs : MissionActs(o)) \/ ServesAndTells(EventTypes)
<1>0. /\ DroneNotice \subseteq EventTypes /\ ChatNotice \subseteq EventTypes
      /\ {"VlmAnalysisCompleted", "UserDecisionReceived", "MoveExecuted",
          "PhotoWithTelemetryReceived"} \subseteq EventTypes
  BY DEF EventTypes, DroneEventTypes, MissionEventTypes
<1>1. CASE UNCHANGED systemVars
  <2>1. UNCHANGED <<orchVars, tasks, bridgeVars, wire, pending_ui>>
    BY <1>1 DEF systemVars, missionVars, droneVars, linkVars, operatorVars
  <2> QED
    BY <2>1, CalmTaken DEF QuestionsShown
<1>2. CASE \E o \in Orchs : MissionActs(o)
  <2>1. UNCHANGED pending_ui
    BY <1>2 DEF MissionActs, OrchestratorStep, StartMission, operatorVars
  <2> QED
    BY <1>2, <2>1 DEF QuestionsShown
<1>3. CASE ChatCommand \/ DroneCommand
  <2>1. UNCHANGED pending_ui
    BY <1>3 DEF ChatCommand, DroneCommand, operatorVars
  <2> QED
    BY <1>0, <1>3, <2>1, ChatTells, DroneCommandTells DEF QuestionsShown
<1>4. CASE OperatorCommand \/ \E u \in UIs : OperatorStep(u)
  BY <1>0, <1>4, OperatorTells, OperatorStepTells
<1>5. CASE \E m \in Missions : ChatStep(m)
  <2>1. UNCHANGED pending_ui
    BY <1>5 DEF ChatStep, operatorVars
  <2> QED
    BY <1>0, <1>5, <2>1, ChatStepTells DEF QuestionsShown
<1>6. CASE \E c \in Conns : ServerStep(c)
  <2>1. UNCHANGED pending_ui
    BY <1>6 DEF ServerStep, operatorVars
  <2> QED
    BY <1>0, <1>6, <2>1, ServeTells, NetworkTells
    DEF QuestionsShown, ServerStep, missionVars
<1>7. CASE \E d \in Drones : DroneStep(d) \/ RestartDrone(d)
  <2>1. UNCHANGED pending_ui
    BY <1>7 DEF DroneStep, RestartDrone, operatorVars
  <2> QED
    BY <1>7, <2>1, DroneStepTells, RestartTells DEF QuestionsShown, DroneStep, missionVars
<1>8. CASE ConnectionLost
  <2>1. UNCHANGED pending_ui
    BY <1>8 DEF ConnectionLost, operatorVars
  <2> QED
    BY <1>8, <2>1, DroneStepTells, NetworkTells
    DEF QuestionsShown, ConnectionLost, missionVars
<1> QED
  BY <1>1, <1>2, <1>3, <1>4, <1>5, <1>6, <1>7, <1>8 DEF SystemNext, LoopStep, MissionActs

LEMMA ActsAreMission ==
  ASSUME NEW o \in Orchs, MissionActs(o)
  PROVE  Writes(o) /\ UNCHANGED <<bridgeVars, wire, pending_ui, to_server, flights>>
<1>1. Writes(o)
  BY DEF MissionActs, OrchestratorStep, StartMission, Writes, Starts
<1> QED
  BY <1>1 DEF MissionActs, OrchestratorStep, StartMission, operatorVars, droneVars, linkVars,
              clientVars

LEMMA SystemIsMission ==
  ASSUME OrchAssumption, BridgeAssumption, LinkInv, tasks \in Seq(SystemItem),
         QuestionsShown, [SystemNext]_systemVars
  PROVE  MissionNext(SystemItem)
<1>1. ServesAndTells(EventTypes) => Serves(SystemItem)
  BY DEF ServesAndTells, Serves
<1> QED
  BY <1>1, SystemStep, ActsAreMission DEF MissionNext

LEMMA SystemCarries == Carries(SystemItem)
  BY ItemsCarry DEF SystemItem

SystemInv == LinkInv /\ MissionInv(SystemItem) /\ QuestionsShown

LEMMA SystemStart == SystemInit => SystemInv
<1> SUFFICES ASSUME SystemInit PROVE SystemInv
  OBVIOUS
<1>1. LinkInv
  BY BridgeAssumption, LinkStart
<1>2. MissionInv(SystemItem)
  BY MissionInit DEF SystemInit
<1>3. QuestionsShown
  BY DEF SystemInit, QuestionsShown
<1> QED
  BY <1>1, <1>2, <1>3 DEF SystemInv

LEMMA SystemKept == SystemInv /\ [SystemNext]_systemVars => SystemInv'
<1> SUFFICES ASSUME SystemInv, [SystemNext]_systemVars
             PROVE  SystemInv'
  OBVIOUS
<1>1. LinkInv /\ MissionInv(SystemItem) /\ QuestionsShown /\ tasks \in Seq(SystemItem)
  BY DEF SystemInv, MissionInv
<1>2. LinkInv'
  BY <1>1, BridgeAssumption, LinkNext
<1>3. MissionNext(SystemItem) /\ QuestionsShown'
  BY <1>1, OrchAssumption, BridgeAssumption, SystemStep, SystemIsMission
<1>4. MissionInv(SystemItem)'
  BY <1>1, <1>3, OrchAssumption, SystemCarries, MissionNextInv
<1> QED
  BY <1>2, <1>3, <1>4 DEF SystemInv

LEMMA SystemInvariant == SystemSpec => []SystemInv
  BY SystemStart, SystemKept, PTL DEF SystemSpec

(* The bookkeeping of the bridge stays well formed, whatever connections     *)
(* come and go.                                                              *)
THEOREM BridgeTyped == SystemSpec => []BridgeTypeOK
<1>1. SystemInv => BridgeTypeOK
  BY DEF SystemInv, LinkInv, LinkTypeOK
<1> QED
  BY <1>1, SystemInvariant, PTL

(* However connections break, overlap and are rejected, the handler that     *)
(* serves a drone is the one registered for it, and no drone counted as lost *)
(* is registered.                                                            *)
THEOREM OneHandlerServes == SystemSpec => []ServedIsRegistered
<1>1. SystemInv => ServedIsRegistered
  BY DEF SystemInv, LinkInv
<1> QED
  BY <1>1, SystemInvariant, PTL

\* What SearchOrchestratorProofs says of missions holds of those that fly.
(* With real drones, connections that break and operators at two interfaces, *)
(* no mission counts more moves than were confirmed, or more than its budget.*)
THEOREM SystemBudget == SystemSpec => []MoveBudget
<1>1. SystemInv => MoveBudget
  BY OrchAssumption, SystemCarries, InvBudget DEF SystemInv
<1> QED
  BY <1>1, SystemInvariant, PTL

(* A mission of the composition owes exactly the move it has open.           *)
THEOREM SystemMovesCounted == SystemSpec => []MovesAccounted
<1>1. SystemInv => MovesAccounted
  BY OrchAssumption, SystemCarries, InvAccounted DEF SystemInv
<1> QED
  BY <1>1, SystemInvariant, PTL

(* Whenever a drone comes back, its mission has a command to resume with.    *)
THEOREM SystemPausesResumable == SystemSpec => []PauseResumable
<1>1. SystemInv => PauseResumable
  BY OrchAssumption, SystemCarries, InvResumable DEF SystemInv
<1> QED
  BY <1>1, SystemInvariant, PTL

(* The missions of the composition, on any drones and over any connections,  *)
(* keep the promise of HumanInTheLoop.                                       *)
THEOREM SystemKeepsPromise == SystemSpec => KeepsPromise
<1>1. SystemInv /\ [SystemNext]_systemVars => [Promise!Next]_(Promise!promiseVars)
  <2>1. SystemInv => LinkInv /\ MissionInv(SystemItem) /\ QuestionsShown
                     /\ tasks \in Seq(SystemItem)
    BY DEF SystemInv, MissionInv
  <2> QED
    BY <2>1, OrchAssumption, BridgeAssumption, SystemCarries, SystemIsMission, PromiseStep
<1>2. SystemInit => Promise!Init
  BY PromiseInit DEF SystemInit
<1> QED
  BY <1>1, <1>2, SystemInvariant, PTL DEF SystemSpec, KeepsPromise, Promise!Spec

-----------------------------------------------------------------------------
(* A lost drone is not forgotten *)

\* After item i of queue q the return of its drone is announced to o.
Returns(q, i, o) ==
  \E j \in 1..Len(q) : /\ i < j /\ q[j].type = "DroneReconnected"
                       /\ q[j].drone = DroneOf[o] /\ o \in q[j].to

Loses(q, i, o) == /\ q[i].type = "DroneConnectionLost"
                  /\ q[i].drone = DroneOf[o] /\ o \in q[i].to

\* The bridge keeps its end of the pause: the loss that paused a mission, or is
\* about to, is noticeable still, or the drone's return is announced later.
PauseInv ==
  \A o \in Subscribed :
    /\ state[o] = "PAUSED" => DroneOf[o] \in Noticeable \/ Returns(tasks, 0, o)
    /\ \A i \in 1..Len(tasks) :
         Loses(tasks, i, o) => DroneOf[o] \in Noticeable \/ Returns(tasks, i, o)

\* Only the loss of the connection pauses a mission.
LEMMA PauseBegins ==
  ASSUME MissionTypeOK, NEW o \in Orchs, Writes(o),
         state'[o] = "PAUSED", state[o] # "PAUSED"
  PROVE  HandleDroneConnectionLost(o)
<1> USE DEF MissionTypeOK, Goto, Terminate
<1>1. ~Starts(o)
  BY DEF Starts, Start
<1>2. ~AwaitedDone(o) /\ ~StartCancelled(o)
  BY DEF AwaitedDone, StartCancelled
<1>3. ~StartSave(o) /\ ~StartSearch(o) /\ ~StartFirstPhoto(o)
  BY DEF StartSave, StartSearch, StartFirstPhoto
<1>4. ~HandlePhotoAndTelemetry(o) /\ ~HandleVlmAnalysis(o)
  BY DEF HandlePhotoAndTelemetry, HandleVlmAnalysis
<1>5. ~UserConfirms(o) /\ ~UserWarns(o) /\ ~UserCancels(o)
  BY DEF UserConfirms, UserWarns, UserCancels
<1>6. ~HandleMoveStarted(o) /\ ~MoveSucceeded(o) /\ ~MoveFailed(o)
  BY DEF HandleMoveStarted, MoveSucceeded, MoveFailed
<1>7. ~HandleFatal(o) /\ ~Ignore(o)
  BY DEF HandleFatal, Ignore, orchVars
<1>8. ~HandleDroneReconnected(o)
  BY DEF HandleDroneReconnected, Handles, Expected
<1> QED
  BY <1>1, <1>2, <1>3, <1>4, <1>5, <1>6, <1>7, <1>8 DEF Writes, Handle

\* The return of the drone is not passed over by the mission that waits for it.
LEMMA ReturnHeeded ==
  ASSUME NEW Q, MissionInv(Q), NEW o \in Orchs, Writes(o),
         state[o] = "PAUSED", state'[o] = "PAUSED",
         EventFor(o), Task.type = "DroneReconnected", Task.drone = DroneOf[o]
  PROVE  \/ tasks' = tasks
         \/ tasks' = Append(tasks, Woken(o))
<1> USE DEF MissionInv, MissionTypeOK, Goto, Terminate
<1>1. ~Starts(o)
  BY DEF Starts, Start
<1>2. AwaitedDone(o) \/ StartCancelled(o) =>
        tasks' = tasks \/ tasks' = Append(tasks, Woken(o))
  BY DEF AwaitedDone, StartCancelled, Woken
<1>3. ~StartSave(o) /\ ~StartSearch(o) /\ ~StartFirstPhoto(o)
  BY DEF StartSave, StartSearch, StartFirstPhoto, Awake
<1>4. ~HandlePhotoAndTelemetry(o) /\ ~HandleVlmAnalysis(o)
  BY DEF HandlePhotoAndTelemetry, HandleVlmAnalysis, Handles
<1>5. ~UserConfirms(o) /\ ~UserWarns(o) /\ ~UserCancels(o)
  BY DEF UserConfirms, UserWarns, UserCancels, Handles
<1>6. ~HandleMoveStarted(o) /\ ~MoveSucceeded(o) /\ ~MoveFailed(o)
  BY DEF HandleMoveStarted, MoveSucceeded, MoveFailed, Handles
<1>7. ~HandleFatal(o) /\ ~HandleDroneConnectionLost(o)
  BY DEF HandleFatal, HandleDroneConnectionLost, Handles, Fatal, ChatNotice
<1>8. ~Ignore(o)
  <2>1. Handles(o, Task.type)
    BY DEF Handles, Concerns, Expected, DroneEventTypes, DroneNotice
  <2> QED
    BY <2>1 DEF Ignore
<1>9. ~HandleDroneReconnected(o)
  <2>1. pending_command[o].type \in {"GetPhoto", "ExecuteMove"}
    BY DEF Resumable, GetPhoto, ExecuteMove
  <2> QED
    BY <2>1 DEF HandleDroneReconnected
<1> QED
  BY <1>1, <1>2, <1>3, <1>4, <1>5, <1>6, <1>7, <1>8, <1>9 DEF Writes, Handle

LEMMA PauseMission ==
  ASSUME OrchAssumption, SystemInv, PauseInv, NEW p \in Orchs, MissionActs(p)
  PROVE  PauseInv'
<1>1. /\ MissionInv(SystemItem) /\ MissionTypeOK /\ tasks \in Seq(SystemItem)
      /\ Carries(SystemItem) /\ Writes(p)
      /\ UNCHANGED Noticeable
  BY SystemCarries, ActsAreMission, CalmLink DEF SystemInv, MissionInv
<1>2. Follows(SystemItem, p, tasks')
  BY <1>1, MissionFollows DEF MissionInv
<1>3. PICK n \in Nat, s \in {0, 1} :
        /\ n + s = Len(tasks) /\ n <= Len(tasks')
        /\ s = 1 => /\ Task.type \notin CommandTypes
                    /\ Task.type \in EventTypes => Task.to \subseteq {p}
        /\ \A i \in 1..n : \/ tasks'[i] = tasks[i + s]
                           \/ i + s = 1 /\ Told(p, tasks[1], tasks'[1])
        /\ Parts(p, n, tasks') \/ Commands(p, n, tasks') \/ Continues(p, n, tasks')
  BY <1>1, <1>2, WritesKeeps
<1>4. Len(tasks) \in Nat /\ Len(tasks') \in Nat
  BY <1>1, <1>2, WritesKeeps
<1>5. ASSUME NEW o \in Orchs, state[o] = "ENDED"
      PROVE  state'[o] = "ENDED"
  BY <1>1, <1>5, SilentMission DEF Silent
<1>6. ASSUME NEW o \in Subscribed', state'[o] = "PAUSED"
      PROVE  DroneOf[o] \in Noticeable' \/ Returns(tasks', 0, o)
  <2> SUFFICES ASSUME DroneOf[o] \notin Noticeable
               PROVE  Returns(tasks', 0, o)
    BY <1>1
  <2>1. o \in Orchs
    BY DEF Subscribed
  <2>2. CASE state[o] = "PAUSED"
    <3>1. o \in Subscribed
      BY <2>1, <2>2 DEF Subscribed
    <3>2. Returns(tasks, 0, o)
      BY <2>2, <3>1 DEF PauseInv
    <3>3. PICK j \in 1..Len(tasks) : /\ tasks[j].type = "DroneReconnected"
                                     /\ tasks[j].drone = DroneOf[o] /\ o \in tasks[j].to
      BY <3>2 DEF Returns
    <3>4. CASE j > 1
      <4>1. j - s \in 1..n /\ (j - s) + s = j /\ j - s \in 1..Len(tasks') /\ 0 < j - s
        BY <1>3, <1>4, <3>4
      <4>2. tasks'[j - s] = tasks[j]
        BY <1>3, <3>4, <4>1
      <4> QED
        BY <3>3, <4>1, <4>2 DEF Returns
    <3>5. CASE j = 1 /\ p = o
      <4>1. /\ Task = tasks[1] /\ tasks # <<>>
            /\ Task.type = "DroneReconnected" /\ o \in Task.to
        BY <3>3, <3>5 DEF Task
      <4>2. EventFor(o) /\ Task.drone = DroneOf[o]
        BY <3>3, <3>5, <4>1 DEF EventFor, DroneEventTypes, DroneNotice
      <4>3. tasks' = tasks \/ tasks' = Append(tasks, Woken(o))
        BY <1>1, <1>6, <2>1, <2>2, <3>5, <4>1, <4>2, ReturnHeeded
      <4>4. tasks'[1] = tasks[1] /\ 1 \in 1..Len(tasks')
        BY <1>1, <4>1, <4>3
      <4> QED
        BY <3>3, <3>5, <4>4 DEF Returns
    <3>6. CASE j = 1 /\ p # o
      <4>1. Task = tasks[1] /\ Task.type \in EventTypes
        BY <3>3, <3>6 DEF Task, EventTypes, DroneEventTypes, DroneNotice
      <4>2. s = 0 /\ 1 \in 1..n /\ 1 \in 1..Len(tasks') /\ 0 < 1
        BY <1>3, <1>4, <2>1, <3>3, <3>6, <4>1
      <4>3. tasks'[1] = tasks[1] \/ Told(p, tasks[1], tasks'[1])
        BY <1>3, <4>2
      <4>4. /\ tasks'[1].type = "DroneReconnected" /\ tasks'[1].drone = DroneOf[o]
            /\ o \in tasks'[1].to
        BY <3>3, <3>6, <4>3 DEF Told, DroneEventTypes, DroneNotice
      <4> QED
        BY <4>2, <4>4 DEF Returns
    <3>7. j = 1 \/ j > 1
      BY <1>4
    <3> QED
      BY <3>4, <3>5, <3>6, <3>7
  <2>3. CASE state[o] # "PAUSED"
    <3>1. p = o
      BY <1>1, <1>6, <2>1, <2>3, OthersKept DEF Ledger
    <3>2. HandleDroneConnectionLost(o)
      BY <1>1, <1>6, <2>1, <2>3, <3>1, PauseBegins
    <3>3. /\ tasks # <<>> /\ Task = tasks[1] /\ 1 \in 1..Len(tasks)
          /\ Loses(tasks, 1, o) /\ state[o] \in {"WAITING_FOR_DRONE", "WAITING_FOR_ACK"}
      BY <1>1, <3>2 DEF HandleDroneConnectionLost, Handles, EventFor, Task, Concerns, Loses,
                        DroneEventTypes, DroneNotice, Expected
    <3>4. o \in Subscribed
      BY <2>1, <3>3 DEF Subscribed
    <3>5. Returns(tasks, 1, o)
      BY <3>3, <3>4 DEF PauseInv
    <3>6. PICK j \in 1..Len(tasks) : /\ 1 < j /\ tasks[j].type = "DroneReconnected"
                                     /\ tasks[j].drone = DroneOf[o] /\ o \in tasks[j].to
      BY <3>5 DEF Returns
    <3>7. j - s \in 1..n /\ (j - s) + s = j /\ j - s \in 1..Len(tasks') /\ 0 < j - s
      BY <1>3, <1>4, <3>6
    <3>8. tasks'[j - s] = tasks[j]
      BY <1>3, <3>6, <3>7
    <3> QED
      BY <3>6, <3>7, <3>8 DEF Returns
  <2> QED
    BY <2>2, <2>3
<1>7. ASSUME NEW o \in Subscribed', NEW i \in 1..Len(tasks'), Loses(tasks', i, o)
      PROVE  DroneOf[o] \in Noticeable' \/ Returns(tasks', i, o)
  <2>1. o \in Orchs
    BY DEF Subscribed
  <2>2. i \notin Added(tasks', n)
    <3>1. tasks'[i].type \in EventTypes
      BY <1>7 DEF Loses, EventTypes, DroneEventTypes, DroneNotice
    <3> QED
      BY <1>3, <1>4, <3>1, AddedIsOwn
  <2>3. i \in 1..n /\ i + s \in 1..Len(tasks)
    BY <1>3, <1>4, <2>2 DEF Added
  <2>4. Loses(tasks, i + s, o)
    <3>1. CASE tasks'[i] = tasks[i + s]
      BY <1>7, <3>1 DEF Loses
    <3>2. CASE i + s = 1 /\ Told(p, tasks[1], tasks'[1])
      <4>1. i = 1
        BY <2>3, <3>2
      <4> QED
        BY <1>7, <3>2, <4>1 DEF Loses, Told, DroneEventTypes, DroneNotice
    <3> QED
      BY <1>3, <2>3, <3>1, <3>2
  <2>5. state[o] # "NEW"
    BY <1>1, <2>1, <2>3, <2>4
    DEF Loses, MissionInv, Addressed, EventTypes, DroneEventTypes, DroneNotice
  <2>6. o \in Subscribed
    BY <1>5, <1>7, <2>1, <2>5 DEF Subscribed
  <2>7. DroneOf[o] \in Noticeable \/ Returns(tasks, i + s, o)
    BY <2>3, <2>4, <2>6 DEF PauseInv
  <2>8. Returns(tasks, i + s, o) => Returns(tasks', i, o)
    <3> SUFFICES ASSUME Returns(tasks, i + s, o) PROVE Returns(tasks', i, o)
      OBVIOUS
    <3>1. PICK j \in 1..Len(tasks) : /\ i + s < j /\ tasks[j].type = "DroneReconnected"
                                     /\ tasks[j].drone = DroneOf[o] /\ o \in tasks[j].to
      BY DEF Returns
    <3>2. j - s \in 1..n /\ (j - s) + s = j /\ j - s \in 1..Len(tasks') /\ i < j - s
      BY <1>3, <1>4, <2>3, <3>1
    <3>3. tasks'[j - s] = tasks[j]
      BY <1>3, <2>3, <3>1, <3>2
    <3> QED
      BY <3>1, <3>2, <3>3 DEF Returns
  <2> QED
    BY <1>1, <2>7, <2>8
<1> QED
  BY <1>6, <1>7 DEF PauseInv

LEMMA PauseService ==
  ASSUME ~StoreFails, tasks \in Seq(SystemItem), PauseInv, ServesAndTells(EventTypes)
  PROVE  PauseInv'
<1>1. PICK q \in Seq(SystemItem), news \in Seq(SystemItem) : Served(q, news) /\ Heard(news)
  BY DEF ServesAndTells
<1>2. /\ tasks' \in Seq(SystemItem) /\ Len(tasks') = Len(q) + Len(news)
      /\ \A k \in 1..Len(news) : tasks'[Len(q) + k] = news[k]
      /\ \A i \in Added(tasks', Len(q)) : /\ i - Len(q) \in 1..Len(news)
                                          /\ tasks'[i] = news[i - Len(q)]
  BY <1>1, ServedKeeps
<1>3. PICK s \in {0, 1} : /\ Len(q) + s = Len(tasks)
                          /\ s = 1 => Task.type \notin EventTypes
                          /\ \A i \in 1..Len(q) : tasks'[i] = tasks[i + s]
  BY <1>1, ServedKeeps
<1>4. Len(q) \in Nat /\ Len(news) \in Nat /\ Len(tasks) \in Nat
  OBVIOUS
<1>5. Subscribed' = Subscribed /\ UNCHANGED state
  BY <1>1 DEF Served, orchVars, Subscribed
\* A loss that was noticeable still is, or its end has been announced last.
<1>6. ASSUME NEW o \in Subscribed, NEW i \in 0..Len(q), DroneOf[o] \in Noticeable
      PROVE  DroneOf[o] \in Noticeable' \/ Returns(tasks', i, o)
  <2> SUFFICES ASSUME DroneOf[o] \notin Noticeable'
               PROVE  Returns(tasks', i, o)
    OBVIOUS
  <2>1. PICK k \in 1..Len(news) : /\ news[k].type = "DroneReconnected"
                                  /\ news[k].drone = DroneOf[o] /\ news[k].to = Subscribed
    BY <1>1, <1>6 DEF Heard
  <2>2. Len(q) + k \in 1..Len(tasks') /\ i < Len(q) + k /\ tasks'[Len(q) + k] = news[k]
    BY <1>2, <1>4
  <2> QED
    BY <2>1, <2>2 DEF Returns
\* A return that was announced still is.
<1>7. ASSUME NEW o \in Subscribed, NEW i \in 0..Len(q),
             Returns(tasks, i + s, o) \/ (i = 0 /\ Returns(tasks, 0, o))
      PROVE  Returns(tasks', i, o)
  <2>1. PICK j \in 1..Len(tasks) : /\ i + s < j \/ (i = 0 /\ 0 < j)
                                   /\ tasks[j].type = "DroneReconnected"
                                   /\ tasks[j].drone = DroneOf[o] /\ o \in tasks[j].to
    BY <1>7 DEF Returns
  <2>2. j = 1 => s = 0
    <3>1. ASSUME j = 1
          PROVE  Task.type \in EventTypes
      BY <2>1, <3>1 DEF Task, EventTypes, DroneEventTypes, DroneNotice
    <3> QED
      BY <1>3, <3>1
  <2>3. j - s \in 1..Len(q) /\ (j - s) + s = j /\ i < j - s /\ j - s \in 1..Len(tasks')
    BY <1>2, <1>3, <1>4, <2>1, <2>2
  <2>4. tasks'[j - s] = tasks[j]
    BY <1>3, <2>3
  <2> QED
    BY <2>1, <2>3, <2>4 DEF Returns
<1>8. ASSUME NEW o \in Subscribed, state[o] = "PAUSED"
      PROVE  DroneOf[o] \in Noticeable' \/ Returns(tasks', 0, o)
  <2>1. 0 \in 0..Len(q)
    BY <1>4
  <2>2. DroneOf[o] \in Noticeable \/ Returns(tasks, 0, o)
    BY <1>8 DEF PauseInv
  <2> QED
    BY <1>6, <1>7, <2>1, <2>2
<1>9. ASSUME NEW o \in Subscribed, NEW i \in 1..Len(tasks'), Loses(tasks', i, o)
      PROVE  DroneOf[o] \in Noticeable' \/ Returns(tasks', i, o)
  <2>1. CASE i \in 1..Len(q)
    <3>1. i + s \in 1..Len(tasks) /\ i \in 0..Len(q)
      BY <1>3, <1>4, <2>1
    <3>2. Loses(tasks, i + s, o)
      BY <1>3, <1>9, <2>1 DEF Loses
    <3>3. DroneOf[o] \in Noticeable \/ Returns(tasks, i + s, o)
      BY <3>1, <3>2 DEF PauseInv
    <3> QED
      BY <1>6, <1>7, <3>1, <3>3
  <2>2. CASE i \notin 1..Len(q)
    <3>1. i \in Added(tasks', Len(q))
      BY <1>2, <1>4, <2>2 DEF Added
    <3>2. i - Len(q) \in 1..Len(news) /\ tasks'[i] = news[i - Len(q)]
      BY <1>2, <3>1
    <3> QED
      BY <1>1, <1>9, <3>2 DEF Heard, Loses
  <2> QED
    BY <2>1, <2>2
<1> QED
  BY <1>5, <1>8, <1>9 DEF PauseInv

(* As long as a photo that cannot be stored does not end a handler, a paused *)
(* mission has not been forgotten: its drone is counted as lost, or its      *)
(* connection is found broken next, or the news of its return is queued.     *)
THEOREM PausesNoticed ==
  ASSUME ~StoreFails
  PROVE  SystemSpec => []PauseIsNoticed
<1>1. SystemInit => PauseInv
  <2> SUFFICES ASSUME SystemInit PROVE PauseInv
    OBVIOUS
  <2>1. Subscribed = {}
    BY DEF SystemInit, Init, Subscribed
  <2> QED
    BY <2>1 DEF PauseInv
<1>2. SystemInv /\ PauseInv /\ [SystemNext]_systemVars => PauseInv'
  <2> SUFFICES ASSUME SystemInv, PauseInv, [SystemNext]_systemVars
               PROVE  PauseInv'
    OBVIOUS
  <2>1. LinkInv /\ tasks \in Seq(SystemItem) /\ QuestionsShown
    BY DEF SystemInv, MissionInv
  <2>2. (\E o \in Orchs : MissionActs(o)) \/ ServesAndTells(EventTypes)
    BY <2>1, OrchAssumption, BridgeAssumption, SystemStep
  <2> QED
    BY <2>1, <2>2, OrchAssumption, PauseMission, PauseService
<1>3. SystemInv /\ PauseInv => PauseIsNoticed
  <2> SUFFICES ASSUME SystemInv, PauseInv,
                      NEW o \in Orchs, state[o] = "PAUSED", RegisteredIsServed,
                      DroneOf[o] \notin disconnected,
                      \A i \in 1..Len(tasks) : ~(/\ tasks[i].type = "DroneReconnected"
                                                 /\ tasks[i].drone = DroneOf[o])
               PROVE  \E c \in Conns : /\ connected[DroneOf[o]] = c
                                       /\ handler[c] = "serving" /\ wire[c] = "err"
    BY DEF PauseIsNoticed
  <2>1. o \in Subscribed /\ ~Returns(tasks, 0, o)
    BY DEF Subscribed, Returns
  <2>2. DroneOf[o] \in Noticeable
    BY <2>1 DEF PauseInv
  <2>3. DroneOf[o] \in Drones /\ connected[DroneOf[o]] # NoConn
    BY <2>2 DEF Noticeable
  <2>4. connected[DroneOf[o]] \in Conns
    BY <2>3 DEF SystemInv, LinkInv, LinkTypeOK, BridgeTypeOK
  <2> QED
    BY <2>2, <2>3, <2>4 DEF Noticeable, RegisteredIsServed
<1> QED
  BY <1>1, <1>2, <1>3, SystemInvariant, PTL DEF SystemSpec
=============================================================================
