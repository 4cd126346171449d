------------------------------ MODULE VlmProofs ------------------------------
(***************************************************************************)
(* Proofs about VlmBridge: any number of runs, of any ids, with the chats  *)
(* of all of them, every failure the configuration allows, and files and   *)
(* models of any speed.                                                    *)
(***************************************************************************)
EXTENDS VlmBridge, SearchOrchestratorProofs, SequenceTheorems

VlmItem == Item \cup StartRequest

-----------------------------------------------------------------------------
(* The steps *)

\* A step of the mission of p: nothing in a chat changes.
MissionMove(p) ==
  /\ Writes(p) /\ UNCHANGED vlmVars
  /\ \/ Handle(p)
     \/ AwaitedDone(p) /\ HandlersBy(p) = {}
     \/ Taken("StartMission") /\ Task.by = p /\ Starts(p)

\* An event nobody answers a question with.
Remarks(e) == /\ e.type \in EventTypes \ {"VlmAnalysisCompleted"}
              /\ e.to = Subscribed

\* One of another component.
Passes ==
  /\ UNCHANGED <<orchVars, sessionVars, conversationVars, disk>>
  /\ model_backend' \in Backends
  /\ \/ tasks' = tasks
     \/ tasks # <<>> /\ Task.type \in CommandTypes \ SessionTypes /\ tasks' = Tail(tasks)
     \/ \E o \in Orchs : RequestMission(o)
     \/ \E e \in VlmItem : Remarks(e) /\ tasks' = Publish(tasks, e)

\* What the bridge says in chat m, if anything.
Says(q, m) ==
  /\ UNCHANGED orchVars
  /\ \/ tasks' = q
     \/ \E e \in VlmItem : /\ e.type \in ChatNotice \cup {"VlmAnalysisCompleted"}
                           /\ e.mission = m /\ e.to = Subscribed
                           /\ tasks' = Publish(q, e)

LEMMA VlmCarries == Carries(VlmItem)
<1>1. \A x \in StartRequest : x.type \notin EventTypes
  BY DEF StartRequest, EventTypes, DroneEventTypes, MissionEventTypes, DroneNotice, ChatNotice
<1> QED
  BY <1>1, ItemCarries, CarriesMore DEF VlmItem

\* A command names its mission.
LEMMA CommandBy ==
  ASSUME NEW x \in VlmItem, x.type \in CommandTypes \cup {"StartMission"}
  PROVE  x.by \in Orchs
<1>1. x \notin Event
  BY CommandIsNoEvent
  DEF Event, EventTypes, DroneEventTypes, MissionEventTypes, DroneNotice, ChatNotice
<1>2. x \in Command \cup WakeUp \cup StartRequest
  BY <1>1, ItemIs DEF VlmItem
<1> QED
  BY <1>2 DEF Command, SimpleCommand, MoveCommand, AnalyzeCommand, WakeUp, StartRequest

LEMMA TakenCommand ==
  ASSUME tasks \in Seq(VlmItem), tasks # <<>>,
         Task.type \in CommandTypes \cup {"StartMission"}
  PROVE  /\ Task \in VlmItem /\ Task.by \in Orchs /\ Task = tasks[1] /\ 1 \in 1..Len(tasks)
         /\ Task.type \notin EventTypes
         /\ Tail(tasks) \in Seq(VlmItem)
<1>1. /\ Task \in VlmItem /\ Task = tasks[1] /\ 1 \in 1..Len(tasks)
      /\ Tail(tasks) \in Seq(VlmItem)
  BY DEF Task
<1>2. Task.type \notin EventTypes
  BY CommandIsNoEvent
  DEF EventTypes, DroneEventTypes, MissionEventTypes, DroneNotice, ChatNotice
<1> QED
  BY <1>1, <1>2, CommandBy

LEMMA SessionIsCommand == SessionTypes \subseteq CommandTypes
  BY DEF SessionTypes, CommandTypes, Awaited

LEMMA NewsTyped ==
  ASSUME NEW m \in Missions, NEW type \in ChatNotice
  PROVE  ChatNews(type, m) \in VlmItem
<1>1. Subscribed \subseteq Orchs
  BY DEF Subscribed
<1>2. ChatNews(type, m) \in Event
  BY <1>1 DEF ChatNews, Event
<1> QED
  BY <1>2, ItemIs DEF VlmItem

\* A command about a session says nothing but an error of its chat.
LEMMA SessionSays ==
  ASSUME OrchAssumption, tasks \in Seq(VlmItem), SessionCommand
  PROVE  /\ tasks # <<>> /\ Task.type \in SessionTypes /\ Task.by \in Orchs
         /\ Says(Tail(tasks), Chat)
<1>1. tasks # <<>> /\ Task.type \in SessionTypes
  BY DEF SessionCommand, HandleCreateNewSession, HandleDeleteSession, HandleAnalyzePhoto,
         HandleSaveSession, Taken, SessionTypes
<1>2. Task.by \in Orchs
  BY <1>1, TakenCommand, SessionIsCommand
<1>3. \/ tasks' = Tail(tasks)
      \/ \E type \in ChatNotice : tasks' = Publish(Tail(tasks), ChatNews(type, Chat))
  BY DEF SessionCommand, HandleCreateNewSession, HandleDeleteSession, HandleAnalyzePhoto,
         HandleSaveSession, UseSession, ChatNotice
<1>4. ASSUME NEW type \in ChatNotice
      PROVE  /\ ChatNews(type, Chat) \in VlmItem
             /\ ChatNews(type, Chat).type \in ChatNotice
             /\ ChatNews(type, Chat).mission = Chat
             /\ ChatNews(type, Chat).to = Subscribed
  <2>1. Chat \in Missions
    BY <1>2 DEF Chat, OrchAssumption
  <2> QED
    BY <2>1, NewsTyped DEF ChatNews
<1>5. UNCHANGED orchVars
  BY DEF SessionCommand
<1> QED
  BY <1>1, <1>2, <1>3, <1>4, <1>5 DEF Says

LEMMA HandlerFields ==
  ASSUME NEW h \in Handler
  PROVE  /\ h.kind \in {"analysis", "save"} /\ h.by \in Orchs /\ h.at \in At
         /\ h.conv \in Orchs \cup {Nobody} /\ h.saved \in Seq(Role)
         /\ h.conv = Nobody <=> h.at = "lock"
  BY DEF Handler

LEMMA QueueTyped ==
  ASSUME VlmTypeOK, NEW l \in Orchs
  PROVE  /\ lock_queue[l] \in Seq(Handler)
         /\ lock_queue[l] # <<>> => /\ Holder(l) \in Handler /\ Holder(l) = lock_queue[l][1]
                                    /\ 1 \in 1..Len(lock_queue[l])
<1>1. lock_queue[l] \in Seq(Handler)
  BY DEF VlmTypeOK
<1> QED
  BY <1>1 DEF Holder

\* A handler that holds a lock speaks in its chat.
LEMMA HandlerSays ==
  ASSUME OrchAssumption, VlmTypeOK, tasks \in Seq(VlmItem), NEW l \in Orchs, HandlerStep(l)
  PROVE  /\ lock_queue[l] # <<>> /\ Holder(l) \in Handler /\ Holder(l).by \in Orchs
         /\ Says(tasks, MissionOf[Holder(l).by])
<1>1. lock_queue[l] # <<>>
  BY DEF HandlerStep, EnterLock, PrepareFails, BeginTransaction, CommitTransaction,
         ModelAnswers, ModelFails, WriteHistory, WriteImages, SaveFails, HeldAt
<1>2. Holder(l) \in Handler /\ Holder(l).by \in Orchs
  BY <1>1, QueueTyped, HandlerFields
<1> DEFINE m == MissionOf[Holder(l).by]
<1>3. m \in Missions
  BY <1>2 DEF OrchAssumption
<1>4. UNCHANGED orchVars
  BY DEF HandlerStep
<1>5. Fail(l) => tasks' = Publish(tasks, ErrorOf(Holder(l)))
  BY DEF Fail
<1>6. \/ tasks' = tasks
      \/ tasks' = Publish(tasks, ErrorOf(Holder(l)))
      \/ \E found \in BOOLEAN, move \in Moves :
           tasks' = Publish(tasks, [type |-> "VlmAnalysisCompleted", mission |-> m,
                                    found |-> found, move |-> move, to |-> Subscribed])
  BY <1>5 DEF HandlerStep, EnterLock, PrepareFails, BeginTransaction, CommitTransaction,
              ModelAnswers, ModelFails, WriteHistory, WriteImages, SaveFails
<1>7. ErrorOf(Holder(l)) \in {ChatNews(type, m) : type \in ChatNotice}
  BY DEF ErrorOf, ChatNotice
<1> HIDE DEF m
<1>8. ASSUME NEW type \in ChatNotice
      PROVE  /\ ChatNews(type, m) \in VlmItem /\ ChatNews(type, m).type \in ChatNotice
             /\ ChatNews(type, m).mission = m /\ ChatNews(type, m).to = Subscribed
  BY <1>3, NewsTyped DEF ChatNews
<1>9. ASSUME NEW found \in BOOLEAN, NEW move \in Moves
      PROVE  [type |-> "VlmAnalysisCompleted", mission |-> m, found |-> found,
              move |-> move, to |-> Subscribed] \in VlmItem
  <2>1. Subscribed \subseteq Orchs
    BY DEF Subscribed
  <2>2. [type |-> "VlmAnalysisCompleted", mission |-> m, found |-> found,
         move |-> move, to |-> Subscribed] \in Event
    BY <1>3, <2>1 DEF Event
  <2> QED
    BY <2>2, ItemIs DEF VlmItem
<1>10. \/ tasks' = tasks
       \/ \E e \in VlmItem : /\ e.type \in ChatNotice \cup {"VlmAnalysisCompleted"}
                             /\ e.mission = m /\ e.to = Subscribed
                             /\ tasks' = Publish(tasks, e)
  <2>1. CASE tasks' = Publish(tasks, ErrorOf(Holder(l)))
    BY <1>7, <1>8, <2>1
  <2>2. CASE \E found \in BOOLEAN, move \in Moves :
               tasks' = Publish(tasks, [type |-> "VlmAnalysisCompleted", mission |-> m,
                                        found |-> found, move |-> move, to |-> Subscribed])
    <3>1. PICK found \in BOOLEAN, move \in Moves :
            tasks' = Publish(tasks, [type |-> "VlmAnalysisCompleted", mission |-> m,
                                     found |-> found, move |-> move, to |-> Subscribed])
      BY <2>2
    <3> DEFINE e == [type |-> "VlmAnalysisCompleted", mission |-> m, found |-> found,
                     move |-> move, to |-> Subscribed]
    <3>2. /\ e \in VlmItem /\ e.type = "VlmAnalysisCompleted" /\ e.mission = m
          /\ e.to = Subscribed /\ tasks' = Publish(tasks, e)
      BY <1>9, <3>1
    <3> HIDE DEF e
    <3> QED
      BY <3>2
  <2> QED
    BY <1>6, <2>1, <2>2 DEF m
<1>11. Says(tasks, m)
  BY <1>4, <1>10 DEF Says
<1> QED
  BY <1>1, <1>2, <1>11 DEF m

\* What the missions see of it.
LEMMA SaysServes ==
  ASSUME tasks \in Seq(VlmItem), NEW q, NEW m, Says(q, m),
         \/ q = tasks
         \/ tasks # <<>> /\ Task.type \notin EventTypes /\ q = Tail(tasks)
  PROVE  Serves(VlmItem)
<1>1. CASE tasks' = q
  BY <1>1, TakenServes DEF Says
<1>2. CASE \E e \in VlmItem : /\ e.type \in ChatNotice \cup {"VlmAnalysisCompleted"}
                              /\ e.mission = m /\ e.to = Subscribed
                              /\ tasks' = Publish(q, e)
  <2>1. PICK e \in VlmItem : /\ e.type \in ChatNotice \cup {"VlmAnalysisCompleted"}
                             /\ e.to = Subscribed /\ tasks' = Publish(q, e)
    BY <1>2
  <2>2. IsNews(e)
    BY <2>1, CommandIsNoEvent DEF IsNews, EventTypes, MissionEventTypes
  <2> QED
    BY <2>1, <2>2, PublishServes DEF Says
<1> QED
  BY <1>1, <1>2 DEF Says

LEMMA PassesServes ==
  ASSUME tasks \in Seq(VlmItem), Passes
  PROVE  Serves(VlmItem)
<1>1. UNCHANGED orchVars
  BY DEF Passes
<1>2. CASE \/ tasks' = tasks
           \/ tasks # <<>> /\ Task.type \in CommandTypes \ SessionTypes /\ tasks' = Tail(tasks)
  BY <1>1, <1>2, CommandIsNoEvent, TakenServes
<1>3. CASE \E o \in Orchs : RequestMission(o)
  <2>1. PICK o \in Orchs, g \in Glimpses, ok \in PromptOk :
          tasks' = Append(tasks, [type |-> "StartMission", by |-> o, glimpses |-> g,
                                  prompt_ok |-> ok])
    BY <1>3 DEF RequestMission, RequestStart
  <2> DEFINE x == [type |-> "StartMission", by |-> o, glimpses |-> g, prompt_ok |-> ok]
  <2>2. x \in VlmItem
    BY DEF VlmItem, StartRequest
  <2>3. x.type \notin CommandTypes /\ x.type \notin EventTypes
    BY DEF CommandTypes, Awaited, EventTypes, DroneEventTypes, MissionEventTypes, DroneNotice,
           ChatNotice
  <2>4. IsNews(x)
    BY <2>3 DEF IsNews
  <2>5. tasks' = Append(tasks, x)
    BY <2>1
  <2> HIDE DEF x
  <2> QED
    BY <1>1, <2>2, <2>4, <2>5, AppendServes
<1>4. CASE \E e \in VlmItem : Remarks(e) /\ tasks' = Publish(tasks, e)
  <2>1. PICK e \in VlmItem : Remarks(e) /\ tasks' = Publish(tasks, e)
    BY <1>4
  <2>2. IsNews(e)
    BY <2>1, CommandIsNoEvent DEF IsNews, Remarks
  <2> QED
    BY <1>1, <2>1, <2>2, PublishServes
<1> QED
  BY <1>2, <1>3, <1>4 DEF Passes

LEMMA EnvironmentPasses ==
  ASSUME VlmTypeOK, Environment
  PROVE  Passes
<1>1. PICK o \in Subscribed : Speaks(o)
  BY DEF Environment
<1>2. UNCHANGED vlmVars
  BY DEF Environment
<1>3. \/ OperatorSpeaks \/ DroneSpeaks
      \/ Announce([type |-> "DroneErrorOccurred", drone |-> DroneOf[o], to |-> Subscribed])
  BY <1>1 DEF Speaks, DroneAnswers
<1>4. ASSUME NEW e \in Event, e.to = Subscribed, e.type # "VlmAnalysisCompleted", Announce(e)
      PROVE  Passes
  <2>1. e \in VlmItem /\ e.type \in EventTypes
    BY ItemIs
    DEF VlmItem, Event, EventTypes, DroneEventTypes, MissionEventTypes
  <2>2. Remarks(e) /\ tasks' = Publish(tasks, e) /\ UNCHANGED orchVars
    BY <1>4, <2>1 DEF Remarks, Announce
  <2> QED
    BY <1>2, <2>1, <2>2
    DEF Passes, vlmVars, VlmTypeOK
<1>5. CASE OperatorSpeaks \/ DroneSpeaks
  BY <1>4, <1>5, DroneSpoken, OperatorSpoken DEF DroneEventTypes, DroneNotice
<1>6. CASE Announce([type |-> "DroneErrorOccurred", drone |-> DroneOf[o], to |-> Subscribed])
  <2> DEFINE e == [type |-> "DroneErrorOccurred", drone |-> DroneOf[o], to |-> Subscribed]
  <2>1. o \in Orchs /\ Subscribed \subseteq Orchs
    BY DEF Subscribed
  <2>2. e \in Event /\ e.to = Subscribed /\ e.type # "VlmAnalysisCompleted"
    BY <2>1, OrchAssumption DEF Event, OrchAssumption, DroneNotice
  <2>3. Announce(e)
    BY <1>6
  <2> HIDE DEF e
  <2> QED
    BY <1>4, <2>2, <2>3
<1> QED
  BY <1>3, <1>5, <1>6

\* Every step is one of these.
LEMMA VlmSteps ==
  ASSUME tasks \in Seq(VlmItem), VlmTypeOK, [VlmNext]_allVars
  PROVE  \/ \E p \in Orchs : MissionMove(p)
         \/ Passes
         \/ SessionCommand
         \/ \E l \in Orchs : HandlerStep(l)
<1> USE DEF vlmVars, sessionVars, conversationVars
<1>1. CASE UNCHANGED allVars
  BY <1>1 DEF allVars, managerVars, vars, Passes, VlmTypeOK
<1>2. CASE MissionStep
  <2>1. CASE HandleStartMission
    <3>1. tasks # <<>> /\ Task.type = "StartMission"
      BY <2>1 DEF HandleStartMission
    <3>2. Task.by \in Orchs /\ Task.type \notin CommandTypes \cup EventTypes
      BY <3>1, TakenCommand DEF CommandTypes, Awaited
    <3>3. Task.glimpses \in Glimpses /\ Task.prompt_ok \in BOOLEAN
      <4>1. Task \in VlmItem
        BY <3>1, TakenCommand
      <4>2. Task \in StartRequest
        BY <3>1, <4>1, ItemIs
        DEF VlmItem, Event, Command, SimpleCommand, MoveCommand, AnalyzeCommand, WakeUp,
            DroneNotice, ChatNotice, Awaited
      <4> QED
        BY <4>2, ManagerAssumption DEF StartRequest, ManagerAssumption
    <3>4. Starts(Task.by)
      BY <2>1, <3>1, <3>2, <3>3 DEF HandleStartMission, Starts
    <3> QED
      BY <1>2, <2>1, <3>1, <3>2, <3>4 DEF MissionMove, Writes, Taken, MissionStep
  <2>2. CASE HandleMissionEnded
    <3>1. /\ tasks # <<>> /\ Task.type = "SearchEnded" /\ tasks' = Tail(tasks)
          /\ UNCHANGED orchVars /\ UNCHANGED vlmVars
      BY <1>2, <2>2 DEF HandleMissionEnded, MissionStep
    <3>2. "SearchEnded" \in CommandTypes \ SessionTypes
      BY DEF CommandTypes, SessionTypes
    <3> QED
      BY <3>1, <3>2 DEF Passes, VlmTypeOK
  <2>3. CASE \E o \in Orchs : Handle(o) \/ (AwaitedDone(o) /\ HandlersBy(o) = {})
    BY <1>2, <2>3 DEF MissionMove, Writes, MissionStep
  <2>4. CASE TakeCommand /\ Task.type \notin SessionTypes \cup {"SearchEnded"}
    BY <1>2, <2>4 DEF Passes, TakeCommand, MissionStep, VlmTypeOK
  <2> QED
    BY <1>2, <2>1, <2>2, <2>3, <2>4 DEF MissionStep
<1>3. CASE \E o \in Orchs : RequestMission(o)
  BY <1>3 DEF Passes, RequestMission, RequestStart, VlmTypeOK
<1>4. CASE ChangeModel
  BY <1>4 DEF Passes, ChangeModel, HandleChangeVlmModel
<1>5. CASE Environment
  BY <1>5, EnvironmentPasses
<1> QED
  BY <1>1, <1>2, <1>3, <1>4, <1>5 DEF VlmNext

\* The missions keep their invariant.
LEMMA VlmServes ==
  ASSUME tasks \in Seq(VlmItem), VlmTypeOK, [VlmNext]_allVars
  PROVE  MissionNext(VlmItem)
<1>1. CASE \E p \in Orchs : MissionMove(p)
  BY <1>1 DEF MissionMove, MissionNext
<1>2. CASE Passes
  BY <1>2, PassesServes DEF MissionNext
<1>3. CASE SessionCommand
  <2>1. tasks # <<>> /\ Task.type \notin EventTypes /\ Says(Tail(tasks), Chat)
    BY <1>3, OrchAssumption, SessionSays, SessionIsCommand, CommandIsNoEvent
  <2> QED
    BY <2>1, SaysServes DEF MissionNext
<1>4. CASE \E l \in Orchs : HandlerStep(l)
  <2>1. PICK l \in Orchs : HandlerStep(l)
    BY <1>4
  <2>2. Says(tasks, MissionOf[Holder(l).by])
    BY <2>1, OrchAssumption, HandlerSays
  <2> QED
    BY <2>2, SaysServes DEF MissionNext
<1> QED
  BY <1>1, <1>2, <1>3, <1>4, VlmSteps

-----------------------------------------------------------------------------
(* The queue of a lock *)

\* The others keep theirs.
OthersWait(l) == /\ lock_queue' \in [Orchs -> Seq(Handler)]
                 /\ \A k \in Orchs \ {l} : lock_queue'[k] = lock_queue[k]

LEMMA ContinueQueue ==
  ASSUME VlmTypeOK, NEW l \in Orchs, lock_queue[l] # <<>>, NEW h \in Handler, Continue(l, h)
  PROVE  /\ OthersWait(l)
         /\ Len(lock_queue'[l]) = Len(lock_queue[l]) /\ lock_queue'[l] # <<>>
         /\ lock_queue'[l][1] = h /\ Head(lock_queue'[l]) = h
         /\ \A i \in 2..Len(lock_queue[l]) : lock_queue'[l][i] = lock_queue[l][i]
<1> DEFINE q == lock_queue[l]
           r == [q EXCEPT ![1] = h]
<1>1. q \in Seq(Handler) /\ 1 \in 1..Len(q)
  BY QueueTyped
<1>2. lock_queue' = [lock_queue EXCEPT ![l] = r]
  BY DEF Continue
<1> HIDE DEF q
<1>3. r \in Seq(Handler) /\ Len(r) = Len(q) /\ \A i \in 1..Len(q) : r[i] = IF i = 1 THEN h ELSE q[i]
  BY <1>1, ExceptSeq
<1> HIDE DEF r
<1>4. r # <<>> /\ r[1] = h /\ Head(r) = h /\ \A i \in 2..Len(q) : r[i] = q[i]
  BY <1>1, <1>3
<1>5. lock_queue'[l] = r /\ OthersWait(l)
  BY <1>2, <1>3 DEF VlmTypeOK, OthersWait
<1> QED
  BY <1>3, <1>4, <1>5 DEF q

LEMMA ReleaseQueue ==
  ASSUME VlmTypeOK, NEW l \in Orchs, lock_queue[l] # <<>>, Release(l)
  PROVE  /\ OthersWait(l)
         /\ Len(lock_queue'[l]) + 1 = Len(lock_queue[l]) /\ Len(lock_queue'[l]) \in Nat
         /\ \A i \in 1..Len(lock_queue'[l]) : /\ i + 1 \in 2..Len(lock_queue[l])
                                              /\ lock_queue'[l][i] = lock_queue[l][i + 1]
<1> DEFINE q == lock_queue[l]
           r == Tail(q)
<1>1. q \in Seq(Handler) /\ q # <<>>
  BY QueueTyped
<1>2. lock_queue' = [lock_queue EXCEPT ![l] = r]
  BY DEF Release
<1> HIDE DEF q
<1>3. /\ r \in Seq(Handler) /\ Len(r) + 1 = Len(q) /\ Len(r) \in Nat
      /\ \A i \in 1..Len(r) : i + 1 \in 2..Len(q) /\ r[i] = q[i + 1]
  BY <1>1
<1> HIDE DEF r
<1>4. lock_queue'[l] = r /\ OthersWait(l)
  BY <1>2, <1>3 DEF VlmTypeOK, OthersWait
<1> QED
  BY <1>3, <1>4 DEF q

LEMMA JoinQueue ==
  ASSUME VlmTypeOK, NEW l \in Orchs, NEW h \in Handler,
         lock_queue' = [lock_queue EXCEPT ![l] = Append(@, h)]
  PROVE  /\ OthersWait(l)
         /\ Len(lock_queue'[l]) = Len(lock_queue[l]) + 1 /\ Len(lock_queue[l]) \in Nat
         /\ lock_queue'[l][Len(lock_queue'[l])] = h
         /\ \A i \in 1..Len(lock_queue[l]) : lock_queue'[l][i] = lock_queue[l][i]
<1> DEFINE q == lock_queue[l]
           r == Append(q, h)
<1>1. q \in Seq(Handler)
  BY QueueTyped
<1>2. lock_queue' = [lock_queue EXCEPT ![l] = r]
  OBVIOUS
<1> HIDE DEF q
<1>3. /\ r \in Seq(Handler) /\ Len(r) = Len(q) + 1 /\ Len(q) \in Nat /\ r[Len(r)] = h
      /\ \A i \in 1..Len(q) : r[i] = q[i]
  BY <1>1
<1> HIDE DEF r
<1>4. lock_queue'[l] = r /\ OthersWait(l)
  BY <1>2, <1>3 DEF VlmTypeOK, OthersWait
<1> QED
  BY <1>3, <1>4 DEF q

\* A handler after its next step, field by field.
LEMMA EnteredTyped ==
  ASSUME VlmTypeOK, NEW h \in Handler, NEW conv \in Orchs
  PROVE  /\ Entered(h, conv) \in Handler
         /\ Entered(h, conv).kind = h.kind /\ Entered(h, conv).by = h.by
         /\ Entered(h, conv).conv = conv
         /\ h.kind = "analysis" => Entered(h, conv).at = "prepare"
         /\ h.kind = "save" => /\ Entered(h, conv).at = "history"
                               /\ Entered(h, conv).saved = history[conv]
<1>1. history[conv] \in Seq(Role) /\ <<>> \in Seq(Role)
  BY DEF VlmTypeOK
<1> QED
  BY <1>1, VlmAssumption DEF Entered, Handler, At, VlmAssumption

LEMMA MovedTyped ==
  ASSUME NEW h \in Handler, h.at # "lock", NEW at \in At \ {"lock"}
  PROVE  /\ [h EXCEPT !.at = at] \in Handler
         /\ [h EXCEPT !.at = at].kind = h.kind /\ [h EXCEPT !.at = at].by = h.by
         /\ [h EXCEPT !.at = at].conv = h.conv /\ [h EXCEPT !.at = at].saved = h.saved
         /\ [h EXCEPT !.at = at].at = at
  BY DEF Handler

LEMMA NewTyped ==
  ASSUME Task.by \in Orchs, NEW kind \in {"analysis", "save"}
  PROVE  /\ NewHandler(kind) \in Handler /\ NewHandler(kind).at = "lock"
         /\ NewHandler(kind).by = Task.by /\ NewHandler(kind).kind = kind
         /\ NewHandler(kind).conv = Nobody
  BY DEF NewHandler, Handler, At

LEMMA PhotosCounted ==
  ASSUME NEW messages \in Seq(Role)
  PROVE  PhotosIn(messages) \in Nat
<1>1. Len(messages) \in Nat
  OBVIOUS
<1>2. IsFiniteSet(2..Len(messages))
  BY <1>1, FS_Interval
<1>3. {i \in 2..Len(messages) : messages[i] = "user"} \in SUBSET (2..Len(messages))
  OBVIOUS
<1>4. IsFiniteSet({i \in 2..Len(messages) : messages[i] = "user"})
  BY <1>2, <1>3, FS_Subset
<1> QED
  BY <1>4, FS_CardinalityType DEF PhotosIn

-----------------------------------------------------------------------------
(* The steps of a handler *)

Enters(l, conv) ==
  /\ Holder(l).at = "lock" /\ conversations[MissionOf[Holder(l).by]] = conv
  /\ Continue(l, Entered(Holder(l), conv))
  /\ UNCHANGED <<tasks, history, transaction, disk>>

\* An exception ends the handler.
Breaks(l) ==
  /\ Fail(l)
  /\ UNCHANGED <<history, disk>>
  /\ \/ UNCHANGED transaction
     \/ /\ Holder(l).at \in {"prepare", "send"}
        /\ transaction' = [transaction EXCEPT ![Holder(l).conv] = "none"]
  /\ Holder(l).at = "lock" => conversations[MissionOf[Holder(l).by]] = Nobody
  /\ Holder(l).at = "image" => transaction[Holder(l).conv] = "none"

Encodes(l) ==
  /\ Holder(l).at = "prepare" /\ transaction[Holder(l).conv] = "none"
  /\ transaction' = [transaction EXCEPT ![Holder(l).conv] = "user"]
  /\ Continue(l, [Holder(l) EXCEPT !.at = "image"])
  /\ UNCHANGED <<tasks, history, disk>>

Asks(l) ==
  /\ Holder(l).at \in {"prepare", "image"}
  /\ CommitAndSend(l, Holder(l).conv)
  /\ UNCHANGED <<tasks, disk>>

LEMMA HandlerSteps ==
  ASSUME VlmTypeOK, NEW l \in Orchs, HandlerStep(l)
  PROVE  /\ UNCHANGED <<conversations, chat_locks, backend, model_backend, orchVars>>
         /\ lock_queue[l] # <<>>
         /\ \/ \E conv \in Orchs : Enters(l, conv)
            \/ Breaks(l) \/ Encodes(l) \/ Asks(l)
            \/ ModelAnswers(l) \/ WriteHistory(l) \/ WriteImages(l)
<1> USE DEF HeldAt, conversationVars
<1>1. UNCHANGED orchVars
  BY DEF HandlerStep
<1>2. CASE EnterLock(l)
  <2> DEFINE conv == conversations[MissionOf[Holder(l).by]]
  <2>1. /\ lock_queue[l] # <<>> /\ Holder(l).at = "lock"
        /\ UNCHANGED <<conversations, chat_locks, conversationVars, model_backend, disk>>
        /\ \/ conv = Nobody /\ Fail(l)
           \/ conv # Nobody /\ Continue(l, Entered(Holder(l), conv)) /\ UNCHANGED tasks
    BY <1>2 DEF EnterLock
  <2>2. conv \in Orchs \cup {Nobody}
    <3>1. Holder(l).by \in Orchs
      BY <2>1, QueueTyped, HandlerFields
    <3>2. MissionOf[Holder(l).by] \in Missions
      BY <3>1, OrchAssumption DEF OrchAssumption
    <3> QED
      BY <3>2 DEF VlmTypeOK
  <2>3. CASE conv = Nobody /\ Fail(l)
    BY <1>1, <2>1, <2>3 DEF Breaks
  <2>4. CASE conv # Nobody /\ Continue(l, Entered(Holder(l), conv)) /\ UNCHANGED tasks
    <3>1. Enters(l, conv) /\ conv \in Orchs
      BY <2>1, <2>2, <2>4 DEF Enters
    <3> QED
      BY <1>1, <2>1, <3>1
  <2> QED
    BY <2>1, <2>3, <2>4
<1>3. CASE BeginTransaction(l)
  <2> DEFINE conv == Holder(l).conv
  <2>1. /\ lock_queue[l] # <<>> /\ Holder(l).at = "prepare"
        /\ UNCHANGED <<conversations, chat_locks, backend, model_backend, disk>>
        /\ \/ /\ transaction' = [transaction EXCEPT ![conv] = "none"]
              /\ Fail(l) /\ UNCHANGED history
           \/ /\ transaction[conv] = "none"
              /\ transaction' = [transaction EXCEPT ![conv] = "user"]
              /\ Continue(l, [Holder(l) EXCEPT !.at = "image"])
              /\ UNCHANGED <<tasks, history>>
           \/ CommitAndSend(l, conv) /\ UNCHANGED tasks
    BY <1>3 DEF BeginTransaction
  <2> QED
    BY <1>1, <2>1 DEF Breaks, Encodes, Asks
<1>4. CASE PrepareFails(l)
  BY <1>1, <1>4 DEF PrepareFails, Breaks
<1>5. CASE CommitTransaction(l)
  BY <1>1, <1>5 DEF CommitTransaction, Breaks, Asks
<1>6. CASE ModelAnswers(l)
  BY <1>1, <1>6 DEF ModelAnswers
<1>7. CASE ModelFails(l)
  BY <1>1, <1>7 DEF ModelFails, Breaks
<1>8. CASE WriteHistory(l)
  BY <1>1, <1>8 DEF WriteHistory
<1>9. CASE WriteImages(l)
  BY <1>1, <1>9 DEF WriteImages
<1>10. CASE SaveFails(l)
  BY <1>1, <1>10 DEF SaveFails, Breaks
<1> QED
  BY <1>2, <1>3, <1>4, <1>5, <1>6, <1>7, <1>8, <1>9, <1>10 DEF HandlerStep

\* What it does to the queue of its lock.
LEMMA HandlerQueue ==
  ASSUME VlmTypeOK, NEW l \in Orchs, HandlerStep(l)
  PROVE  \/ /\ \E conv \in Orchs : Enters(l, conv)
            /\ Holder(l).at = "lock"
            /\ \E h \in Handler : /\ Continue(l, h) /\ h.by = Holder(l).by
                                  /\ h.kind = Holder(l).kind /\ h.at # "lock"
         \/ /\ Encodes(l) \/ Asks(l) \/ WriteHistory(l)
            /\ Holder(l).at \in {"prepare", "image", "history"}
            /\ \E h \in Handler : /\ Continue(l, h) /\ h.by = Holder(l).by
                                  /\ h.kind = Holder(l).kind /\ h.at # "lock"
                                  /\ h.conv = Holder(l).conv
         \/ Release(l) /\ (Breaks(l) \/ ModelAnswers(l) \/ WriteImages(l))
<1>1. Holder(l) \in Handler /\ lock_queue[l] # <<>>
  BY HandlerSteps, QueueTyped
<1>2. ASSUME NEW conv \in Orchs, Enters(l, conv)
      PROVE  \E h \in Handler : /\ Continue(l, h) /\ h.by = Holder(l).by
                                /\ h.kind = Holder(l).kind /\ h.at # "lock"
  <2>1. Entered(Holder(l), conv) \in Handler
    BY <1>1, EnteredTyped
  <2>2. Entered(Holder(l), conv).at # "lock"
    BY <1>1, EnteredTyped, HandlerFields
  <2> QED
    BY <1>1, <1>2, <2>1, <2>2, EnteredTyped DEF Enters
<1>3. ASSUME NEW at \in At \ {"lock"}, Holder(l).at # "lock",
             Continue(l, [Holder(l) EXCEPT !.at = at])
      PROVE  \E h \in Handler : /\ Continue(l, h) /\ h.by = Holder(l).by
                                /\ h.kind = Holder(l).kind /\ h.at # "lock"
                                /\ h.conv = Holder(l).conv
  <2> DEFINE g == Holder(l)
             x == [g EXCEPT !.at = at]
  <2>1. g \in Handler /\ g.at # "lock" /\ Continue(l, x)
    BY <1>1, <1>3
  <2> HIDE DEF g
  <2>2. /\ x \in Handler /\ x.by = g.by /\ x.kind = g.kind /\ x.conv = g.conv
        /\ x.at # "lock"
    BY <2>1, MovedTyped
  <2> HIDE DEF x
  <2> QED
    BY <2>1, <2>2 DEF g
<1>4. CASE Encodes(l) \/ Asks(l) \/ WriteHistory(l)
  <2>1. PICK at \in {"image", "send", "images"} :
          /\ Continue(l, [Holder(l) EXCEPT !.at = at])
          /\ Holder(l).at \in {"prepare", "image", "history"}
    BY <1>4 DEF Encodes, Asks, WriteHistory, CommitAndSend, HeldAt
  <2> QED
    BY <1>3, <1>4, <2>1 DEF At
<1>5. CASE Breaks(l) \/ ModelAnswers(l) \/ WriteImages(l)
  BY <1>5 DEF Breaks, Fail, ModelAnswers, WriteImages
<1> QED
  BY <1>2, <1>4, <1>5, HandlerSteps DEF Enters

-----------------------------------------------------------------------------
(* Types *)

\* Chats are there with their lock.
Paired == conversations = chat_locks

\* A command joins the queue of the lock of its chat, or finds no chat.
LEMMA SessionUsed ==
  ASSUME VlmTypeOK, Paired, tasks \in Seq(VlmItem), NEW kind \in {"analysis", "save"},
         NEW error \in ChatNotice,
         tasks # <<>>, Task.type \in SessionTypes, UseSession(NewHandler(kind), error)
  PROVE  /\ Task.by \in Orchs /\ Chat \in Missions
         /\ UNCHANGED <<conversations, chat_locks, conversationVars, model_backend, disk>>
         /\ \/ /\ conversations[Chat] = Nobody /\ UNCHANGED lock_queue
               /\ tasks' = Publish(Tail(tasks), ChatNews(error, Chat))
            \/ /\ conversations[Chat] \in Orchs /\ tasks' = Tail(tasks)
               /\ \E h \in Handler :
                    /\ h.by = Task.by /\ h.kind = kind
                    /\ \/ h.at = "lock"
                       \/ /\ lock_queue[conversations[Chat]] = <<>>
                          /\ h = Entered(NewHandler(kind), conversations[Chat])
                    /\ lock_queue' =
                         [lock_queue EXCEPT ![conversations[Chat]] = Append(@, h)]
<1>1. Task.by \in Orchs
  BY TakenCommand, SessionIsCommand
<1>2. Chat \in Missions
  BY <1>1, OrchAssumption DEF Chat, OrchAssumption
<1>3. conversations[Chat] \in Orchs \cup {Nobody} /\ chat_locks[Chat] = conversations[Chat]
  BY <1>2 DEF VlmTypeOK, Paired
<1>4. UNCHANGED <<conversations, chat_locks, conversationVars, model_backend, disk>>
  BY DEF UseSession
<1>5. CASE conversations[Chat] = Nobody
  BY <1>1, <1>2, <1>4, <1>5 DEF UseSession
<1>6. CASE conversations[Chat] # Nobody
  <2> DEFINE c == conversations[Chat]
             n == NewHandler(kind)
             h == IF lock_queue[c] = <<>> THEN Entered(n, c) ELSE n
  <2>1. c \in Orchs
    BY <1>3, <1>6
  <2>2. lock_queue' = [lock_queue EXCEPT ![c] = Append(@, h)] /\ tasks' = Tail(tasks)
    BY <1>3, <1>6 DEF UseSession
  <2>3. n \in Handler /\ n.by = Task.by /\ n.kind = kind /\ n.at = "lock"
    BY <1>1, NewTyped
  <2>4. Entered(n, c) \in Handler /\ Entered(n, c).by = Task.by /\ Entered(n, c).kind = kind
    <3> HIDE DEF c, n
    <3> QED
      BY <2>1, <2>3, EnteredTyped
  <2>5. /\ h \in Handler /\ h.by = Task.by /\ h.kind = kind
        /\ h.at = "lock" \/ (lock_queue[c] = <<>> /\ h = Entered(n, c))
    <3> HIDE DEF c, n
    <3> QED
      BY <2>3, <2>4
  <2> HIDE DEF h
  <2> QED
    BY <1>1, <1>2, <1>4, <2>1, <2>2, <2>5
<1> QED
  BY <1>5, <1>6

LEMMA HandlerStepTyped ==
  ASSUME VlmTypeOK, NEW l \in Orchs, HandlerStep(l)
  PROVE  VlmTypeOK'
<1> DEFINE conv == Holder(l).conv
           m == MissionOf[Holder(l).by]
<1>1. /\ UNCHANGED <<conversations, chat_locks, backend, model_backend>>
      /\ lock_queue[l] # <<>> /\ Holder(l) \in Handler
  BY HandlerSteps, QueueTyped
<1>2. /\ Holder(l).saved \in Seq(Role) /\ m \in Missions
      /\ Holder(l).at # "lock" => conv \in Orchs
  BY <1>1, HandlerFields, OrchAssumption DEF OrchAssumption
<1> HIDE DEF m, conv
<1>3. lock_queue' \in [Orchs -> Seq(Handler)]
  <2>1. ASSUME NEW h \in Handler, Continue(l, h)
        PROVE  lock_queue' \in [Orchs -> Seq(Handler)]
    BY <1>1, <2>1, ContinueQueue DEF OthersWait
  <2>2. Release(l) => lock_queue' \in [Orchs -> Seq(Handler)]
    BY <1>1, ReleaseQueue DEF OthersWait
  <2> QED
    BY <2>1, <2>2, HandlerQueue
<1>4. ASSUME NEW c \in Orchs, NEW role \in Role
      PROVE  [history EXCEPT ![c] = Append(@, role)] \in [Orchs -> Seq(Role)]
  BY DEF VlmTypeOK
<1>5. ASSUME NEW c \in Orchs, NEW t \in {"none", "user"}
      PROVE  [transaction EXCEPT ![c] = t] \in [Orchs -> {"none", "user"}]
  BY DEF VlmTypeOK
<1>6. history \in [Orchs -> Seq(Role)] /\ transaction \in [Orchs -> {"none", "user"}]
  BY DEF VlmTypeOK
<1>7. history' \in [Orchs -> Seq(Role)] /\ transaction' \in [Orchs -> {"none", "user"}]
  <2>1. CASE \E c \in Orchs : Enters(l, c)
    BY <1>6, <2>1 DEF Enters
  <2>2. CASE Breaks(l)
    BY <1>2, <1>5, <1>6, <2>2 DEF Breaks, conv
  <2>3. CASE Encodes(l)
    BY <1>2, <1>5, <1>6, <2>3 DEF Encodes, conv
  <2>4. CASE Asks(l)
    BY <1>2, <1>4, <1>5, <2>4 DEF Asks, CommitAndSend, conv, Role
  <2>5. CASE ModelAnswers(l)
    BY <1>2, <1>4, <1>6, <2>5 DEF ModelAnswers, HeldAt, conv, Role
  <2>6. CASE WriteHistory(l) \/ WriteImages(l)
    BY <1>6, <2>6 DEF WriteHistory, WriteImages, conversationVars
  <2> QED
    BY <2>1, <2>2, <2>3, <2>4, <2>5, <2>6, HandlerSteps
<1>8. disk' \in [Missions -> [messages : Seq(Role), images : Nat]]
  <2>1. disk \in [Missions -> [messages : Seq(Role), images : Nat]]
    BY DEF VlmTypeOK
  <2>2. CASE UNCHANGED disk
    BY <2>1, <2>2
  <2>3. CASE WriteHistory(l)
    BY <1>2, <2>1, <2>3 DEF WriteHistory, m
  <2>4. CASE WriteImages(l)
    <3>1. PhotosIn(Holder(l).saved) \in Nat
      BY <1>2, PhotosCounted
    <3> QED
      BY <1>2, <2>1, <2>4, <3>1 DEF WriteImages, m
  <2> QED
    BY <2>2, <2>3, <2>4, HandlerSteps DEF Enters, Breaks, Encodes, Asks, ModelAnswers
<1> QED
  BY <1>1, <1>3, <1>7, <1>8 DEF VlmTypeOK

LEMMA SessionTyped ==
  ASSUME VlmTypeOK, Paired, tasks \in Seq(VlmItem), SessionCommand
  PROVE  VlmTypeOK' /\ Paired'
<1>1. tasks # <<>> /\ Task.type \in SessionTypes /\ Task.by \in Orchs
  BY OrchAssumption, SessionSays
<1>2. Chat \in Missions
  BY <1>1, OrchAssumption DEF Chat, OrchAssumption
<1> USE DEF conversationVars
<1>3. CASE HandleCreateNewSession
  <2>1. /\ UNCHANGED <<lock_queue, transaction, model_backend, disk>>
        /\ \/ UNCHANGED <<conversations, chat_locks, history, backend>>
           \/ /\ conversations' = [conversations EXCEPT ![Chat] = Task.by]
              /\ chat_locks' = [chat_locks EXCEPT ![Chat] = Task.by]
              /\ history' = [history EXCEPT ![Task.by] = <<"user">>]
              /\ backend' = [backend EXCEPT ![Task.by] = model_backend]
    BY <1>3 DEF HandleCreateNewSession
  <2>2. <<"user">> \in Seq(Role)
    BY DEF Role
  <2> QED
    BY <1>1, <1>2, <2>1, <2>2 DEF VlmTypeOK, Paired
<1>4. CASE HandleDeleteSession
  BY <1>2, <1>4 DEF HandleDeleteSession, VlmTypeOK, Paired
<1>5. ASSUME NEW kind \in {"analysis", "save"}, NEW error \in ChatNotice,
             UseSession(NewHandler(kind), error)
      PROVE  VlmTypeOK' /\ Paired'
  <2>1. UNCHANGED <<conversations, chat_locks, conversationVars, model_backend, disk>>
    BY <1>1, <1>5, SessionUsed
  <2>2. lock_queue' \in [Orchs -> Seq(Handler)]
    <3>1. CASE UNCHANGED lock_queue
      BY <3>1 DEF VlmTypeOK
    <3>2. CASE ~UNCHANGED lock_queue
      <4>1. PICK c \in Orchs, h \in Handler :
              lock_queue' = [lock_queue EXCEPT ![c] = Append(@, h)]
        BY <1>1, <1>5, <3>2, SessionUsed
      <4> QED
        BY <4>1, JoinQueue DEF OthersWait
    <3> QED
      BY <3>1, <3>2
  <2> QED
    BY <2>1, <2>2 DEF VlmTypeOK, Paired
<1>6. CASE HandleAnalyzePhoto \/ HandleSaveSession
  BY <1>5, <1>6 DEF HandleAnalyzePhoto, HandleSaveSession, ChatNotice
<1> QED
  BY <1>3, <1>4, <1>6 DEF SessionCommand

LEMMA VlmTyped ==
  ASSUME VlmTypeOK, Paired, tasks \in Seq(VlmItem), [VlmNext]_allVars
  PROVE  VlmTypeOK' /\ Paired'
<1>1. CASE \E p \in Orchs : MissionMove(p)
  BY <1>1 DEF MissionMove, VlmTypeOK, Paired, vlmVars, sessionVars, conversationVars
<1>2. CASE Passes
  BY <1>2 DEF Passes, VlmTypeOK, Paired, sessionVars, conversationVars
<1>3. CASE SessionCommand
  BY <1>3, SessionTyped
<1>4. CASE \E l \in Orchs : HandlerStep(l)
  BY <1>4, HandlerStepTyped, HandlerSteps DEF Paired
<1> QED
  BY <1>1, <1>2, <1>3, <1>4, VlmSteps

-----------------------------------------------------------------------------
(* The queue after a step that is not of a mission *)

\* All items are there but the first s; those of a type in K are no others.
Shifts(s, K) ==
  /\ s \in {0, 1}
  /\ \A i \in 1..Len(tasks') :
       tasks'[i].type \in K => i + s \in 1..Len(tasks) /\ tasks'[i] = tasks[i + s]
  /\ \A i \in (1 + s)..Len(tasks) : i - s \in 1..Len(tasks') /\ tasks'[i - s] = tasks[i]

Requests == CommandTypes \cup {"StartMission"}

LEMMA RequestIsNoEvent == Requests \cap EventTypes = {}
  BY CommandIsNoEvent
  DEF Requests, EventTypes, DroneEventTypes, MissionEventTypes, DroneNotice, ChatNotice

LEMMA ServedShifts ==
  ASSUME tasks \in Seq(VlmItem), NEW q \in Seq(VlmItem), NEW news \in Seq(VlmItem),
         tasks' = q \o news, NEW K, \A i \in 1..Len(news) : news[i].type \notin K,
         NEW s \in {0, 1},
         \/ s = 0 /\ q = tasks
         \/ s = 1 /\ tasks # <<>> /\ q = Tail(tasks)
  PROVE  Shifts(s, K)
<1>1. /\ Len(q) + s = Len(tasks) /\ Len(q) \in Nat /\ Len(tasks) \in Nat
      /\ \A i \in 1..Len(q) : q[i] = tasks[i + s]
  OBVIOUS
<1>2. /\ Len(tasks') = Len(q) + Len(news) /\ Len(news) \in Nat
      /\ \A i \in 1..Len(q) : tasks'[i] = q[i]
      /\ \A i \in (Len(q) + 1)..Len(tasks') : /\ i - Len(q) \in 1..Len(news)
                                              /\ tasks'[i] = news[i - Len(q)]
  OBVIOUS
<1>3. ASSUME NEW i \in 1..Len(tasks'), tasks'[i].type \in K
      PROVE  i + s \in 1..Len(tasks) /\ tasks'[i] = tasks[i + s]
  <2>1. i \notin (Len(q) + 1)..Len(tasks')
    BY <1>2, <1>3
  <2>2. i \in 1..Len(q)
    BY <1>1, <1>2, <2>1
  <2> QED
    BY <1>1, <1>2, <2>2
<1>4. ASSUME NEW i \in (1 + s)..Len(tasks)
      PROVE  i - s \in 1..Len(tasks') /\ tasks'[i - s] = tasks[i]
  <2>1. i - s \in 1..Len(q) /\ (i - s) + s = i
    BY <1>1
  <2>2. i - s \in 1..Len(tasks')
    BY <1>1, <1>2, <2>1
  <2> QED
    BY <1>1, <1>2, <2>1, <2>2
<1> QED
  BY <1>3, <1>4 DEF Shifts

LEMMA PublishShifts ==
  ASSUME tasks \in Seq(VlmItem), NEW e \in VlmItem, e.type \in EventTypes, NEW q,
         tasks' = q \/ tasks' = Publish(q, e), NEW s \in {0, 1},
         \/ s = 0 /\ q = tasks
         \/ s = 1 /\ tasks # <<>> /\ q = Tail(tasks)
  PROVE  Shifts(s, Requests)
<1>1. q \in Seq(VlmItem)
  OBVIOUS
<1>2. CASE tasks' = q
  <2>1. <<>> \in Seq(VlmItem) /\ q = q \o <<>> /\ \A i \in 1..Len(<<>>) : (<<>>)[i].type \notin Requests
    BY <1>1
  <2> QED
    BY <1>1, <1>2, <2>1, ServedShifts
<1>3. CASE tasks' = Publish(q, e)
  <2>1. /\ News(e) \in Seq(VlmItem) /\ tasks' = q \o News(e)
        /\ \A i \in 1..Len(News(e)) : News(e)[i] = e
    BY <1>1, <1>3, NewsPublished
  <2>2. \A i \in 1..Len(News(e)) : News(e)[i].type \notin Requests
    BY <2>1, RequestIsNoEvent
  <2> QED
    BY <1>1, <2>1, <2>2, ServedShifts
<1> QED
  BY <1>2, <1>3

LEMMA TakenShifts ==
  ASSUME tasks \in Seq(VlmItem), NEW s \in {0, 1},
         \/ s = 0 /\ tasks' = tasks
         \/ s = 1 /\ tasks # <<>> /\ tasks' = Tail(tasks)
  PROVE  Shifts(s, Requests)
<1>1. tasks' \in Seq(VlmItem)
  OBVIOUS
<1>2. /\ <<>> \in Seq(VlmItem) /\ tasks' = tasks' \o <<>>
      /\ \A i \in 1..Len(<<>>) : (<<>>)[i].type \notin Requests
  BY <1>1
<1> QED
  BY <1>1, <1>2, ServedShifts

LEMMA SaysShifts ==
  ASSUME tasks \in Seq(VlmItem), NEW q, NEW m, Says(q, m), NEW s \in {0, 1},
         \/ s = 0 /\ q = tasks
         \/ s = 1 /\ tasks # <<>> /\ q = Tail(tasks)
  PROVE  Shifts(s, Requests) /\ UNCHANGED state
<1>1. UNCHANGED state
  BY DEF Says, orchVars
<1>2. CASE tasks' = q
  BY <1>1, <1>2, TakenShifts
<1>3. CASE \E e \in VlmItem : /\ e.type \in ChatNotice \cup {"VlmAnalysisCompleted"}
                              /\ e.mission = m /\ e.to = Subscribed
                              /\ tasks' = Publish(q, e)
  <2>1. PICK e \in VlmItem : /\ e.type \in ChatNotice \cup {"VlmAnalysisCompleted"}
                             /\ tasks' = Publish(q, e)
    BY <1>3
  <2>2. e.type \in EventTypes
    BY <2>1 DEF EventTypes, MissionEventTypes
  <2> QED
    BY <1>1, <2>1, <2>2, PublishShifts
<1> QED
  BY <1>2, <1>3 DEF Says

LEMMA PassesShifts ==
  ASSUME tasks \in Seq(VlmItem), Passes
  PROVE  /\ UNCHANGED state
         /\ \/ Shifts(0, Requests)
            \/ /\ tasks # <<>> /\ Task.type \in CommandTypes \ SessionTypes
               /\ Shifts(1, Requests)
            \/ /\ \E o \in Orchs : RequestMission(o)
               /\ Shifts(0, CommandTypes)
<1>1. UNCHANGED state
  BY DEF Passes, orchVars
<1>2. CASE tasks' = tasks
  BY <1>1, <1>2, TakenShifts
<1>3. CASE tasks # <<>> /\ Task.type \in CommandTypes \ SessionTypes /\ tasks' = Tail(tasks)
  BY <1>1, <1>3, TakenShifts
<1>4. CASE \E o \in Orchs : RequestMission(o)
  <2>1. PICK o \in Orchs, g \in Glimpses, ok \in PromptOk :
          tasks' = Append(tasks, [type |-> "StartMission", by |-> o, glimpses |-> g,
                                  prompt_ok |-> ok])
    BY <1>4 DEF RequestMission, RequestStart
  <2> DEFINE x == [type |-> "StartMission", by |-> o, glimpses |-> g, prompt_ok |-> ok]
  <2>2. x \in VlmItem /\ x.type \notin CommandTypes
    BY DEF VlmItem, StartRequest, CommandTypes, Awaited
  <2>3. tasks' = Append(tasks, x)
    BY <2>1
  <2> HIDE DEF x
  <2>4. /\ <<x>> \in Seq(VlmItem) /\ tasks' = tasks \o <<x>>
        /\ \A i \in 1..Len(<<x>>) : (<<x>>)[i].type \notin CommandTypes
    BY <2>2, <2>3
  <2>5. Shifts(0, CommandTypes)
    BY <2>4, ServedShifts
  <2> QED
    BY <1>1, <1>4, <2>5
<1>5. CASE \E e \in VlmItem : Remarks(e) /\ tasks' = Publish(tasks, e)
  <2>1. PICK e \in VlmItem : e.type \in EventTypes /\ tasks' = Publish(tasks, e)
    BY <1>5 DEF Remarks
  <2> QED
    BY <1>1, <2>1, PublishShifts
<1> QED
  BY <1>2, <1>3, <1>4, <1>5 DEF Passes

-----------------------------------------------------------------------------
(* Sessions and their owners *)

Live(c) == c \in Subscribed \/ Queued("DeleteSession", c)

Owned == \A m \in Missions, c \in Orchs :
  conversations[m] = c => MissionOf[c] = m /\ Live(c)

\* A session is created for a mission that lives, or deleted after that.
Created(i) ==
  \/ tasks[i].by \in Subscribed
  \/ \E j \in (i + 1)..Len(tasks) : tasks[j].type = "DeleteSession" /\ tasks[j].by = tasks[i].by
Creations == \A i \in 1..Len(tasks) : tasks[i].type = "CreateNewSession" => Created(i)

LEMMA MissionUp ==
  ASSUME MissionInv(VlmItem), NEW p \in Orchs, MissionMove(p)
  PROVE  /\ Follows(VlmItem, p, tasks')
         /\ \A o \in Orchs \ {p} : state'[o] = state[o] /\ start_at'[o] = start_at[o]
         /\ \E n \in Nat, s \in {0, 1} :
              /\ Up(tasks, tasks', n, s)
              /\ s = 1 => /\ Task.type \notin CommandTypes
                          /\ Task.type \in EventTypes => Task.to \subseteq {p}
              /\ \A i \in 1..n : \/ tasks'[i] = tasks[i + s]
                                 \/ i + s = 1 /\ Told(p, tasks[1], tasks'[1])
              /\ Parts(p, n, tasks') \/ Commands(p, n, tasks') \/ Continues(p, n, tasks')
<1>1. Writes(p)
  BY DEF MissionMove
<1>2. Follows(VlmItem, p, tasks')
  BY <1>1, VlmCarries, MissionFollows DEF MissionInv
<1>3. \A o \in Orchs \ {p} : state'[o] = state[o] /\ start_at'[o] = start_at[o]
  BY <1>1, OthersKept DEF MissionInv, Ledger
<1> QED
  BY <1>2, <1>3, VlmCarries, FollowedUp DEF MissionInv

LEMMA SubscribedMoved ==
  ASSUME MissionInv(VlmItem), NEW p \in Orchs, MissionMove(p), NEW n \in Nat,
         Parts(p, n, tasks') \/ Commands(p, n, tasks') \/ Continues(p, n, tasks')
  PROVE  \A c \in Subscribed : c \in Subscribed' \/ (c = p /\ Parts(p, n, tasks'))
<1> SUFFICES ASSUME NEW c \in Subscribed
             PROVE  c \in Subscribed' \/ (c = p /\ Parts(p, n, tasks'))
  OBVIOUS
<1>1. CASE c # p
  BY <1>1, MissionUp DEF Subscribed
<1>2. CASE c = p
  BY <1>2 DEF Subscribed, Parts, Commands, Continues
<1> QED
  BY <1>1, <1>2

LEMMA LiveMoved ==
  ASSUME MissionInv(VlmItem), NEW p \in Orchs, MissionMove(p), NEW c \in Orchs, Live(c)
  PROVE  Live(c)'
<1>1. PICK n \in Nat, s \in {0, 1} :
        /\ Up(tasks, tasks', n, s)
        /\ s = 1 => Task.type \notin CommandTypes
        /\ Parts(p, n, tasks') \/ Commands(p, n, tasks') \/ Continues(p, n, tasks')
  BY MissionUp
<1>2. CASE c \in Subscribed
  <2>1. CASE Parts(p, n, tasks') /\ c = p
    <3>1. Len(tasks') \in 1..Len(tasks') /\ tasks'[Len(tasks')] = Await(p, "DeleteSession")
      BY <1>1, <2>1 DEF Parts, Up
    <3> QED
      BY <2>1, <3>1 DEF Live, Queued, Await
  <2> QED
    BY <1>1, <1>2, <2>1, SubscribedMoved DEF Live
<1>3. CASE Queued("DeleteSession", c)
  <2>1. PICK i \in 1..Len(tasks) : tasks[i].type = "DeleteSession" /\ tasks[i].by = c
    BY <1>3 DEF Queued
  <2>2. ~(s = 1 /\ i = 1)
    BY <1>1, <2>1, FarewellTypes DEF Task
  <2>3. i \in (1 + s)..Len(tasks)
    BY <1>1, <2>1, <2>2 DEF Up
  <2>4. i - s \in 1..Len(tasks') /\ tasks'[i - s] = tasks[i]
    BY <1>1, <2>1, <2>3, UpCommands, FarewellTypes
  <2> QED
    BY <2>1, <2>4 DEF Live, Queued
<1> QED
  BY <1>2, <1>3 DEF Live

LEMMA CreationsMoved ==
  ASSUME MissionInv(VlmItem), NEW p \in Orchs, MissionMove(p), Creations
  PROVE  Creations'
<1>1. PICK n \in Nat, s \in {0, 1} :
        /\ Up(tasks, tasks', n, s)
        /\ s = 1 => Task.type \notin CommandTypes
        /\ Parts(p, n, tasks') \/ Commands(p, n, tasks') \/ Continues(p, n, tasks')
  BY MissionUp
<1>2. "CreateNewSession" \in CommandTypes
  BY DEF CommandTypes, Awaited
<1>3. ASSUME NEW i \in 1..Len(tasks'), tasks'[i].type = "CreateNewSession"
      PROVE  \/ tasks'[i].by \in Subscribed'
             \/ \E j \in (i + 1)..Len(tasks') :
                  tasks'[j].type = "DeleteSession" /\ tasks'[j].by = tasks'[i].by
  <2>1. CASE i \in 1..n
    <3>1. i + s \in 1..Len(tasks) /\ tasks'[i] = tasks[i + s]
      BY <1>1, <1>2, <1>3, <2>1, UpCommands
    <3>2. Created(i + s)
      BY <1>3, <3>1 DEF Creations
    <3>3. CASE tasks[i + s].by \in Subscribed
      <4>1. CASE tasks[i + s].by = p /\ Parts(p, n, tasks')
        <5>1. /\ Len(tasks') \in (i + 1)..Len(tasks')
              /\ tasks'[Len(tasks')] = Await(p, "DeleteSession")
          BY <1>1, <2>1, <4>1 DEF Parts, Up
        <5> QED
          BY <3>1, <4>1, <5>1 DEF Await
      <4> QED
        BY <1>1, <3>1, <3>3, <4>1, SubscribedMoved
    <3>4. CASE \E j \in (i + s + 1)..Len(tasks) :
                 tasks[j].type = "DeleteSession" /\ tasks[j].by = tasks[i + s].by
      <4>1. PICK j \in (i + s + 1)..Len(tasks) :
              tasks[j].type = "DeleteSession" /\ tasks[j].by = tasks[i + s].by
        BY <3>4
      <4>2. j \in (1 + s)..Len(tasks) /\ i < j - s
        BY <1>1, <2>1, <4>1 DEF Up
      <4>3. j - s \in 1..n /\ tasks'[j - s] = tasks[j]
        BY <1>1, <4>1, <4>2, UpCommands, FarewellTypes
      <4>4. j - s \in (i + 1)..Len(tasks')
        BY <1>1, <4>2, <4>3 DEF Up
      <4> QED
        BY <3>1, <4>1, <4>3, <4>4
    <3> QED
      BY <3>2, <3>3, <3>4 DEF Created
  <2>2. CASE i \in Added(tasks', n)
    <3>1. CASE Parts(p, n, tasks')
      <4>1. i < Len(tasks') - 1 \/ i = Len(tasks') - 1 \/ i = Len(tasks')
        BY <1>1, <2>2 DEF Added, Up
      <4> QED
        BY <1>3, <2>2, <3>1, <4>1 DEF Parts, Await
    <3>2. CASE Commands(p, n, tasks')
      BY <1>3, <2>2, <3>2 DEF Commands, Added, ExecuteMove
    <3>3. CASE Continues(p, n, tasks')
      <4>1. Proper(p, tasks'[i])
        BY <2>2, <3>3 DEF Continues
      <4>2. tasks'[i].by = p /\ state'[p] = "IDLE"
        BY <1>3, <4>1 DEF Proper
      <4> QED
        BY <4>2 DEF Subscribed
    <3> QED
      BY <1>1, <3>1, <3>2, <3>3
  <2> QED
    BY <1>1, <2>1, <2>2, UpCommands
<1> QED
  BY <1>3 DEF Creations, Created

LEMMA LiveServed ==
  ASSUME NEW s \in {0, 1}, NEW K, Shifts(s, K), UNCHANGED state, NEW c, Live(c),
         s = 1 => ~(Task.type = "DeleteSession" /\ Task.by = c)
  PROVE  Live(c)'
<1>1. CASE c \in Subscribed
  BY <1>1 DEF Live, Subscribed
<1>2. CASE Queued("DeleteSession", c)
  <2>1. PICK i \in 1..Len(tasks) : tasks[i].type = "DeleteSession" /\ tasks[i].by = c
    BY <1>2 DEF Queued
  <2>2. i \in (1 + s)..Len(tasks)
    BY <2>1 DEF Task
  <2> QED
    BY <2>1, <2>2 DEF Live, Queued, Shifts
<1> QED
  BY <1>1, <1>2 DEF Live

LEMMA CreationsServed ==
  ASSUME tasks \in Seq(VlmItem), tasks' \in Seq(VlmItem), NEW s \in {0, 1}, NEW K,
         CommandTypes \subseteq K, Shifts(s, K), UNCHANGED state, Creations
  PROVE  Creations'
<1>1. "CreateNewSession" \in K
  BY DEF CommandTypes, Awaited
<1>2. ASSUME NEW i \in 1..Len(tasks'), tasks'[i].type = "CreateNewSession"
      PROVE  \/ tasks'[i].by \in Subscribed'
             \/ \E j \in (i + 1)..Len(tasks') :
                  tasks'[j].type = "DeleteSession" /\ tasks'[j].by = tasks'[i].by
  <2>1. i + s \in 1..Len(tasks) /\ tasks'[i] = tasks[i + s]
    BY <1>1, <1>2 DEF Shifts
  <2>2. Created(i + s)
    BY <1>2, <2>1 DEF Creations
  <2>3. CASE tasks[i + s].by \in Subscribed
    BY <2>1, <2>3 DEF Subscribed
  <2>4. CASE \E j \in (i + s + 1)..Len(tasks) :
               tasks[j].type = "DeleteSession" /\ tasks[j].by = tasks[i + s].by
    <3>1. PICK j \in (i + s + 1)..Len(tasks) :
            tasks[j].type = "DeleteSession" /\ tasks[j].by = tasks[i + s].by
      BY <2>4
    <3>2. j \in (1 + s)..Len(tasks) /\ i < j - s
      BY <2>1, <3>1
    <3>3. j - s \in 1..Len(tasks') /\ tasks'[j - s] = tasks[j]
      BY <3>2 DEF Shifts
    <3>4. j - s \in (i + 1)..Len(tasks')
      BY <3>2, <3>3
    <3> QED
      BY <2>1, <3>1, <3>3, <3>4
  <2> QED
    BY <2>2, <2>3, <2>4 DEF Created
<1> QED
  BY <1>2 DEF Creations, Created

SessionInv ==
  /\ MissionInv(VlmItem) /\ VlmTypeOK
  /\ Paired /\ Owned /\ Creations

LEMMA MoveOwned ==
  ASSUME SessionInv, NEW p \in Orchs, MissionMove(p)
  PROVE  Owned' /\ Creations'
<1> USE DEF SessionInv
<1>1. conversations' = conversations
  BY DEF MissionMove, vlmVars, sessionVars
<1>2. \A c \in Orchs : Live(c) => Live(c)'
  BY LiveMoved
<1>3. Owned'
  BY <1>1, <1>2 DEF Owned
<1> QED
  BY <1>3, CreationsMoved

LEMMA PassesOwned ==
  ASSUME SessionInv, tasks' \in Seq(VlmItem), Passes
  PROVE  Owned' /\ Creations'
<1> USE DEF SessionInv
<1>1. conversations' = conversations /\ tasks \in Seq(VlmItem)
  BY DEF Passes, sessionVars, MissionInv
<1>2. PICK s \in {0, 1} :
        /\ s = 1 => Task.type # "DeleteSession"
        /\ Shifts(s, CommandTypes) \/ Shifts(s, Requests)
        /\ UNCHANGED state
  BY <1>1, PassesShifts DEF SessionTypes
<1>3. \A c \in Orchs : Live(c) => Live(c)'
  BY <1>2, LiveServed
<1>4. Owned'
  BY <1>1, <1>3 DEF Owned
<1> QED
  BY <1>1, <1>2, <1>4, CreationsServed DEF Requests

LEMMA HandlerOwned ==
  ASSUME SessionInv, tasks' \in Seq(VlmItem), NEW l \in Orchs, HandlerStep(l)
  PROVE  Owned' /\ Creations'
<1> USE DEF SessionInv
<1>1. conversations' = conversations /\ tasks \in Seq(VlmItem)
  BY HandlerSteps DEF MissionInv
<1>2. Says(tasks, MissionOf[Holder(l).by])
  BY <1>1, OrchAssumption, HandlerSays
<1>3. Shifts(0, Requests) /\ UNCHANGED state
  BY <1>1, <1>2, SaysShifts
<1>4. \A c \in Orchs : Live(c) => Live(c)'
  BY <1>3, LiveServed
<1>5. Owned'
  BY <1>1, <1>4 DEF Owned
<1> QED
  BY <1>1, <1>3, <1>5, CreationsServed DEF Requests

LEMMA SessionOwned ==
  ASSUME SessionInv, tasks' \in Seq(VlmItem), SessionCommand
  PROVE  Owned' /\ Creations'
<1> USE DEF SessionInv
<1>1. /\ tasks \in Seq(VlmItem)
      /\ tasks # <<>> /\ Task.type \in SessionTypes /\ Task.by \in Orchs
      /\ Says(Tail(tasks), Chat)
  BY OrchAssumption, SessionSays DEF MissionInv
<1>2. Shifts(1, Requests) /\ UNCHANGED state
  BY <1>1, SaysShifts
<1>3. Chat \in Missions /\ Chat = MissionOf[Task.by]
  BY <1>1, OrchAssumption DEF Chat, OrchAssumption
<1>4. ASSUME NEW c \in Orchs, Live(c), Task.type = "DeleteSession" => Task.by # c
      PROVE  Live(c)'
  BY <1>2, <1>4, LiveServed
<1>5. Creations'
  BY <1>1, <1>2, CreationsServed DEF Requests
<1>6. CASE HandleCreateNewSession
  <2>1. /\ Task.type = "CreateNewSession"
        /\ \/ conversations' = conversations
           \/ conversations' = [conversations EXCEPT ![Chat] = Task.by]
    BY <1>6 DEF HandleCreateNewSession, Taken
  <2>2. Live(Task.by)
    <3>1. 1 \in 1..Len(tasks) /\ tasks[1] = Task
      BY <1>1 DEF Task
    <3>2. Created(1)
      BY <2>1, <3>1 DEF Creations
    <3>3. \A j \in 2..Len(tasks) : j \in 1..Len(tasks)
      OBVIOUS
    <3> QED
      BY <3>1, <3>2, <3>3 DEF Created, Live, Queued
  <2>3. ASSUME NEW m \in Missions, NEW c \in Orchs, conversations'[m] = c
        PROVE  MissionOf[c] = m /\ Live(c)
    <3>1. CASE conversations'[m] = conversations[m]
      BY <2>3, <3>1 DEF Owned
    <3>2. CASE conversations'[m] # conversations[m]
      <4>1. conversations \in [Missions -> Orchs \cup {Nobody}]
        BY DEF VlmTypeOK
      <4>2. m = Chat /\ conversations'[Chat] = Task.by
        BY <1>3, <2>1, <3>2, <4>1
      <4>3. c = Task.by
        BY <2>3, <4>2
      <4> QED
        BY <1>3, <2>2, <4>2, <4>3
    <3> QED
      BY <3>1, <3>2
  <2> QED
    BY <1>4, <1>5, <2>1, <2>3 DEF Owned
<1>7. CASE HandleDeleteSession
  <2>1. conversations' = [conversations EXCEPT ![Chat] = Nobody]
    BY <1>7 DEF HandleDeleteSession
  <2>2. ASSUME NEW m \in Missions, NEW c \in Orchs, conversations'[m] = c
        PROVE  MissionOf[c] = m /\ Live(c) /\ Task.by # c
    BY <1>3, <2>1, <2>2, VlmAssumption DEF Owned, VlmTypeOK, VlmAssumption
  <2> QED
    BY <1>4, <1>5, <2>2 DEF Owned
<1>8. CASE HandleAnalyzePhoto \/ HandleSaveSession
  <2>1. UNCHANGED conversations /\ Task.type # "DeleteSession"
    BY <1>8 DEF HandleAnalyzePhoto, HandleSaveSession, UseSession, Taken
  <2> QED
    BY <1>4, <1>5, <2>1 DEF Owned
<1> QED
  BY <1>6, <1>7, <1>8 DEF SessionCommand

LEMMA SessionStep ==
  ASSUME SessionInv, [VlmNext]_allVars
  PROVE  SessionInv'
<1> USE DEF SessionInv
<1>1. tasks \in Seq(VlmItem)
  BY DEF MissionInv
<1>2. MissionInv(VlmItem)'
  BY <1>1, OrchAssumption, VlmCarries, VlmServes, MissionNextInv
<1>3. tasks' \in Seq(VlmItem)
  BY <1>2 DEF MissionInv
<1>4. VlmTypeOK' /\ Paired'
  BY <1>1, VlmTyped
<1>5. Owned' /\ Creations'
  BY <1>1, <1>3, VlmSteps, MoveOwned, PassesOwned, HandlerOwned, SessionOwned
<1> QED
  BY <1>2, <1>4, <1>5

LEMMA SessionStart ==
  ASSUME VlmInit
  PROVE  SessionInv
<1>1. MissionInv(VlmItem)
  BY MissionInit DEF VlmInit, ManagerInit
<1>2. VlmTypeOK
  BY VlmAssumption DEF VlmInit, VlmTypeOK
<1>3. Paired /\ Owned /\ Creations
  BY VlmAssumption DEF VlmInit, ManagerInit, Init, Paired, Owned, Creations, VlmAssumption
<1> QED
  BY <1>1, <1>2, <1>3 DEF SessionInv

LEMMA SessionInvariant == VlmSpec => []SessionInv
  BY SessionStart, SessionStep, PTL DEF VlmSpec

-----------------------------------------------------------------------------
(* Runs of one id *)

HasCommand(o) == \E i \in 1..Len(tasks) : tasks[i].type \in CommandTypes /\ tasks[i].by = o

\* Nothing of o is queued, for the components or for a lock.
Absent(o) == ~HasCommand(o) /\ lock_queue[o] = <<>>

Fresh(o) == state[o] = "NEW" => Absent(o) /\ history[o] = <<>>

Unused(o) == state[o] = "NEW" /\ ~Queued("StartMission", o)
Over(o) == /\ state[o] = "ENDED" /\ start_at[o] \in {"finished", "failed", "cancelled"}
           /\ Absent(o)
Free(o) == Unused(o) \/ Over(o)

Apart == \A o, p \in Orchs : o # p /\ MissionOf[o] = MissionOf[p] => Free(o) \/ Free(p)

\* A handler waits for the lock of its own session, and uses its conversation.
Fits(l, h) ==
  /\ h.by = l /\ h.conv \in {Nobody, l} /\ h.at # "lost"
  /\ h.at \in {"prepare", "image", "send"} => h.kind = "analysis"
  /\ h.at \in {"history", "images"} => h.kind = "save"
Locks == \A l \in Orchs : \A i \in 1..Len(lock_queue[l]) :
  Fits(l, lock_queue[l][i]) /\ (i >= 2 => lock_queue[l][i].at = "lock")

RunInv == Locks /\ Apart /\ \A o \in Orchs : Fresh(o)

LEMMA NotFree ==
  ASSUME NEW o \in Orchs, Fresh(o), ~Absent(o)
  PROVE  ~Free(o)
  BY DEF Fresh, Free, Unused, Over

LEMMA CommandCounts ==
  ASSUME tasks \in Seq(VlmItem), tasks # <<>>, Task.type \in CommandTypes
  PROVE  HasCommand(Task.by)
<1>1. 1 \in 1..Len(tasks) /\ tasks[1] = Task
  BY DEF Task
<1> QED
  BY <1>1 DEF HasCommand

LEMMA LiveIsNotFree ==
  ASSUME NEW o \in Orchs, Fresh(o), Live(o)
  PROVE  ~Free(o)
<1>1. Queued("DeleteSession", o) => HasCommand(o)
  BY FarewellTypes DEF Queued, HasCommand
<1> QED
  BY <1>1, NotFree DEF Live, Subscribed, Free, Unused, Over, Absent

\* A run that is not over finds its own session, or none.
LEMMA SessionOf ==
  ASSUME SessionInv, RunInv, NEW o \in Orchs, ~Free(o)
  PROVE  conversations[MissionOf[o]] \in {Nobody, o} /\ MissionOf[o] \in Missions
<1>1. MissionOf[o] \in Missions
  BY OrchAssumption DEF OrchAssumption
<1>2. conversations[MissionOf[o]] \in Orchs \cup {Nobody}
  BY <1>1 DEF SessionInv, VlmTypeOK
<1>3. ASSUME NEW c \in Orchs, conversations[MissionOf[o]] = c
      PROVE  c = o
  <2>1. MissionOf[c] = MissionOf[o] /\ Live(c)
    BY <1>1, <1>3 DEF SessionInv, Owned
  <2>2. ~Free(c)
    BY <2>1, LiveIsNotFree DEF RunInv
  <2> QED
    BY <2>1, <2>2 DEF RunInv, Apart
<1> QED
  BY <1>1, <1>2, <1>3

\* Nothing more is asked for in the name of o.
NoMore(o) == \A i \in 1..Len(tasks') :
  tasks'[i].type \in Requests /\ tasks'[i].by = o => \E j \in 1..Len(tasks) : tasks[j] = tasks'[i]

LEMMA NoMoreCommands ==
  ASSUME NEW o \in Orchs, NoMore(o)
  PROVE  /\ HasCommand(o)' => HasCommand(o)
         /\ \A type \in Requests : Queued(type, o)' => Queued(type, o)
<1>1. HasCommand(o)' => HasCommand(o)
  BY DEF NoMore, HasCommand, Requests
<1>2. ASSUME NEW type \in Requests, Queued(type, o)'
      PROVE  Queued(type, o)
  BY <1>2 DEF NoMore, Queued
<1> QED
  BY <1>1, <1>2

LEMMA ShiftsNoMore ==
  ASSUME NEW s \in {0, 1}, Shifts(s, Requests), NEW o
  PROVE  NoMore(o)
  BY DEF Shifts, NoMore

LEMMA RequestNoMore ==
  ASSUME tasks \in Seq(VlmItem), NEW p \in Orchs, RequestMission(p), NEW o \in Orchs \ {p}
  PROVE  NoMore(o)
<1>1. PICK g \in Glimpses, ok \in PromptOk :
        tasks' = Append(tasks, [type |-> "StartMission", by |-> p, glimpses |-> g,
                                prompt_ok |-> ok])
  BY DEF RequestMission, RequestStart
<1> DEFINE x == [type |-> "StartMission", by |-> p, glimpses |-> g, prompt_ok |-> ok]
<1>2. tasks' = Append(tasks, x) /\ x.by = p
  BY <1>1
<1> HIDE DEF x
<1>3. \A i \in 1..Len(tasks') : \/ i \in 1..Len(tasks) /\ tasks'[i] = tasks[i]
                                \/ tasks'[i] = x
  BY <1>2
<1> QED
  BY <1>2, <1>3 DEF NoMore

LEMMA MoveNoMore ==
  ASSUME MissionInv(VlmItem), NEW p \in Orchs, MissionMove(p), NEW o \in Orchs \ {p}
  PROVE  NoMore(o)
<1>1. PICK n \in Nat, s \in {0, 1} :
        /\ Up(tasks, tasks', n, s)
        /\ Parts(p, n, tasks') \/ Commands(p, n, tasks') \/ Continues(p, n, tasks')
  BY MissionUp
<1>2. ASSUME NEW i \in 1..Len(tasks'), tasks'[i].type \in Requests, tasks'[i].by = o
      PROVE  \E j \in 1..Len(tasks) : tasks[j] = tasks'[i]
  <2>1. i \notin Added(tasks', n)
    BY <1>1, <1>2, AddedIsOwn DEF Up
  <2>2. i \in 1..n
    BY <1>1, <2>1, UpCommands
  <2> QED
    BY <1>1, <1>2, <2>2, RequestIsNoEvent DEF Up
<1> QED
  BY <1>2 DEF NoMore

LEMMA IgnoreNoMore ==
  ASSUME MissionInv(VlmItem), NEW o \in Orchs, Ignore(o)
  PROVE  NoMore(o)
<1>1. Base(o, tasks')
  BY DEF Ignore, Base
<1>2. PICK s \in {0, 1} : tasks' \in Seq(VlmItem) /\ Keeps(o, tasks', s)
  BY <1>1, VlmCarries, BaseKeeps DEF MissionInv
<1>3. ASSUME NEW i \in 1..Len(tasks'), tasks'[i].type \in Requests
      PROVE  \E j \in 1..Len(tasks) : tasks[j] = tasks'[i]
  <2>1. i + s \in 1..Len(tasks)
    BY <1>2 DEF Keeps
  <2>2. CASE tasks'[i] = tasks[i + s]
    BY <2>1, <2>2
  <2>3. CASE i + s = 1 /\ Told(o, tasks[1], tasks'[1])
    <3>1. i = 1
      BY <2>3
    <3> QED
      BY <1>3, <2>3, <3>1, RequestIsNoEvent DEF Told
  <2> QED
    BY <1>2, <2>2, <2>3 DEF Keeps
<1> QED
  BY <1>3 DEF NoMore

\* A mission that is over ignores what it is told.
LEMMA OverIgnores ==
  ASSUME MissionInv(VlmItem), NEW o \in Orchs, Over(o), MissionMove(o)
  PROVE  Ignore(o) /\ UNCHANGED lock_queue
<1>1. state[o] = "ENDED" /\ start_at[o] \in {"finished", "failed", "cancelled"}
  BY DEF Over
<1>2. \A type : Handles(o, type) => state[o] \in Expected(type)
  BY HandlesEvent
<1>3. ~Starts(o) /\ ~AwaitedDone(o)
  BY <1>1 DEF Starts, Start, AwaitedDone, Awaited
<1>4. ~(StartSave(o) \/ StartSearch(o) \/ StartFirstPhoto(o))
  BY <1>1 DEF StartSave, StartSearch, StartFirstPhoto, Awake
<1>5. ~(HandlePhotoAndTelemetry(o) \/ HandleVlmAnalysis(o) \/ UserConfirms(o) \/ UserWarns(o)
          \/ UserCancels(o) \/ HandleMoveStarted(o) \/ MoveSucceeded(o) \/ MoveFailed(o))
  BY <1>1, <1>2
  DEF HandlePhotoAndTelemetry, HandleVlmAnalysis, UserConfirms, UserWarns, UserCancels,
      HandleMoveStarted, MoveSucceeded, MoveFailed, Expected
<1>6. ~(HandleDroneConnectionLost(o) \/ HandleDroneReconnected(o) \/ HandleFatal(o))
  BY <1>1, <1>2
  DEF HandleDroneConnectionLost, HandleDroneReconnected, HandleFatal, Expected, Fatal,
      ChatNotice
<1>7. Handle(o) /\ UNCHANGED lock_queue
  BY <1>3 DEF MissionMove, vlmVars, sessionVars
<1> QED
  BY <1>4, <1>5, <1>6, <1>7 DEF Handle

\* A command of a run joins the handlers of its own lock.
LEMMA SessionJoins ==
  ASSUME SessionInv, RunInv, NEW kind \in {"analysis", "save"}, NEW error \in ChatNotice,
         tasks # <<>>, Task.type \in SessionTypes, UseSession(NewHandler(kind), error)
  PROVE  \/ /\ conversations[Chat] = Nobody /\ UNCHANGED lock_queue
            /\ tasks' = Publish(Tail(tasks), ChatNews(error, Chat))
         \/ /\ conversations[Chat] = Task.by /\ tasks' = Tail(tasks)
            /\ \E h \in Handler :
                 /\ Fits(Task.by, h) /\ h.kind = kind
                 /\ \/ h.at = "lock"
                    \/ /\ lock_queue[Task.by] = <<>> /\ h.conv = Task.by
                       /\ kind = "analysis" => h.at = "prepare"
                       /\ kind = "save" => h.at = "history" /\ h.saved = history[Task.by]
                 /\ lock_queue' = [lock_queue EXCEPT ![Task.by] = Append(@, h)]
<1> DEFINE t == Task.by
           c == conversations[Chat]
<1>1. tasks \in Seq(VlmItem) /\ t \in Orchs /\ Chat = MissionOf[t]
  BY TakenCommand, SessionIsCommand DEF SessionInv, MissionInv, Chat
<1>2. ~Free(t)
  BY <1>1, CommandCounts, SessionIsCommand, NotFree DEF RunInv, Absent
<1>3. c \in Orchs => c = t
  BY <1>1, <1>2, SessionOf, VlmAssumption DEF VlmAssumption
<1>4. CASE /\ c = Nobody /\ UNCHANGED lock_queue
           /\ tasks' = Publish(Tail(tasks), ChatNews(error, Chat))
  BY <1>4
<1>5. CASE /\ c \in Orchs /\ tasks' = Tail(tasks)
           /\ \E h \in Handler :
                /\ h.by = t /\ h.kind = kind
                /\ h.at = "lock" \/ (lock_queue[c] = <<>> /\ h = Entered(NewHandler(kind), c))
                /\ lock_queue' = [lock_queue EXCEPT ![c] = Append(@, h)]
  <2>1. c = t
    BY <1>3, <1>5
  <2>2. PICK h \in Handler :
          /\ h.by = t /\ h.kind = kind
          /\ h.at = "lock" \/ (lock_queue[t] = <<>> /\ h = Entered(NewHandler(kind), t))
          /\ lock_queue' = [lock_queue EXCEPT ![t] = Append(@, h)]
    <3> HIDE DEF c, t
    <3> QED
      BY <1>5, <2>1
  <2>3. h.at = "lock" => h.conv = Nobody
    BY HandlerFields
  <2>4. h.at # "lock" => /\ h.conv = t /\ lock_queue[t] = <<>>
                         /\ kind = "analysis" => h.at = "prepare"
                         /\ kind = "save" => h.at = "history" /\ h.saved = history[t]
    <3> DEFINE n == NewHandler(kind)
    <3>1. n \in Handler /\ n.kind = kind
      BY <1>1, NewTyped
    <3> HIDE DEF n
    <3>2. /\ Entered(n, t).conv = t
          /\ kind = "analysis" => Entered(n, t).at = "prepare"
          /\ kind = "save" => Entered(n, t).at = "history" /\ Entered(n, t).saved = history[t]
      BY <1>1, <3>1, EnteredTyped DEF SessionInv
    <3> QED
      BY <2>2, <3>2 DEF n
  <2>5. Fits(t, h)
    BY <2>2, <2>3, <2>4, HandlerFields DEF Fits
  <2> QED
    BY <1>5, <2>1, <2>2, <2>4, <2>5
<1> QED
  BY <1>1, <1>4, <1>5, SessionUsed DEF SessionInv

LEMMA SessionLocks ==
  ASSUME SessionInv, RunInv, SessionCommand
  PROVE  /\ Locks'
         /\ \A o \in Orchs : Absent(o) => lock_queue'[o] = <<>>
<1> DEFINE t == Task.by
<1>1. /\ tasks \in Seq(VlmItem) /\ tasks # <<>> /\ Task.type \in SessionTypes
      /\ t \in Orchs /\ HasCommand(t)
  BY OrchAssumption, SessionSays, SessionIsCommand, CommandCounts DEF SessionInv, MissionInv
<1>2. CASE UNCHANGED lock_queue
  BY <1>2 DEF RunInv, Locks, Absent
<1>3. ASSUME NEW kind \in {"analysis", "save"}, NEW error \in ChatNotice,
             UseSession(NewHandler(kind), error), ~UNCHANGED lock_queue
      PROVE  /\ Locks'
             /\ \A o \in Orchs : Absent(o) => lock_queue'[o] = <<>>
  <2>1. PICK h \in Handler :
          /\ Fits(t, h) /\ (h.at = "lock" \/ lock_queue[t] = <<>>)
          /\ lock_queue' = [lock_queue EXCEPT ![t] = Append(@, h)]
    BY <1>1, <1>3, SessionJoins
  <2> HIDE DEF t
  <2>2. /\ \A k \in Orchs \ {t} : lock_queue'[k] = lock_queue[k]
        /\ Len(lock_queue'[t]) = Len(lock_queue[t]) + 1 /\ Len(lock_queue[t]) \in Nat
        /\ lock_queue'[t][Len(lock_queue'[t])] = h
        /\ \A i \in 1..Len(lock_queue[t]) : lock_queue'[t][i] = lock_queue[t][i]
    BY <1>1, <2>1, JoinQueue DEF SessionInv, OthersWait
  <2>3. ASSUME NEW l \in Orchs, NEW i \in 1..Len(lock_queue'[l])
        PROVE  Fits(l, lock_queue'[l][i]) /\ (i >= 2 => lock_queue'[l][i].at = "lock")
    <3>1. CASE l = t /\ i = Len(lock_queue'[t])
      <4>1. i >= 2 => lock_queue[t] # <<>>
        BY <2>2, <3>1
      <4>2. lock_queue'[l][i] = h
        BY <2>2, <3>1
      <4> QED
        BY <2>1, <3>1, <4>1, <4>2
    <3>2. CASE l = t /\ i # Len(lock_queue'[t])
      <4>1. i \in 1..Len(lock_queue[t]) /\ lock_queue'[l][i] = lock_queue[t][i]
        BY <2>2, <2>3, <3>2
      <4> QED
        BY <1>1, <3>2, <4>1 DEF RunInv, Locks
    <3>3. CASE l # t
      BY <2>2, <2>3, <3>3 DEF RunInv, Locks
    <3> QED
      BY <3>1, <3>2, <3>3
  <2>4. \A o \in Orchs : Absent(o) => lock_queue'[o] = <<>>
    BY <1>1, <2>2 DEF Absent
  <2>5. Locks'
    BY <2>3 DEF Locks, Fits
  <2> QED
    BY <2>4, <2>5
<1>4. CASE HandleAnalyzePhoto \/ HandleSaveSession
  BY <1>2, <1>3, <1>4 DEF HandleAnalyzePhoto, HandleSaveSession, ChatNotice
<1>5. CASE HandleCreateNewSession \/ HandleDeleteSession
  BY <1>2, <1>5 DEF HandleCreateNewSession, HandleDeleteSession
<1> QED
  BY <1>4, <1>5 DEF SessionCommand

\* What the holder of a lock does next, among the handlers of its lock.
LEMMA HolderFits ==
  ASSUME SessionInv, RunInv, NEW l \in Orchs, lock_queue[l] # <<>>
  PROVE  /\ Holder(l) \in Handler /\ Holder(l) = lock_queue[l][1] /\ 1 \in 1..Len(lock_queue[l])
         /\ Fits(l, Holder(l)) /\ ~Free(l) /\ ~Absent(l)
         /\ Holder(l).at # "lock" => Holder(l).conv = l
<1>1. /\ Holder(l) \in Handler /\ Holder(l) = lock_queue[l][1] /\ 1 \in 1..Len(lock_queue[l])
  BY QueueTyped DEF SessionInv
<1>2. Fits(l, Holder(l))
  BY <1>1 DEF RunInv, Locks
<1>3. ~Absent(l) /\ ~Free(l)
  BY NotFree DEF RunInv, Absent
<1>4. Holder(l).at # "lock" => Holder(l).conv = l
  BY <1>1, <1>2, HandlerFields DEF Fits
<1> QED
  BY <1>1, <1>2, <1>3, <1>4

LEMMA HandlerMoves ==
  ASSUME SessionInv, RunInv, NEW l \in Orchs, HandlerStep(l)
  PROVE  \/ Release(l) /\ (Breaks(l) \/ ModelAnswers(l) \/ WriteImages(l))
         \/ \E h \in Handler :
              /\ Continue(l, h) /\ Fits(l, h) /\ h.kind = Holder(l).kind /\ h.conv = l
              /\ \/ Enters(l, l) /\ h = Entered(Holder(l), l)
                 \/ Encodes(l) /\ h.at = "image"
                 \/ Asks(l) /\ h.at = "send"
                 \/ WriteHistory(l) /\ h.at = "images" /\ h.saved = Holder(l).saved
<1>1. lock_queue[l] # <<>>
  BY HandlerSteps DEF SessionInv
<1> DEFINE g == Holder(l)
<1>2. g \in Handler /\ Fits(l, g) /\ ~Free(l) /\ (g.at # "lock" => g.conv = l)
  BY <1>1, HolderFits
<1>3. ASSUME NEW conv \in Orchs, Enters(l, conv)
      PROVE  Enters(l, l) /\ Continue(l, Entered(g, l)) /\ g.at = "lock"
  <2>1. conversations[MissionOf[l]] = conv /\ conv \in {Nobody, l}
    BY <1>2, <1>3, SessionOf DEF Enters, Fits
  <2>2. conv = l
    BY <2>1, VlmAssumption DEF VlmAssumption
  <2> QED
    BY <1>3, <2>2 DEF Enters
<1>4. /\ Entered(g, l) \in Handler /\ Entered(g, l).kind = g.kind /\ Entered(g, l).conv = l
      /\ Fits(l, Entered(g, l))
  <2> HIDE DEF g
  <2>1. /\ Entered(g, l) \in Handler
        /\ Entered(g, l).kind = g.kind /\ Entered(g, l).by = g.by
        /\ Entered(g, l).conv = l
        /\ g.kind = "analysis" => Entered(g, l).at = "prepare"
        /\ g.kind = "save" => Entered(g, l).at = "history"
    BY <1>2, EnteredTyped DEF SessionInv
  <2>2. g.kind \in {"analysis", "save"} /\ g.by = l
    BY <1>2, HandlerFields DEF Fits
  <2> QED
    BY <2>1, <2>2 DEF Fits
<1>5. ASSUME g.at # "lock", NEW at \in {"image", "send", "images"},
             at \in {"image", "send"} => g.kind = "analysis",
             at = "images" => g.kind = "save"
      PROVE  LET h == [g EXCEPT !.at = at]
             IN  /\ h \in Handler /\ Fits(l, h) /\ h.kind = g.kind /\ h.conv = l
                 /\ h.at = at /\ h.saved = g.saved
  <2> HIDE DEF g
  <2>1. at \in At \ {"lock"}
    BY DEF At
  <2> DEFINE h == [g EXCEPT !.at = at]
  <2>2. /\ h \in Handler /\ h.kind = g.kind /\ h.by = g.by /\ h.conv = g.conv
        /\ h.saved = g.saved /\ h.at = at
    BY <1>2, <1>5, <2>1, MovedTyped
  <2> HIDE DEF h
  <2>3. Fits(l, h)
    BY <1>2, <1>5, <2>2 DEF Fits
  <2> QED
    BY <1>2, <1>5, <2>2, <2>3 DEF h
<1>6. CASE \E conv \in Orchs : Enters(l, conv)
  BY <1>3, <1>4, <1>6
<1>7. CASE Encodes(l)
  <2>1. g.at = "prepare" /\ Continue(l, [g EXCEPT !.at = "image"]) /\ g.kind = "analysis"
    BY <1>2, <1>7 DEF Encodes, Fits
  <2> QED
    BY <1>5, <1>7, <2>1
<1>8. CASE Asks(l)
  <2>1. g.at # "lock" /\ Continue(l, [g EXCEPT !.at = "send"]) /\ g.kind = "analysis"
    BY <1>2, <1>8 DEF Asks, CommitAndSend, Fits
  <2> QED
    BY <1>5, <1>8, <2>1
<1>9. CASE WriteHistory(l)
  <2>1. g.at # "lock" /\ Continue(l, [g EXCEPT !.at = "images"]) /\ g.kind = "save"
    BY <1>2, <1>9 DEF WriteHistory, HeldAt, Fits
  <2> QED
    BY <1>5, <1>9, <2>1
<1>10. CASE Breaks(l) \/ ModelAnswers(l) \/ WriteImages(l)
  BY <1>10 DEF Breaks, Fail, ModelAnswers, WriteImages
<1> QED
  BY <1>6, <1>7, <1>8, <1>9, <1>10, HandlerSteps DEF SessionInv

LEMMA HandlerLocks ==
  ASSUME SessionInv, RunInv, NEW l \in Orchs, HandlerStep(l)
  PROVE  /\ Locks'
         /\ \A o \in Orchs : Absent(o) => lock_queue'[o] = <<>>
<1>1. lock_queue[l] # <<>>
  BY HandlerSteps DEF SessionInv
<1>2. ~Absent(l) /\ 1 \in 1..Len(lock_queue[l])
  BY <1>1, HolderFits
<1>3. CASE Release(l)
  <2>1. /\ \A k \in Orchs \ {l} : lock_queue'[k] = lock_queue[k]
        /\ \A i \in 1..Len(lock_queue'[l]) : /\ i + 1 \in 2..Len(lock_queue[l])
                                             /\ lock_queue'[l][i] = lock_queue[l][i + 1]
    BY <1>1, <1>3, ReleaseQueue DEF SessionInv, OthersWait
  <2>2. \A i \in 2..Len(lock_queue[l]) : i \in 1..Len(lock_queue[l]) /\ i >= 2
    OBVIOUS
  <2>3. ASSUME NEW k \in Orchs, NEW i \in 1..Len(lock_queue'[k])
        PROVE  Fits(k, lock_queue'[k][i]) /\ (i >= 2 => lock_queue'[k][i].at = "lock")
    BY <2>1, <2>2, <2>3 DEF RunInv, Locks
  <2>4. Locks'
    BY <2>3 DEF Locks, Fits
  <2> QED
    BY <1>2, <2>1, <2>4 DEF Absent
<1>4. ASSUME NEW h \in Handler, Continue(l, h), Fits(l, h)
      PROVE  /\ Locks'
             /\ \A o \in Orchs : Absent(o) => lock_queue'[o] = <<>>
  <2>1. /\ \A k \in Orchs \ {l} : lock_queue'[k] = lock_queue[k]
        /\ Len(lock_queue'[l]) = Len(lock_queue[l]) /\ lock_queue'[l][1] = h
        /\ \A i \in 2..Len(lock_queue[l]) : lock_queue'[l][i] = lock_queue[l][i]
    BY <1>1, <1>4, ContinueQueue DEF SessionInv, OthersWait
  <2>2. \A i \in 1..Len(lock_queue[l]) : i = 1 \/ i \in 2..Len(lock_queue[l])
    OBVIOUS
  <2>3. ASSUME NEW k \in Orchs, NEW i \in 1..Len(lock_queue'[k])
        PROVE  Fits(k, lock_queue'[k][i]) /\ (i >= 2 => lock_queue'[k][i].at = "lock")
    BY <1>4, <2>1, <2>2, <2>3 DEF RunInv, Locks
  <2>4. Locks'
    BY <2>3 DEF Locks, Fits
  <2> QED
    BY <1>2, <2>1, <2>4 DEF Absent
<1> QED
  BY <1>3, <1>4, HandlerMoves

\* What a step that is not its own leaves of a run.
Untouched(o) ==
  /\ state'[o] = state[o] /\ start_at'[o] = start_at[o]
  /\ NoMore(o)
  /\ Absent(o) => lock_queue'[o] = <<>> /\ history'[o] = history[o]

LEMMA MoveUntouched ==
  ASSUME SessionInv, NEW p \in Orchs, MissionMove(p), NEW o \in Orchs \ {p}
  PROVE  Untouched(o)
<1>1. UNCHANGED <<lock_queue, history>>
  BY DEF MissionMove, vlmVars, sessionVars, conversationVars
<1> QED
  BY <1>1, MissionUp, MoveNoMore DEF SessionInv, Untouched, Absent

LEMMA PassesUntouched ==
  ASSUME SessionInv, Passes, NEW o \in Orchs, ~RequestMission(o)
  PROVE  Untouched(o)
<1>1. UNCHANGED <<lock_queue, history, orchVars>> /\ tasks \in Seq(VlmItem)
  BY DEF Passes, sessionVars, conversationVars, SessionInv, MissionInv
<1>2. NoMore(o)
  BY <1>1, PassesShifts, ShiftsNoMore, RequestNoMore
<1> QED
  BY <1>1, <1>2 DEF Untouched, Absent, orchVars

LEMMA SessionUntouched ==
  ASSUME SessionInv, RunInv, SessionCommand, NEW o \in Orchs
  PROVE  Untouched(o)
<1>1. /\ tasks \in Seq(VlmItem) /\ tasks # <<>> /\ Task.type \in SessionTypes
      /\ Task.by \in Orchs /\ Says(Tail(tasks), Chat)
  BY OrchAssumption, SessionSays DEF SessionInv, MissionInv
<1>2. NoMore(o) /\ UNCHANGED orchVars
  BY <1>1, SaysShifts, ShiftsNoMore DEF Says
<1>3. HasCommand(Task.by)
  BY <1>1, CommandCounts, SessionIsCommand
<1>4. Absent(o) => Task.by # o
  BY <1>3 DEF Absent
<1>5. UNCHANGED history \/ history' = [history EXCEPT ![Task.by] = <<"user">>]
  BY DEF SessionCommand, HandleCreateNewSession, HandleDeleteSession, HandleAnalyzePhoto,
         HandleSaveSession, UseSession, conversationVars
<1>6. Absent(o) => history'[o] = history[o]
  BY <1>4, <1>5 DEF SessionInv, VlmTypeOK
<1>7. Absent(o) => lock_queue'[o] = <<>>
  BY SessionLocks
<1> QED
  BY <1>2, <1>6, <1>7 DEF Untouched, orchVars

\* A handler writes to the conversation of its own session.
LEMMA HandlerWrites ==
  ASSUME SessionInv, RunInv, NEW l \in Orchs, HandlerStep(l), NEW o \in Orchs \ {l}
  PROVE  history'[o] = history[o] /\ transaction'[o] = transaction[o]
<1>1. Holder(l).at # "lock" => Holder(l).conv = l
  BY HandlerSteps, HolderFits DEF SessionInv
<1>2. \/ UNCHANGED history
      \/ \E messages : history' = [history EXCEPT ![l] = messages]
  <2>1. CASE Asks(l) \/ ModelAnswers(l)
    BY <1>1, <2>1 DEF Asks, CommitAndSend, ModelAnswers, HeldAt
  <2>2. CASE UNCHANGED history
    BY <2>2
  <2> QED
    BY <2>1, <2>2, HandlerSteps
    DEF SessionInv, Enters, Breaks, Encodes, WriteHistory, WriteImages, conversationVars
<1>3. \/ UNCHANGED transaction
      \/ \E t : transaction' = [transaction EXCEPT ![l] = t]
  <2>1. CASE Asks(l)
    BY <1>1, <2>1 DEF Asks, CommitAndSend
  <2>2. CASE Encodes(l)
    BY <1>1, <2>2 DEF Encodes
  <2>3. CASE Breaks(l)
    BY <1>1, <2>3 DEF Breaks
  <2>4. CASE UNCHANGED transaction
    BY <2>4
  <2> QED
    BY <2>1, <2>2, <2>3, <2>4, HandlerSteps
    DEF SessionInv, Enters, ModelAnswers, WriteHistory, WriteImages, conversationVars
<1> QED
  BY <1>2, <1>3 DEF SessionInv, VlmTypeOK

LEMMA HandlerUntouched ==
  ASSUME SessionInv, RunInv, NEW l \in Orchs, HandlerStep(l), NEW o \in Orchs
  PROVE  Untouched(o)
<1>1. tasks \in Seq(VlmItem) /\ Says(tasks, MissionOf[Holder(l).by]) /\ lock_queue[l] # <<>>
  BY OrchAssumption, HandlerSays DEF SessionInv, MissionInv
<1>2. NoMore(o) /\ UNCHANGED orchVars
  BY <1>1, SaysShifts, ShiftsNoMore DEF Says
<1>3. Absent(o) => lock_queue'[o] = <<>>
  BY HandlerLocks
<1>4. Absent(o) => history'[o] = history[o]
  BY <1>1, HandlerWrites DEF Absent
<1> QED
  BY <1>2, <1>3, <1>4 DEF Untouched, orchVars

LEMMA StepUntouched ==
  ASSUME SessionInv, RunInv, [VlmNext]_allVars, NEW o \in Orchs
  PROVE  MissionMove(o) \/ RequestMission(o) \/ Untouched(o)
<1>1. tasks \in Seq(VlmItem) /\ VlmTypeOK
  BY DEF SessionInv, MissionInv
<1> QED
  BY <1>1, VlmSteps, MoveUntouched, PassesUntouched, SessionUntouched, HandlerUntouched

LEMMA FreshKept ==
  ASSUME SessionInv, RunInv, [VlmNext]_allVars, NEW o \in Orchs
  PROVE  Fresh(o)'
<1>1. CASE MissionMove(o)
  <2>1. state'[o] = "NEW" => state[o] = "NEW" /\ ~Starts(o)
    BY <1>1, MissionUp DEF SessionInv, Parts, Commands, Continues, Starts, Start, Goto,
                           Terminate, MissionInv, MissionTypeOK
  <2>2. ~Starts(o) => state[o] # "NEW"
    BY <1>1, UnderWay DEF SessionInv, MissionMove
  <2> QED
    BY <2>1, <2>2 DEF Fresh
<1>2. CASE RequestMission(o)
  <2>1. UNCHANGED <<lock_queue, history, orchVars>> /\ tasks \in Seq(VlmItem)
    BY <1>2
    DEF RequestMission, RequestStart, vlmVars, sessionVars, conversationVars, SessionInv,
        MissionInv
  <2>2. PICK g \in Glimpses, ok \in PromptOk :
          tasks' = Append(tasks, [type |-> "StartMission", by |-> o, glimpses |-> g,
                                  prompt_ok |-> ok])
    BY <1>2 DEF RequestMission, RequestStart
  <2> DEFINE x == [type |-> "StartMission", by |-> o, glimpses |-> g, prompt_ok |-> ok]
  <2>3. tasks' = Append(tasks, x) /\ x.type \notin CommandTypes
    BY <2>2 DEF CommandTypes, Awaited
  <2> HIDE DEF x
  <2>4. \A i \in 1..Len(tasks') : \/ i \in 1..Len(tasks) /\ tasks'[i] = tasks[i]
                                  \/ tasks'[i] = x
    BY <2>1, <2>3
  <2>5. HasCommand(o)' => HasCommand(o)
    BY <2>3, <2>4 DEF HasCommand
  <2> QED
    BY <2>1, <2>5 DEF RunInv, Fresh, Absent, orchVars
<1>3. CASE Untouched(o)
  <2>1. HasCommand(o)' => HasCommand(o)
    BY <1>3, NoMoreCommands DEF Untouched
  <2> QED
    BY <1>3, <2>1 DEF Untouched, RunInv, Fresh, Absent
<1> QED
  BY <1>1, <1>2, <1>3, StepUntouched

LEMMA FreeKept ==
  ASSUME SessionInv, RunInv, [VlmNext]_allVars, NEW o \in Orchs, Free(o), ~RequestMission(o)
  PROVE  Free(o)'
<1>1. ASSUME NoMore(o)
      PROVE  /\ HasCommand(o)' => HasCommand(o)
             /\ Queued("StartMission", o)' => Queued("StartMission", o)
  BY <1>1, NoMoreCommands DEF Requests
<1>2. CASE Untouched(o)
  BY <1>1, <1>2 DEF Untouched, Free, Unused, Over, Absent
<1>3. CASE MissionMove(o) /\ Over(o)
  <2>1. Ignore(o) /\ UNCHANGED lock_queue
    BY <1>3, OverIgnores DEF SessionInv
  <2>2. NoMore(o) /\ UNCHANGED orchVars
    BY <2>1, IgnoreNoMore DEF SessionInv, Ignore
  <2> QED
    BY <1>1, <1>3, <2>1, <2>2 DEF Free, Over, Absent, orchVars
<1>4. CASE MissionMove(o) /\ Unused(o)
  <2>1. Taken("StartMission") /\ Task.by = o
    BY <1>4, UnderWay DEF SessionInv, MissionMove, Unused
  <2>2. tasks # <<>> /\ tasks \in Seq(VlmItem)
    BY <2>1 DEF Taken, SessionInv, MissionInv
  <2>3. 1 \in 1..Len(tasks) /\ tasks[1] = Task
    BY <2>2 DEF Task
  <2> QED
    BY <1>4, <2>1, <2>3 DEF Unused, Queued, Taken
<1> QED
  BY <1>2, <1>3, <1>4, StepUntouched DEF Free

\* An id is taken up again when nothing of its earlier runs is left.
LEMMA RequestFrees ==
  ASSUME SessionInv, RunInv, Patient, NEW o \in Orchs, RequestMission(o),
         NEW p \in Orchs \ {o}, MissionOf[p] = MissionOf[o]
  PROVE  Free(p)
<1>1. /\ state[p] = "NEW" \/ LeftNothing(p)
      /\ \A i \in 1..Len(tasks) : tasks[i].type # "StartMission"
  BY DEF RequestMission
<1>2. state[p] = "NEW" => Unused(p)
  BY <1>1 DEF Unused, Queued
<1>3. LeftNothing(p) => Over(p)
  <2> SUFFICES ASSUME LeftNothing(p)
               PROVE  Over(p)
    OBVIOUS
  <2>1. state[p] = "ENDED"
    BY DEF LeftNothing, Subscribed, SessionInv, MissionInv, Accounted
  <2>2. lock_queue[p] = <<>>
    <3>1. lock_queue[p] # <<>> => p \in HandlersBy(p)
      BY HolderFits DEF HandlersBy, Fits
    <3> QED
      BY <3>1 DEF LeftNothing
  <2> QED
    BY <2>1, <2>2 DEF LeftNothing, Over, Absent, HasCommand
<1> QED
  BY <1>1, <1>2, <1>3 DEF Free

LEMMA OneRequest ==
  ASSUME tasks \in Seq(VlmItem), NEW o \in Orchs, NEW p \in Orchs,
         RequestMission(o), RequestMission(p)
  PROVE  o = p
<1>1. ASSUME NEW r \in Orchs, RequestMission(r)
      PROVE  tasks'[Len(tasks) + 1].by = r
  <2>1. PICK g \in Glimpses, ok \in PromptOk :
          tasks' = Append(tasks, [type |-> "StartMission", by |-> r, glimpses |-> g,
                                  prompt_ok |-> ok])
    BY <1>1 DEF RequestMission, RequestStart
  <2> DEFINE x == [type |-> "StartMission", by |-> r, glimpses |-> g, prompt_ok |-> ok]
  <2>2. tasks' = Append(tasks, x) /\ x.by = r
    BY <2>1
  <2> HIDE DEF x
  <2> QED
    BY <2>2
<1> QED
  BY <1>1

LEMMA RunStep ==
  ASSUME Patient, SessionInv, RunInv, [VlmNext]_allVars
  PROVE  RunInv'
<1>1. Locks'
  <2>1. UNCHANGED lock_queue => Locks'
    BY DEF RunInv, Locks
  <2>2. tasks \in Seq(VlmItem) /\ VlmTypeOK
    BY DEF SessionInv, MissionInv
  <2>3. CASE \E p \in Orchs : MissionMove(p)
    BY <2>1, <2>3 DEF MissionMove, vlmVars, sessionVars
  <2>4. CASE Passes
    BY <2>1, <2>4 DEF Passes, sessionVars
  <2>5. CASE SessionCommand
    BY <2>5, SessionLocks
  <2>6. CASE \E l \in Orchs : HandlerStep(l)
    BY <2>6, HandlerLocks
  <2> QED
    BY <2>2, <2>3, <2>4, <2>5, <2>6, VlmSteps
<1>2. ASSUME NEW o \in Orchs, NEW p \in Orchs, o # p, MissionOf[o] = MissionOf[p],
             ~Free(o)', ~Free(p)'
      PROVE  FALSE
  <2>1. tasks \in Seq(VlmItem)
    BY DEF SessionInv, MissionInv
  <2>2. CASE RequestMission(o)
    BY <1>2, <2>1, <2>2, OneRequest, RequestFrees, FreeKept
  <2>3. CASE RequestMission(p)
    BY <1>2, <2>1, <2>3, OneRequest, RequestFrees, FreeKept
  <2>4. CASE ~RequestMission(o) /\ ~RequestMission(p)
    BY <1>2, <2>4, FreeKept DEF RunInv, Apart
  <2> QED
    BY <2>2, <2>3, <2>4
<1>3. Apart'
  BY <1>2 DEF Apart
<1>4. \A o \in Orchs : Fresh(o)'
  BY FreshKept
<1> QED
  BY <1>1, <1>3, <1>4 DEF RunInv

-----------------------------------------------------------------------------
(* Questions under way *)

\* Analyses among the handlers of a lock.
NoAnswer(r) == \A i \in 1..Len(r) : r[i].kind # "analysis"
OneAnswer(r) == \A i, j \in 1..Len(r) : r[i].kind = "analysis" /\ r[j].kind = "analysis" => i = j
FewerAnswers(r, t) == (NoAnswer(r) => NoAnswer(t)) /\ (OneAnswer(r) => OneAnswer(t))

LEMMA AnswersWithin ==
  ASSUME NEW r, NEW t, Len(r) \in Nat, Len(t) \in Nat, NEW s \in {0, 1},
         \A i \in 1..Len(t) : i + s \in 1..Len(r) /\ t[i].kind = r[i + s].kind
  PROVE  FewerAnswers(r, t)
<1>1. ASSUME NEW i \in 1..Len(t), NEW j \in 1..Len(t), i + s = j + s
      PROVE  i = j
  BY <1>1
<1> QED
  BY <1>1 DEF FewerAnswers, NoAnswer, OneAnswer

LEMMA ContinueAnswers ==
  ASSUME VlmTypeOK, NEW l \in Orchs, lock_queue[l] # <<>>, NEW h \in Handler, Continue(l, h),
         h.kind = Holder(l).kind, NEW o \in Orchs
  PROVE  FewerAnswers(lock_queue[o], lock_queue'[o])
<1> DEFINE r == lock_queue[o]
           t == lock_queue'[o]
<1>1. r \in Seq(Handler) /\ lock_queue[l] \in Seq(Handler) /\ Holder(l) = lock_queue[l][1]
  BY QueueTyped
<1>2. /\ t \in Seq(Handler) /\ (o # l => t = r)
      /\ o = l => /\ Len(t) = Len(r) /\ t[1] = h
                  /\ \A i \in 2..Len(r) : t[i] = r[i]
  BY ContinueQueue DEF OthersWait
<1>3. o = l => Holder(l) = r[1]
  BY <1>1
<1> HIDE DEF r, t
<1>4. /\ Len(r) \in Nat /\ Len(t) \in Nat
      /\ \A i \in 1..Len(r) : i = 1 \/ i \in 2..Len(r)
      /\ \A i \in 1..Len(t) : i + 0 = i
  BY <1>1, <1>2 DEF r
<1>5. \A i \in 1..Len(t) : i + 0 \in 1..Len(r) /\ t[i].kind = r[i + 0].kind
  BY <1>2, <1>3, <1>4
<1>6. FewerAnswers(r, t)
  BY <1>4, <1>5, AnswersWithin
<1> QED
  BY <1>6 DEF r, t

LEMMA ReleaseAnswers ==
  ASSUME VlmTypeOK, NEW l \in Orchs, lock_queue[l] # <<>>, Release(l), NEW o \in Orchs
  PROVE  /\ FewerAnswers(lock_queue[o], lock_queue'[o])
         /\ Holder(l).kind = "analysis" /\ OneAnswer(lock_queue[l]) => NoAnswer(lock_queue'[l])
<1> DEFINE r == lock_queue[l]
           t == lock_queue'[l]
<1>1. r \in Seq(Handler) /\ Holder(l) = r[1] /\ 1 \in 1..Len(r)
  BY QueueTyped
<1>2. /\ t \in Seq(Handler) /\ \A k \in Orchs \ {l} : lock_queue'[k] = lock_queue[k]
      /\ \A i \in 1..Len(t) : i + 1 \in 2..Len(r) /\ t[i] = r[i + 1]
  BY ReleaseQueue DEF OthersWait
<1> HIDE DEF r, t
<1>3. Len(r) \in Nat /\ Len(t) \in Nat /\ \A i \in 2..Len(r) : i \in 1..Len(r) /\ i # 1
  BY <1>1, <1>2
<1>4. FewerAnswers(r, t)
  BY <1>2, <1>3, AnswersWithin
<1>5. Holder(l).kind = "analysis" /\ OneAnswer(r) => NoAnswer(t)
  BY <1>1, <1>2, <1>3 DEF OneAnswer, NoAnswer
<1>6. FewerAnswers(lock_queue[o], lock_queue[o])
  BY DEF FewerAnswers
<1> QED
  BY <1>2, <1>4, <1>5, <1>6 DEF r, t

LEMMA JoinAnswers ==
  ASSUME VlmTypeOK, NEW l \in Orchs, NEW h \in Handler,
         lock_queue' = [lock_queue EXCEPT ![l] = Append(@, h)], NEW o \in Orchs
  PROVE  /\ o # l \/ h.kind # "analysis" => FewerAnswers(lock_queue[o], lock_queue'[o])
         /\ NoAnswer(lock_queue[l]) => OneAnswer(lock_queue'[l])
<1> DEFINE r == lock_queue[l]
           t == lock_queue'[l]
<1>1. /\ \A k \in Orchs \ {l} : lock_queue'[k] = lock_queue[k]
      /\ Len(t) = Len(r) + 1 /\ Len(r) \in Nat /\ t[Len(t)] = h
      /\ \A i \in 1..Len(r) : t[i] = r[i]
  BY JoinQueue DEF OthersWait
<1> HIDE DEF r, t
<1>2. \A i \in 1..Len(t) : i = Len(t) \/ i \in 1..Len(r)
  BY <1>1
<1>3. NoAnswer(r) => OneAnswer(t)
  BY <1>1, <1>2 DEF NoAnswer, OneAnswer
<1>4. h.kind # "analysis" => FewerAnswers(r, t)
  BY <1>1, <1>2 DEF NoAnswer, OneAnswer, FewerAnswers
<1>5. FewerAnswers(lock_queue[o], lock_queue[o])
  BY DEF FewerAnswers
<1> QED
  BY <1>1, <1>3, <1>4, <1>5 DEF r, t

\* The queue after a step that is not of a mission: nothing else is said to o.
LEMMA PublishTokens ==
  ASSUME tasks \in Seq(VlmItem), NEW o, NEW e \in VlmItem, ~Token(Analysing, e, o), NEW q,
         tasks' = q \/ tasks' = Publish(q, e),
         q = tasks \/ (tasks # <<>> /\ q = Tail(tasks))
  PROVE  /\ Fewer(Analysing, tasks, tasks', o)
         /\ None(Analysing, q, o) => None(Analysing, tasks', o)
<1>t. Analysing \in Topics
  BY DEF Topics
<1>1. q \in Seq(VlmItem) /\ Fewer(Analysing, tasks, q, o)
  <2>1. CASE q = tasks
    BY <2>1 DEF Fewer
  <2>2. CASE tasks # <<>> /\ q = Tail(tasks)
    BY <1>t, <2>2, TailTokens
  <2> QED
    BY <2>1, <2>2
<1>2. Same(Analysing, q, Append(q, e), o)
  BY <1>t, <1>1, AppendTokens
<1>3. tasks' = q \/ tasks' = Append(q, e)
  BY DEF Publish
<1> QED
  BY <1>1, <1>2, <1>3 DEF Same, Fewer

LEMMA PassesTokens ==
  ASSUME tasks \in Seq(VlmItem), Passes, NEW o
  PROVE  Fewer(Analysing, tasks, tasks', o)
<1>t. Analysing \in Topics
  BY DEF Topics
<1>1. CASE tasks' = tasks
  BY <1>1 DEF Fewer
<1>2. CASE tasks # <<>> /\ tasks' = Tail(tasks)
  BY <1>t, <1>2, TailTokens
<1>3. CASE \E p \in Orchs : RequestMission(p)
  <2>1. PICK p \in Orchs, g \in Glimpses, ok \in PromptOk :
          tasks' = Append(tasks, [type |-> "StartMission", by |-> p, glimpses |-> g,
                                  prompt_ok |-> ok])
    BY <1>3 DEF RequestMission, RequestStart
  <2> DEFINE x == [type |-> "StartMission", by |-> p, glimpses |-> g, prompt_ok |-> ok]
  <2>2. x \in VlmItem /\ ~Token(Analysing, x, o)
    BY DEF VlmItem, StartRequest, Token, Analysing
  <2>3. tasks' = Append(tasks, x)
    BY <2>1
  <2> HIDE DEF x
  <2> QED
    BY <1>t, <2>2, <2>3, AppendTokens DEF Same
<1>4. CASE \E e \in VlmItem : Remarks(e) /\ tasks' = Publish(tasks, e)
  <2>1. PICK e \in VlmItem : Remarks(e) /\ tasks' = Publish(tasks, e)
    BY <1>4
  <2>2. ~Token(Analysing, e, o)
    BY <2>1, FarewellTypes, CommandIsNoEvent DEF Remarks, Token, Analysing
  <2> QED
    BY <2>1, <2>2, PublishTokens
<1> QED
  BY <1>1, <1>2, <1>3, <1>4 DEF Passes

\* An error is no answer.
LEMMA ErrorTokens ==
  ASSUME NEW m \in Missions, NEW type \in ChatNotice, NEW o
  PROVE  ChatNews(type, m) \in VlmItem /\ ~Token(Analysing, ChatNews(type, m), o)
<1>1. ~Token(Analysing, ChatNews(type, m), o)
  BY DEF ChatNews, Token, Analysing, ChatNotice
<1> QED
  BY <1>1, NewsTyped

-----------------------------------------------------------------------------
(* How a step changes the questions under way *)

\* None is put: there are no more than before.
Quietly(o) == /\ Fewer(Analysing, tasks, tasks', o)
              /\ FewerAnswers(lock_queue[o], lock_queue'[o])

\* A question leaves the queue for a handler, or an answer comes from one.
TakesUp(o) == /\ ~None(Analysing, tasks, o)
              /\ One(Analysing, tasks, o) => None(Analysing, tasks', o)
              /\ NoAnswer(lock_queue[o]) => OneAnswer(lock_queue'[o])
Replies(o) == /\ ~NoAnswer(lock_queue[o])
              /\ OneAnswer(lock_queue[o]) => NoAnswer(lock_queue'[o])
              /\ None(Analysing, tasks, o) => One(Analysing, tasks', o)

LEMMA SessionQuestion ==
  ASSUME SessionInv, RunInv, SessionCommand, NEW o \in Orchs
  PROVE  Quietly(o) \/ TakesUp(o)
<1> DEFINE t == Task.by
<1>t. Analysing \in Topics
  BY DEF Topics
<1>1. /\ tasks \in Seq(VlmItem) /\ tasks # <<>> /\ Task.type \in SessionTypes
      /\ t \in Orchs /\ Chat \in Missions
  <2>1. /\ tasks \in Seq(VlmItem) /\ tasks # <<>> /\ Task.type \in SessionTypes /\ t \in Orchs
    BY OrchAssumption, SessionSays DEF SessionInv, MissionInv
  <2> QED
    BY <2>1, OrchAssumption DEF Chat, OrchAssumption
<1>2. ASSUME UNCHANGED lock_queue, NEW error \in ChatNotice,
             \/ tasks' = Tail(tasks)
             \/ tasks' = Publish(Tail(tasks), ChatNews(error, Chat))
      PROVE  Quietly(o)
  <2>1. ChatNews(error, Chat) \in VlmItem /\ ~Token(Analysing, ChatNews(error, Chat), o)
    BY <1>1, ErrorTokens
  <2>2. Fewer(Analysing, tasks, tasks', o)
    BY <1>1, <1>2, <2>1, PublishTokens
  <2> QED
    BY <1>2, <2>2 DEF Quietly, FewerAnswers
<1>3. ASSUME NEW kind \in {"analysis", "save"}, NEW error \in ChatNotice,
             UseSession(NewHandler(kind), error), o # t \/ kind # "analysis"
      PROVE  Quietly(o)
  <2>1. CASE /\ UNCHANGED lock_queue
             /\ tasks' = Publish(Tail(tasks), ChatNews(error, Chat))
    BY <1>2, <2>1
  <2>2. CASE /\ tasks' = Tail(tasks)
             /\ \E h \in Handler : /\ h.kind = kind
                                   /\ lock_queue' = [lock_queue EXCEPT ![t] = Append(@, h)]
    <3>1. Fewer(Analysing, tasks, tasks', o)
      BY <1>t, <1>1, <2>2, TailTokens
    <3>2. FewerAnswers(lock_queue[o], lock_queue'[o])
      <4> HIDE DEF t
      <4> QED
        BY <1>1, <1>3, <2>2, JoinAnswers DEF SessionInv
    <3> QED
      BY <3>1, <3>2 DEF Quietly
  <2> QED
    BY <1>1, <1>3, <2>1, <2>2, SessionJoins
<1>4. CASE HandleCreateNewSession \/ HandleDeleteSession
  BY <1>2, <1>4 DEF HandleCreateNewSession, HandleDeleteSession, ChatNotice
<1>5. CASE HandleSaveSession
  BY <1>3, <1>5 DEF HandleSaveSession, ChatNotice
<1>6. CASE HandleAnalyzePhoto
  <2>1. UseSession(NewHandler("analysis"), "VlmErrorOccurred") /\ Task.type = "AnalyzePhoto"
    BY <1>6 DEF HandleAnalyzePhoto, Taken
  <2>2. CASE o # t
    BY <1>3, <2>1, <2>2 DEF ChatNotice
  <2>3. CASE o = t
    <3>1. Token(Analysing, Task, o) /\ 1 \in 1..Len(tasks) /\ Task = tasks[1]
      BY <1>1, <2>1, <2>3 DEF Token, Analysing, Task
    <3>2. CASE UNCHANGED lock_queue /\ tasks' = Publish(Tail(tasks), ChatNews("VlmErrorOccurred", Chat))
      BY <1>2, <3>2 DEF ChatNotice
    <3>3. CASE /\ tasks' = Tail(tasks)
               /\ \E h \in Handler : lock_queue' = [lock_queue EXCEPT ![t] = Append(@, h)]
      <4>1. ~None(Analysing, tasks, o) /\ (One(Analysing, tasks, o) => None(Analysing, tasks', o))
        BY <1>t, <1>1, <3>1, <3>3, TailTokens DEF None, Task
      <4>2. NoAnswer(lock_queue[t]) => OneAnswer(lock_queue'[t])
        <5> HIDE DEF t
        <5> QED
          BY <1>1, <3>3, JoinAnswers DEF SessionInv
      <4> QED
        BY <2>3, <4>1, <4>2 DEF TakesUp
    <3> QED
      BY <1>1, <2>1, <3>2, <3>3, SessionJoins DEF ChatNotice
  <2> QED
    BY <2>2, <2>3
<1> QED
  BY <1>4, <1>5, <1>6 DEF SessionCommand

LEMMA HandlerQuestion ==
  ASSUME SessionInv, RunInv, NEW l \in Orchs, HandlerStep(l), NEW o \in Orchs
  PROVE  Quietly(o) \/ (o = l /\ ModelAnswers(l) /\ Replies(o))
<1>1. tasks \in Seq(VlmItem) /\ lock_queue[l] # <<>> /\ VlmTypeOK
  BY HandlerSteps DEF SessionInv, MissionInv
<1>2. /\ Holder(l) \in Handler /\ Fits(l, Holder(l)) /\ ~Free(l)
      /\ Holder(l) = lock_queue[l][1] /\ 1 \in 1..Len(lock_queue[l])
  BY <1>1, HolderFits
<1>3. Holder(l).by = l /\ MissionOf[l] \in Missions
  BY <1>2, OrchAssumption DEF Fits, OrchAssumption
<1> DEFINE e == ErrorOf(Holder(l))
<1>4. e \in VlmItem /\ ~Token(Analysing, e, o)
  BY <1>3, ErrorTokens DEF ErrorOf, ChatNotice
<1> HIDE DEF e
<1>5. tasks' = tasks \/ tasks' = Publish(tasks, e) => Fewer(Analysing, tasks, tasks', o)
  BY <1>1, <1>4, PublishTokens
<1>6. ASSUME NEW h \in Handler, Continue(l, h), h.kind = Holder(l).kind, UNCHANGED tasks
      PROVE  Quietly(o)
  BY <1>1, <1>5, <1>6, ContinueAnswers DEF Quietly
<1>7. CASE Release(l) /\ (Breaks(l) \/ WriteImages(l))
  <2>1. tasks' = tasks \/ tasks' = Publish(tasks, e)
    BY <1>7 DEF Breaks, Fail, WriteImages, e
  <2> QED
    BY <1>1, <1>5, <1>7, <2>1, ReleaseAnswers DEF Quietly
<1>8. CASE Release(l) /\ ModelAnswers(l)
  <2>1. FewerAnswers(lock_queue[o], lock_queue'[o])
    BY <1>1, <1>8, ReleaseAnswers
  <2>2. Holder(l).kind = "analysis"
    BY <1>2, <1>8 DEF ModelAnswers, HeldAt, Fits
  <2>3. ~NoAnswer(lock_queue[l]) /\ (OneAnswer(lock_queue[l]) => NoAnswer(lock_queue'[l]))
    <3>1. ~NoAnswer(lock_queue[l])
      BY <1>2, <2>2 DEF NoAnswer
    <3> QED
      BY <1>1, <1>8, <2>2, <3>1, ReleaseAnswers
  <2>4. CASE tasks' = Publish(tasks, e)
    BY <1>5, <2>1, <2>4 DEF Quietly
  <2>5. CASE \E found \in BOOLEAN, move \in Moves :
               tasks' = Publish(tasks, [type |-> "VlmAnalysisCompleted",
                                        mission |-> MissionOf[l],
                                        found |-> found, move |-> move, to |-> Subscribed])
    <3>1. PICK found \in BOOLEAN, move \in Moves :
            tasks' = Publish(tasks, [type |-> "VlmAnalysisCompleted",
                                     mission |-> MissionOf[l],
                                     found |-> found, move |-> move, to |-> Subscribed])
      BY <2>5
    <3> DEFINE x == [type |-> "VlmAnalysisCompleted", mission |-> MissionOf[l],
                     found |-> found, move |-> move, to |-> Subscribed]
    <3>2. x \in Event
      BY <1>3 DEF Event, Subscribed
    <3>3. x \in VlmItem /\ x.mission = MissionOf[l] /\ x.to = Subscribed /\ tasks' = Publish(tasks, x)
          /\ x.type = "VlmAnalysisCompleted"
      BY <3>1, <3>2, ItemIs DEF VlmItem
    <3> HIDE DEF x
    <3>4. CASE Token(Analysing, x, o)
      <4>1. o \in Subscribed /\ MissionOf[o] = MissionOf[l]
        BY <3>3, <3>4 DEF Token, Analysing
      <4>2. o = l
        <5>1. ~Free(o)
          BY <4>1, LiveIsNotFree DEF RunInv, Live
        <5> QED
          BY <1>2, <4>1, <5>1 DEF RunInv, Apart
      <4>3. None(Analysing, tasks, o) => One(Analysing, tasks', o)
        <5>1. Analysing \in Topics
          BY DEF Topics
        <5>2. tasks' = Append(tasks, x)
          BY <3>3, <4>1 DEF Publish
        <5> QED
          BY <1>1, <3>3, <3>4, <5>1, <5>2, AppendTokens DEF Only
      <4> QED
        BY <1>8, <2>3, <4>2, <4>3 DEF Replies
    <3>5. CASE ~Token(Analysing, x, o)
      <4>1. Fewer(Analysing, tasks, tasks', o)
        BY <1>1, <3>3, <3>5, PublishTokens
      <4> QED
        BY <2>1, <4>1 DEF Quietly
    <3> QED
      BY <3>4, <3>5
  <2> QED
    BY <1>3, <1>8, <2>4, <2>5 DEF ModelAnswers, e
<1> QED
  BY <1>6, <1>7, <1>8, HandlerMoves
  DEF Enters, Encodes, Asks, WriteHistory

\* No question of o is queued or under way.
AtRest(o, q, r) == None(Analysing, q, o) /\ NoAnswer(r)

\* One question at most is put, taken up and answered; it is the mission's only
\* while it waits for the VLM, or when it is over.
AskedOnce(o) == \A q, r : q = tasks /\ r = lock_queue[o] =>
  /\ One(Analysing, q, o) /\ OneAnswer(r)
  /\ None(Analysing, q, o) \/ NoAnswer(r)
  /\ state[o] \notin {"WAITING_FOR_VLM", "ENDED"} \/ start_at[o] \in Starting
       => AtRest(o, q, r)

Creating(o) == Queued("CreateNewSession", o) => start_at[o] = "CreateNewSession"

LEMMA MoveQuestion ==
  ASSUME SessionInv, NEW p \in Orchs, MissionMove(p), NEW o \in Orchs
  PROVE  Quietly(o) \/ (o = p /\ HandlePhotoAndTelemetry(o))
<1>1. Analysing \in Topics /\ Analysing # Confirming
  BY DEF Topics, Analysing, Confirming
<1>2. Opens(Analysing, p) => HandlePhotoAndTelemetry(p)
  BY <1>1 DEF Opens
<1>3. lock_queue' = lock_queue
  BY DEF MissionMove, vlmVars, sessionVars
<1>4. Follows(VlmItem, p, tasks')
  BY MissionUp DEF SessionInv
<1>5. CASE o = p => ~Opens(Analysing, p)
  BY <1>1, <1>3, <1>4, <1>5, VlmCarries, MissionTokens
  DEF SessionInv, MissionInv, Quietly, FewerAnswers
<1> QED
  BY <1>2, <1>5

\* A mission that waits for the VLM goes on with the answer.
LEMMA LeavesVlm ==
  ASSUME MissionInv(VlmItem), NEW o \in Orchs, MissionMove(o), state[o] = "WAITING_FOR_VLM"
  PROVE  \/ state'[o] \in {"WAITING_FOR_VLM", "ENDED"}
         \/ HandleVlmAnalysis(o) /\ state'[o] = "WAITING_FOR_USER"
<1> USE DEF MissionInv, MissionTypeOK, Goto, Terminate
<1>1. \A type : Handles(o, type) => "WAITING_FOR_VLM" \in Expected(type)
  BY HandlesEvent
<1>2. ~(HandlePhotoAndTelemetry(o) \/ UserConfirms(o) \/ UserWarns(o)
          \/ HandleMoveStarted(o) \/ MoveSucceeded(o) \/ MoveFailed(o)
          \/ HandleDroneConnectionLost(o) \/ HandleDroneReconnected(o))
  BY <1>1
  DEF HandlePhotoAndTelemetry, UserConfirms, UserWarns, HandleMoveStarted, MoveSucceeded,
      MoveFailed, HandleDroneConnectionLost, HandleDroneReconnected, Expected
<1>3. HandleVlmAnalysis(o) => state'[o] \in {"WAITING_FOR_USER", "ENDED"}
  BY DEF HandleVlmAnalysis
<1>4. UserCancels(o) \/ HandleFatal(o) => state'[o] = "ENDED"
  BY DEF UserCancels, HandleFatal
<1>5. Ignore(o) \/ AwaitedDone(o) \/ StartSave(o) \/ StartFirstPhoto(o) => state' = state
  BY DEF Ignore, AwaitedDone, StartSave, StartFirstPhoto, orchVars
<1>6. ~Starts(o) /\ ~StartSearch(o)
  BY DEF Starts, Start, StartSearch, Awake, Accounted, Starting
<1> QED
  BY <1>2, <1>3, <1>4, <1>5, <1>6 DEF MissionMove, Handle

\* What start() is suspended on.
LEMMA StartMoves ==
  ASSUME MissionTypeOK, NEW o \in Orchs, MissionMove(o)
  PROVE  \/ start_at'[o] = start_at[o]
         \/ /\ Starts(o) /\ state[o] = "NEW"
            /\ start_at'[o] \in {"CreateNewSession", "failed"}
            /\ state'[o] = "IDLE" => start_at'[o] = "CreateNewSession"
         \/ /\ AwaitedDone(o) /\ state'[o] = state[o] /\ start_at[o] \in Awaited
            /\ start_at[o] = "CreateNewSession" => start_at'[o] = "created"
            /\ start_at[o] = "SaveSession" => start_at'[o] = "saved"
            /\ start_at[o] = "StartRecording" => start_at'[o] = "recorded"
         \/ StartSave(o) /\ start_at[o] = "created" /\ start_at'[o] = "SaveSession"
         \/ /\ StartSearch(o) /\ start_at[o] = "saved"
            /\ start_at'[o] \in {"StartRecording", "finished"}
         \/ start_at[o] = "recorded" /\ start_at'[o] = "finished"
<1> USE DEF MissionTypeOK, Goto, Terminate
<1>1. CASE Starts(o)
  BY <1>1 DEF Starts, Start
<1>2. CASE AwaitedDone(o)
  BY <1>2 DEF AwaitedDone
<1>3. CASE StartSave(o)
  BY <1>3 DEF StartSave, Awake
<1>4. CASE StartSearch(o)
  BY <1>4 DEF StartSearch, Awake
<1>5. CASE StartFirstPhoto(o)
  BY <1>5 DEF StartFirstPhoto, Awake
<1>6. CASE \/ HandlePhotoAndTelemetry(o) \/ HandleVlmAnalysis(o)
           \/ UserConfirms(o) \/ UserWarns(o) \/ UserCancels(o)
           \/ HandleMoveStarted(o) \/ MoveSucceeded(o) \/ MoveFailed(o)
           \/ HandleDroneConnectionLost(o) \/ HandleDroneReconnected(o)
           \/ HandleFatal(o) \/ Ignore(o)
  BY <1>6
  DEF HandlePhotoAndTelemetry, HandleVlmAnalysis, UserConfirms, UserWarns, UserCancels,
      HandleMoveStarted, MoveSucceeded, MoveFailed, HandleDroneConnectionLost,
      HandleDroneReconnected, HandleFatal, Ignore, orchVars
<1> QED
  BY <1>1, <1>2, <1>3, <1>4, <1>5, <1>6 DEF MissionMove, Handle

\* The answer is handled once.
LEMMA AnswerHandled ==
  ASSUME SessionInv, NEW o \in Orchs, HandleVlmAnalysis(o)
  PROVE  /\ ~None(Analysing, tasks, o)
         /\ One(Analysing, tasks, o) => None(Analysing, Rest(o), o)
         /\ One(Analysing, tasks, o) /\ state'[o] = "WAITING_FOR_USER"
              => None(Analysing, tasks', o)
<1>t. Analysing \in Topics
  BY DEF Topics
<1>1. tasks \in Seq(VlmItem) /\ Handles(o, Analysing.answered) /\ EventFor(o)
  BY HandlesEvent DEF SessionInv, MissionInv, HandleVlmAnalysis, Analysing
<1>2. ~None(Analysing, tasks, o) /\ (One(Analysing, tasks, o) => None(Analysing, Rest(o), o))
  BY <1>t, <1>1, VlmCarries, AnsweredTokens
<1>3. Rest(o) \in Seq(VlmItem)
  BY <1>t, <1>1, VlmCarries, RestTokens
<1> DEFINE q == Rest(o)
           a == Await(o, "SaveSession")
           x == Asked(o, Task.move)
<1>4. state'[o] = "WAITING_FOR_USER" => tasks' = Append(Append(q, a), x)
  BY DEF HandleVlmAnalysis, Goto, Terminate, SessionInv, MissionInv, MissionTypeOK, Asked
<1>5. Task.move \in Moves
  BY <1>1, TaskCarries, VlmCarries DEF HandleVlmAnalysis, Handles, Proposing
<1>6. a \in VlmItem /\ x \in VlmItem
  BY <1>5, VlmCarries DEF Carries, OwnItems, Awaited
<1>7. ~Token(Analysing, a, o) /\ ~Token(Analysing, x, o)
  BY DEF Token, Analysing, Await, Asked
<1> HIDE DEF q, a, x
<1>8. q \in Seq(VlmItem)
  BY <1>3 DEF q
<1>9. /\ Append(q, a) \in Seq(VlmItem)
      /\ None(Analysing, q, o) => None(Analysing, Append(q, a), o)
  BY <1>t, <1>6, <1>7, <1>8, AppendTokens DEF Same, Fewer
<1>10. None(Analysing, q, o) => None(Analysing, Append(Append(q, a), x), o)
  BY <1>t, <1>6, <1>7, <1>9, AppendTokens DEF Same, Fewer
<1> QED
  BY <1>2, <1>4, <1>10 DEF q

\* A question is put: of the photo the mission waited for.
LEMMA PhotoAsked ==
  ASSUME SessionInv, NEW o \in Orchs, HandlePhotoAndTelemetry(o)
  PROVE  /\ state[o] = "WAITING_FOR_DRONE" /\ state'[o] = "WAITING_FOR_VLM"
         /\ start_at[o] \notin Starting /\ start_at' = start_at
         /\ None(Analysing, tasks, o) => One(Analysing, tasks', o)
<1>t. Analysing \in Topics
  BY DEF Topics
<1>1. tasks \in Seq(VlmItem) /\ EventFor(o) /\ Task.type = "PhotoWithTelemetryReceived"
  BY HandlesEvent DEF SessionInv, MissionInv, HandlePhotoAndTelemetry
<1>2. state[o] = "WAITING_FOR_DRONE"
  BY HandlesEvent DEF HandlePhotoAndTelemetry, Expected
<1>3. state'[o] = "WAITING_FOR_VLM" /\ start_at' = start_at
  BY DEF HandlePhotoAndTelemetry, Goto, SessionInv, MissionInv, MissionTypeOK
<1>4. start_at[o] \notin Starting
  BY <1>2 DEF SessionInv, MissionInv, Accounted
<1> DEFINE q == Rest(o)
           x == Analyze(o, Task.photo, is_warning[o])
<1>5. tasks' = Append(q, x)
  BY DEF HandlePhotoAndTelemetry, Analyze
<1>6. is_warning[o] \in BOOLEAN
  BY DEF SessionInv, MissionInv, MissionTypeOK
<1>7. x \in VlmItem
  BY <1>1, <1>6, TaskCarries, VlmCarries
<1>8. Token(Analysing, x, o)
  BY DEF Token, Analysing, Analyze
<1>9. q \in Seq(VlmItem) /\ Fewer(Analysing, tasks, q, o)
  BY <1>t, <1>1, VlmCarries, RestTokens
<1> HIDE DEF q, x
<1>10. None(Analysing, tasks, o) => One(Analysing, Append(q, x), o)
  BY <1>t, <1>7, <1>8, <1>9, AppendTokens DEF Fewer, Only
<1> QED
  BY <1>2, <1>3, <1>4, <1>5, <1>10

LEMMA AskedByMove ==
  ASSUME SessionInv, NEW p \in Orchs, MissionMove(p), NEW o \in Orchs, AskedOnce(o)
  PROVE  AskedOnce(o)'
<1> DEFINE q == tasks
           r == lock_queue[o]
           t == tasks'
<1>1. /\ One(Analysing, q, o) /\ OneAnswer(r)
      /\ None(Analysing, q, o) \/ NoAnswer(r)
      /\ state[o] \notin {"WAITING_FOR_VLM", "ENDED"} \/ start_at[o] \in Starting
           => None(Analysing, q, o) /\ NoAnswer(r)
  BY DEF AskedOnce, AtRest
<1>2. lock_queue'[o] = r
  BY DEF MissionMove, vlmVars, sessionVars
<1>3. MissionInv(VlmItem)
  BY DEF SessionInv
<1> SUFFICES /\ One(Analysing, t, o)
             /\ None(Analysing, t, o) \/ NoAnswer(r)
             /\ state'[o] \notin {"WAITING_FOR_VLM", "ENDED"} \/ start_at'[o] \in Starting
                  => None(Analysing, t, o) /\ NoAnswer(r)
  <2> HIDE DEF r, t
  <2>1. lock_queue'[o] = r /\ tasks' = t
    BY <1>2 DEF t
  <2> QED
    BY <1>1, <2>1 DEF AskedOnce, AtRest
<1>4. CASE Quietly(o) /\ o # p
  <2>1. state'[o] = state[o] /\ start_at'[o] = start_at[o]
    BY <1>4, MissionUp DEF SessionInv
  <2>2. (None(Analysing, q, o) => None(Analysing, t, o)) /\ (One(Analysing, q, o) => One(Analysing, t, o))
    BY <1>4 DEF Quietly, Fewer
  <2> HIDE DEF q, r, t
  <2> QED
    BY <1>1, <2>1, <2>2
<1>5. CASE Quietly(o) /\ o = p
  <2>2. (None(Analysing, q, o) => None(Analysing, t, o)) /\ (One(Analysing, q, o) => One(Analysing, t, o))
    BY <1>5 DEF Quietly, Fewer
  <2>3. CASE state[o] \notin {"WAITING_FOR_VLM", "ENDED"} \/ start_at[o] \in Starting
    <3> HIDE DEF q, r, t
    <3> QED
      BY <1>1, <2>2, <2>3
  <2>4. CASE state[o] \in {"WAITING_FOR_VLM", "ENDED"} /\ start_at[o] \notin Starting
    <3>1. start_at'[o] \notin Starting
      BY <1>3, <1>5, <2>4, StartMoves DEF Starting, MissionInv, Awaited
    <3>2. state[o] = "ENDED" => state'[o] = "ENDED"
      BY <1>5, MissionUp DEF SessionInv, Parts, Commands, Continues
    <3>3. \/ state'[o] \in {"WAITING_FOR_VLM", "ENDED"}
          \/ HandleVlmAnalysis(o) /\ state'[o] = "WAITING_FOR_USER"
      BY <1>3, <1>5, <2>4, <3>2, LeavesVlm
    <3>4. HandleVlmAnalysis(o) /\ state'[o] = "WAITING_FOR_USER"
            => None(Analysing, t, o) /\ NoAnswer(r)
      BY <1>1, AnswerHandled
    <3> HIDE DEF q, r, t
    <3> QED
      BY <1>1, <2>2, <3>1, <3>3, <3>4
  <2> QED
    BY <2>3, <2>4
<1>6. CASE o = p /\ HandlePhotoAndTelemetry(o)
  <2>1. /\ state[o] = "WAITING_FOR_DRONE" /\ state'[o] = "WAITING_FOR_VLM"
        /\ start_at'[o] \notin Starting
        /\ None(Analysing, q, o) => One(Analysing, t, o)
    BY <1>6, PhotoAsked
  <2> HIDE DEF q, r, t
  <2> QED
    BY <1>1, <2>1
<1> QED
  BY <1>4, <1>5, <1>6, MoveQuestion

LEMMA AskedKept ==
  ASSUME SessionInv, RunInv, [VlmNext]_allVars, NEW o \in Orchs, AskedOnce(o)
  PROVE  AskedOnce(o)'
<1>1. tasks \in Seq(VlmItem) /\ VlmTypeOK
  BY DEF SessionInv, MissionInv
<1>2. ASSUME Quietly(o) \/ TakesUp(o) \/ Replies(o), UNCHANGED orchVars
      PROVE  AskedOnce(o)'
  <2> DEFINE q == tasks
             r == lock_queue[o]
             t == tasks'
             k == lock_queue'[o]
  <2>1. /\ One(Analysing, q, o) /\ OneAnswer(r)
        /\ None(Analysing, q, o) \/ NoAnswer(r)
        /\ state[o] \notin {"WAITING_FOR_VLM", "ENDED"} \/ start_at[o] \in Starting
             => None(Analysing, q, o) /\ NoAnswer(r)
    BY DEF AskedOnce, AtRest
  <2>2. \/ /\ None(Analysing, q, o) => None(Analysing, t, o)
           /\ One(Analysing, q, o) => One(Analysing, t, o)
           /\ NoAnswer(r) => NoAnswer(k)
           /\ OneAnswer(r) => OneAnswer(k)
        \/ /\ ~None(Analysing, q, o)
           /\ One(Analysing, q, o) => None(Analysing, t, o)
           /\ NoAnswer(r) => OneAnswer(k)
        \/ /\ ~NoAnswer(r)
           /\ OneAnswer(r) => NoAnswer(k)
           /\ None(Analysing, q, o) => One(Analysing, t, o)
    BY <1>2 DEF Quietly, TakesUp, Replies, Fewer, FewerAnswers
  <2>3. NoAnswer(k) => OneAnswer(k)
    BY DEF NoAnswer, OneAnswer
  <2>4. None(Analysing, t, o) => One(Analysing, t, o)
    BY DEF None, One
  <2>5. state'[o] = state[o] /\ start_at'[o] = start_at[o]
    BY <1>2 DEF orchVars
  <2>6. tasks' = t /\ lock_queue'[o] = k
    OBVIOUS
  <2> HIDE DEF q, r, t, k
  <2>7. /\ One(Analysing, t, o) /\ OneAnswer(k)
        /\ None(Analysing, t, o) \/ NoAnswer(k)
        /\ state'[o] \notin {"WAITING_FOR_VLM", "ENDED"} \/ start_at'[o] \in Starting
             => None(Analysing, t, o) /\ NoAnswer(k)
    BY <2>1, <2>2, <2>3, <2>4, <2>5
  <2> QED
    BY <2>6, <2>7 DEF AskedOnce, AtRest
<1>3. CASE \E p \in Orchs : MissionMove(p)
  BY <1>3, AskedByMove
<1>4. CASE Passes
  <2>1. Quietly(o)
    BY <1>1, <1>4, PassesTokens DEF Quietly, FewerAnswers, Passes, sessionVars
  <2> QED
    BY <1>2, <1>4, <2>1 DEF Passes
<1>5. CASE SessionCommand
  BY <1>2, <1>5, SessionQuestion DEF SessionCommand
<1>6. CASE \E l \in Orchs : HandlerStep(l)
  BY <1>2, <1>6, HandlerQuestion DEF HandlerStep
<1> QED
  BY <1>1, <1>3, <1>4, <1>5, <1>6, VlmSteps

LEMMA CreateIs ==
  ASSUME NEW x \in VlmItem, NEW o, x.type = "CreateNewSession", x.by = o
  PROVE  x = Await(o, "CreateNewSession")
<1>1. x \notin Event
  BY DEF Event, DroneNotice, ChatNotice
<1>2. x \in SimpleCommand
  BY <1>1, ItemIs
  DEF VlmItem, Command, MoveCommand, AnalyzeCommand, WakeUp, StartRequest
<1> QED
  BY <1>2 DEF SimpleCommand, Await

LEMMA CreatingKept ==
  ASSUME SessionInv, RunInv, [VlmNext]_allVars, NEW o \in Orchs, Creating(o)
  PROVE  Creating(o)'
<1>1. tasks \in Seq(VlmItem) /\ MissionInv(VlmItem)
  BY DEF SessionInv, MissionInv
<1>2. "CreateNewSession" \in CommandTypes /\ "CreateNewSession" \in Requests
  BY DEF CommandTypes, Awaited, Requests
<1>3. CASE MissionMove(o)
  <2>1. PICK n \in Nat, s \in {0, 1} :
          /\ Up(tasks, tasks', n, s)
          /\ Parts(o, n, tasks') \/ Commands(o, n, tasks') \/ Continues(o, n, tasks')
    BY <1>1, <1>3, MissionUp
  <2>2. ASSUME NEW i \in 1..Len(tasks'), tasks'[i].type = "CreateNewSession", tasks'[i].by = o
        PROVE  start_at'[o] = "CreateNewSession"
    <3>1. CASE i \in 1..n
      <4>1. i + s \in 1..Len(tasks) /\ tasks[i + s] = tasks'[i]
        BY <1>2, <2>1, <2>2, <3>1, UpCommands
      <4>2. start_at[o] = "CreateNewSession"
        BY <2>2, <4>1 DEF Creating, Queued
      <4>3. tasks[i + s] = Await(o, "CreateNewSession")
        BY <1>1, <2>2, <4>1, CreateIs
      <4>4. ~AwaitedDone(o)
        BY <4>1, <4>2, <4>3 DEF AwaitedDone
      <4>5. state[o] # "NEW"
        BY <1>2, <2>2, <4>1 DEF RunInv, Fresh, Absent, HasCommand
      <4> QED
        BY <1>1, <1>3, <4>2, <4>4, <4>5, StartMoves DEF MissionInv
    <3>2. CASE i \in Added(tasks', n)
      <4>1. CASE Parts(o, n, tasks')
        <5>1. i < Len(tasks') - 1 \/ i = Len(tasks') - 1 \/ i = Len(tasks')
          BY <2>1, <3>2 DEF Added, Up
        <5> QED
          BY <2>2, <3>2, <4>1, <5>1 DEF Parts, Await
      <4>2. CASE Commands(o, n, tasks')
        BY <2>2, <3>2, <4>2 DEF Commands, Added, ExecuteMove
      <4>3. CASE Continues(o, n, tasks')
        <5>1. Proper(o, tasks'[i])
          BY <3>2, <4>3 DEF Continues
        <5>2. Starts(o) /\ state'[o] = "IDLE"
          BY <2>2, <5>1 DEF Proper
        <5>3. state[o] = "NEW"
          BY <5>2 DEF Starts, Start
        <5>4. start_at[o] = "none"
          BY <1>1, <5>3 DEF MissionInv, Accounted
        <5>5. ~AwaitedDone(o)
          BY <5>4 DEF AwaitedDone, Awaited
        <5>6. start_at'[o] # "none"
          BY <1>1, <5>2 DEF Starts, Start, MissionInv, MissionTypeOK
        <5> QED
          BY <1>1, <1>3, <5>2, <5>4, <5>5, <5>6, StartMoves DEF MissionInv
      <4> QED
        BY <2>1, <4>1, <4>2, <4>3
    <3> QED
      BY <2>1, <2>2, <3>1, <3>2, UpCommands
  <2> QED
    BY <2>2 DEF Creating, Queued
<1>4. CASE RequestMission(o)
  <2>1. UNCHANGED orchVars
    BY <1>4 DEF RequestMission, RequestStart
  <2>2. Passes
    BY <1>4, <2>1 DEF Passes, RequestMission, vlmVars, sessionVars, conversationVars, SessionInv, VlmTypeOK
  <2>3. PICK s \in {0, 1} : Shifts(s, CommandTypes) \/ Shifts(s, Requests)
    BY <1>1, <2>2, PassesShifts
  <2>4. Queued("CreateNewSession", o)' => Queued("CreateNewSession", o)
    BY <1>2, <2>3 DEF Shifts, Queued
  <2> QED
    BY <2>1, <2>4 DEF Creating, orchVars
<1>5. CASE Untouched(o)
  <2>1. Queued("CreateNewSession", o)' => Queued("CreateNewSession", o)
    BY <1>2, <1>5, NoMoreCommands DEF Untouched
  <2> QED
    BY <1>5, <2>1 DEF Creating, Untouched
<1> QED
  BY <1>3, <1>4, <1>5, StepUntouched

-----------------------------------------------------------------------------
(* A conversation and the handler that writes to it *)

HeadAt(r, at) == r # <<>> /\ r[1].at = at

\* A conversation alternates; it ends with a question while the model answers
\* that, or when the mission that asked has failed with it.
Turn(o) == \A q, r, h : q = tasks /\ r = lock_queue[o] /\ h = history[o] =>
  /\ transaction[o] # "none" => HeadAt(r, "image")
  /\ Alternates(h)
  /\ HeadAt(r, "send") => Len(h) % 2 = 0
  /\ h # <<>> /\ Len(h) % 2 = 0 =>
       \/ HeadAt(r, "send")
       \/ state[o] \in {"WAITING_FOR_VLM", "ENDED"} /\ AtRest(o, q, r)
  /\ r # <<>> /\ r[1].at # "lock" => h # <<>>
  /\ (\E m \in Missions : conversations[m] = o) => h # <<>>

LEMMA OddOrEven == \A d \in Nat : d % 2 = 0 \/ d % 2 = 1
  OBVIOUS

LEMMA MessageAdded ==
  ASSUME NEW h \in Seq(Role), Alternates(h), NEW role \in Role,
         role = "user" => Len(h) % 2 = 1,
         role = "assistant" => Len(h) % 2 = 0 /\ h # <<>>
  PROVE  /\ Alternates(Append(h, role)) /\ Append(h, role) # <<>>
         /\ Len(Append(h, role)) = Len(h) + 1
         /\ role = "user" => Len(Append(h, role)) % 2 = 0
         /\ role = "assistant" => Len(Append(h, role)) % 2 = 1
<1> DEFINE n == Len(h)
           r == Append(h, role)
<1>a. /\ n \in Nat /\ r \in Seq(Role) /\ Len(r) = n + 1 /\ r[n + 1] = role
      /\ \A i \in 1..n : r[i] = h[i]
  OBVIOUS
<1>b. h # <<>> => n >= 1
  OBVIOUS
<1>c. r # <<>>
  BY <1>a
<1>1. /\ n \in Nat /\ Len(r) = n + 1 /\ r[n + 1] = role /\ r # <<>>
      /\ \A i \in 1..n : r[i] = h[i]
      /\ h # <<>> => n >= 1
  BY <1>a, <1>b, <1>c
<1>2. n % 2 = 1 => (n + 1) % 2 = 0
  BY <1>1
<1>3. n % 2 = 0 => (n + 1) % 2 = 1
  BY <1>1
<1>4. n % 2 = 0 /\ n >= 1 => n + 1 >= 3
  BY <1>1
<1>5. \A i \in 1..n : h[i] = "assistant" <=> i >= 3 /\ i % 2 = 1
  BY DEF Alternates
<1> HIDE DEF n, r
<1>6. role = "assistant" <=> n + 1 >= 3 /\ (n + 1) % 2 = 1
  BY <1>1, <1>2, <1>3, <1>4 DEF Role, n
<1>7. \A i \in 1..(n + 1) : i \in 1..n \/ i = n + 1
  BY <1>1
<1>8. Alternates(r)
  BY <1>1, <1>5, <1>6, <1>7 DEF Alternates
<1> QED
  BY <1>1, <1>2, <1>3, <1>8 DEF r, n

\* Nothing is written, and what is at rest stays so.
LEMMA TurnKept ==
  ASSUME NEW o \in Orchs, Turn(o),
         history'[o] = history[o], transaction'[o] = transaction[o],
         \A at \in {"image", "send"} : HeadAt(lock_queue'[o], at) <=> HeadAt(lock_queue[o], at),
         state[o] \in {"WAITING_FOR_VLM", "ENDED"} /\ AtRest(o, tasks, lock_queue[o])
           => Quietly(o) /\ state'[o] \in {"WAITING_FOR_VLM", "ENDED"},
         \/ lock_queue'[o] = <<>> \/ lock_queue'[o][1].at = "lock" \/ history[o] # <<>>,
         \A m \in Missions : conversations'[m] = o => history[o] # <<>>
  PROVE  Turn(o)'
<1> DEFINE q == tasks
           r == lock_queue[o]
           h == history[o]
           t == tasks'
           k == lock_queue'[o]
<1>1. /\ transaction[o] # "none" => HeadAt(r, "image")
      /\ Alternates(h)
      /\ HeadAt(r, "send") => Len(h) % 2 = 0
      /\ h # <<>> /\ Len(h) % 2 = 0 =>
           \/ HeadAt(r, "send")
           \/ state[o] \in {"WAITING_FOR_VLM", "ENDED"} /\ AtRest(o, q, r)
  BY DEF Turn
<1>2. Quietly(o) /\ AtRest(o, q, r) => AtRest(o, t, k)
  BY DEF Quietly, Fewer, FewerAnswers, AtRest
<1>3. tasks' = t /\ lock_queue'[o] = k /\ history'[o] = h
  OBVIOUS
<1>4. /\ HeadAt(r, "image") <=> HeadAt(k, "image")
      /\ HeadAt(r, "send") <=> HeadAt(k, "send")
      /\ transaction'[o] = transaction[o]
      /\ state[o] \in {"WAITING_FOR_VLM", "ENDED"} /\ AtRest(o, q, r)
           => Quietly(o) /\ state'[o] \in {"WAITING_FOR_VLM", "ENDED"}
      /\ k # <<>> /\ k[1].at # "lock" => h # <<>>
      /\ (\E m \in Missions : conversations'[m] = o) => h # <<>>
  OBVIOUS
<1> HIDE DEF q, r, h, t, k
<1> DEFINE Even == Len(h) % 2 = 0
           Asking == state[o] \in {"WAITING_FOR_VLM", "ENDED"} /\ AtRest(o, q, r)
           Rested == state'[o] \in {"WAITING_FOR_VLM", "ENDED"} /\ AtRest(o, t, k)
<1>5. Asking => Rested
  BY <1>2, <1>4
<1> HIDE DEF Even, Asking, Rested
<1>6. h # <<>> /\ Even => HeadAt(k, "send") \/ Rested
  BY <1>1, <1>4, <1>5 DEF Even, Asking
<1>7. /\ transaction'[o] # "none" => HeadAt(k, "image")
      /\ HeadAt(k, "send") => Even
  BY <1>1, <1>4 DEF Even
<1> QED
  BY <1>1, <1>3, <1>4, <1>6, <1>7 DEF Turn, Rested, Even, AtRest, Alternates

LEMMA AnalysisHeld ==
  ASSUME SessionInv, RunInv, NEW o \in Orchs,
         NEW at \in {"prepare", "image", "send"}, HeadAt(lock_queue[o], at)
  PROVE  ~NoAnswer(lock_queue[o]) /\ ~AtRest(o, tasks, lock_queue[o])
<1>1. /\ Holder(o) = lock_queue[o][1] /\ 1 \in 1..Len(lock_queue[o]) /\ Fits(o, Holder(o))
      /\ Holder(o).at = at
  BY HolderFits DEF HeadAt
<1> QED
  BY <1>1 DEF NoAnswer, AtRest, Fits

\* Who is woken up by a released lock still waits for it.
LEMMA NextWaits ==
  ASSUME SessionInv, RunInv, NEW l \in Orchs, lock_queue[l] # <<>>, Release(l)
  PROVE  lock_queue'[l] = <<>> \/ lock_queue'[l][1].at = "lock"
<1> DEFINE r == lock_queue[l]
           t == lock_queue'[l]
<1>1. /\ t \in Seq(Handler)
      /\ \A i \in 1..Len(t) : i + 1 \in 2..Len(r) /\ t[i] = r[i + 1]
  BY ReleaseQueue DEF SessionInv, OthersWait
<1>2. r \in Seq(Handler) /\ \A i \in 1..Len(r) : i >= 2 => r[i].at = "lock"
  BY DEF RunInv, Locks, SessionInv, VlmTypeOK
<1> HIDE DEF r, t
<1>3. t # <<>> => 1 \in 1..Len(t)
  BY <1>1
<1>4. t # <<>> => t[1] = r[2] /\ 2 \in 1..Len(r)
  BY <1>1, <1>2, <1>3
<1>5. t = <<>> \/ t[1].at = "lock"
  BY <1>2, <1>4
<1> QED
  BY <1>5 DEF t

LEMMA TurnByMove ==
  ASSUME SessionInv, RunInv, NEW p \in Orchs, MissionMove(p), NEW o \in Orchs, Turn(o)
  PROVE  Turn(o)'
<1>1. /\ lock_queue' = lock_queue /\ history' = history /\ transaction' = transaction
      /\ conversations' = conversations
  BY DEF MissionMove, vlmVars, sessionVars, conversationVars
<1>2. MissionInv(VlmItem)
  BY DEF SessionInv
<1>3. ASSUME state[o] \in {"WAITING_FOR_VLM", "ENDED"}, AtRest(o, tasks, lock_queue[o])
      PROVE  Quietly(o) /\ state'[o] \in {"WAITING_FOR_VLM", "ENDED"}
  <2>1. Quietly(o)
    BY <1>3, MoveQuestion, PhotoAsked
  <2>2. CASE o # p
    BY <1>2, <1>3, <2>1, <2>2, MissionUp
  <2>3. CASE o = p
    <3>1. state[o] = "ENDED" => state'[o] = "ENDED"
      BY <1>2, <2>3, MissionUp DEF Parts, Commands, Continues
    <3>2. ~HandleVlmAnalysis(o)
      BY <1>3, AnswerHandled DEF AtRest
    <3> QED
      BY <1>2, <1>3, <2>1, <2>3, <3>1, <3>2, LeavesVlm
  <2> QED
    BY <2>2, <2>3
<1>4. /\ \/ lock_queue'[o] = <<>> \/ lock_queue'[o][1].at = "lock" \/ history[o] # <<>>
      /\ \A m \in Missions : conversations'[m] = o => history[o] # <<>>
  BY <1>1 DEF Turn
<1> QED
  BY <1>1, <1>3, <1>4, TurnKept

LEMMA TurnBySession ==
  ASSUME SessionInv, RunInv, SessionCommand, NEW o \in Orchs,
         AskedOnce(o), Creating(o), Turn(o)
  PROVE  Turn(o)'
<1> DEFINE t == Task.by
<1>1. /\ tasks \in Seq(VlmItem) /\ tasks # <<>> /\ Task.type \in SessionTypes
      /\ t \in Orchs /\ Chat \in Missions /\ Chat = MissionOf[t]
  <2>1. /\ tasks \in Seq(VlmItem) /\ tasks # <<>> /\ Task.type \in SessionTypes /\ t \in Orchs
    BY OrchAssumption, SessionSays DEF SessionInv, MissionInv
  <2> QED
    BY <2>1, OrchAssumption DEF Chat, OrchAssumption
<1>2. UNCHANGED orchVars /\ state'[o] = state[o]
  BY DEF SessionCommand, orchVars
<1>3. AtRest(o, tasks, lock_queue[o]) => Quietly(o)
  BY SessionQuestion DEF TakesUp, AtRest
<1>4. /\ \/ lock_queue[o] = <<>> \/ lock_queue[o][1].at = "lock" \/ history[o] # <<>>
      /\ \A m \in Missions : conversations[m] = o => history[o] # <<>>
  BY DEF Turn
<1>5. CASE UNCHANGED <<lock_queue, conversations, history, transaction>>
  BY <1>2, <1>3, <1>4, <1>5, TurnKept
<1>6. CASE HandleDeleteSession
  <2>1. \A m \in Missions : conversations'[m] = o => conversations[m] = o
    BY <1>1, <1>6, VlmAssumption DEF HandleDeleteSession, SessionInv, VlmTypeOK, VlmAssumption
  <2> QED
    BY <1>2, <1>3, <1>4, <1>6, <2>1, TurnKept DEF HandleDeleteSession, conversationVars
<1>7. CASE /\ Task.type = "CreateNewSession"
           /\ conversations' = [conversations EXCEPT ![Chat] = t]
           /\ history' = [history EXCEPT ![t] = <<"user">>]
           /\ UNCHANGED <<lock_queue, transaction>>
  <2>1. CASE o # t
    <3>1. /\ history'[o] = history[o]
          /\ \A m \in Missions : conversations'[m] = o => conversations[m] = o
      BY <1>1, <1>7, <2>1 DEF SessionInv, VlmTypeOK
    <3> QED
      BY <1>2, <1>3, <1>4, <1>7, <3>1, TurnKept
  <2>2. CASE o = t
    <3> DEFINE h == <<"user">>
               r == lock_queue[o]
    <3>1. history'[o] = h
      BY <1>7, <2>2 DEF SessionInv, VlmTypeOK
    <3>2. h # <<>> /\ Len(h) % 2 = 1
      OBVIOUS
    <3>3. Alternates(h)
      BY DEF Alternates
    <3>4. Queued("CreateNewSession", o)
      BY <1>1, <1>7, <2>2 DEF Queued, Task
    <3>5. start_at[o] \in Starting
      BY <3>4 DEF Creating, Starting
    <3>6. AtRest(o, tasks, lock_queue[o])
      BY <3>5 DEF AskedOnce
    <3>7. ~HeadAt(r, "send")
      BY <3>6, AnalysisHeld
    <3>8. transaction'[o] # "none" => HeadAt(r, "image")
      BY <1>7 DEF Turn
    <3>9. lock_queue'[o] = r
      BY <1>7
    <3> HIDE DEF h, r
    <3>10. ~(Len(h) % 2 = 0)
      BY <3>2
    <3> QED
      BY <3>1, <3>2, <3>3, <3>7, <3>8, <3>9, <3>10 DEF Turn, Alternates
  <2> QED
    BY <2>1, <2>2
<1>8. ASSUME NEW kind \in {"analysis", "save"}, NEW error \in ChatNotice,
             UseSession(NewHandler(kind), error)
      PROVE  Turn(o)'
  <2>1. UNCHANGED <<conversations, history, transaction>>
    BY <1>8 DEF UseSession, conversationVars
  <2>2. CASE UNCHANGED lock_queue
    BY <1>5, <2>1, <2>2
  <2>3. CASE /\ conversations[Chat] = t
             /\ \E h \in Handler :
                  /\ h.at \in {"lock", "prepare", "history"}
                  /\ lock_queue' = [lock_queue EXCEPT ![t] = Append(@, h)]
    <3>1. PICK h \in Handler : /\ h.at \in {"lock", "prepare", "history"}
                               /\ lock_queue' = [lock_queue EXCEPT ![t] = Append(@, h)]
      BY <2>3
    <3> DEFINE r == lock_queue[o]
               k == lock_queue'[o]
    <3>2. /\ r \in Seq(Handler) /\ k \in Seq(Handler)
          /\ o # t => k = r
          /\ o = t => /\ Len(k) = Len(r) + 1 /\ k[Len(k)] = h
                      /\ \A i \in 1..Len(r) : k[i] = r[i]
      <4>1. lock_queue[o] \in Seq(Handler)
        BY DEF SessionInv, VlmTypeOK
      <4> HIDE DEF t
      <4> QED
        BY <1>1, <3>1, <4>1, JoinQueue DEF SessionInv, OthersWait
    <3>3. o = t => history[o] # <<>>
      BY <1>1, <1>4, <2>3
    <3> HIDE DEF r, k, t
    <3>4. CASE o = t /\ r # <<>>
      <4>1. 1 \in 1..Len(r) /\ k[1] = r[1] /\ k # <<>>
        BY <3>2, <3>4
      <4>2. \A at \in {"image", "send"} : HeadAt(k, at) <=> HeadAt(r, at)
        BY <3>4, <4>1 DEF HeadAt
      <4> QED
        BY <1>2, <1>3, <1>4, <2>1, <3>3, <3>4, <4>2, TurnKept DEF r, k
    <3>5. CASE o = t /\ r = <<>>
      <4>0. Len(r) = 0
        BY <3>5
      <4>a. Len(k) = 1 /\ k[Len(k)] = h
        BY <3>2, <3>5, <4>0
      <4>b. k # <<>>
        <5>1. Len(<<>>) = 0
          OBVIOUS
        <5>2. 1 # 0
          OBVIOUS
        <5> QED
          BY <4>a, <5>1, <5>2, Zenon
      <4>1. Len(k) = 1 /\ k[1] = h
        BY <4>a
      <4>2. \A at \in {"image", "send"} : HeadAt(k, at) <=> HeadAt(r, at)
        BY <3>1, <3>5, <4>b, <4>1 DEF HeadAt
      <4> QED
        BY <1>2, <1>3, <1>4, <2>1, <3>3, <3>5, <4>2, TurnKept DEF r, k
    <3>6. CASE o # t
      <4>1. lock_queue'[o] = lock_queue[o]
        BY <3>2, <3>6 DEF r, k
      <4> QED
        BY <1>2, <1>3, <1>4, <2>1, <4>1, TurnKept
    <3> QED
      BY <3>4, <3>5, <3>6
  <2> QED
    BY <1>1, <1>8, <2>2, <2>3, SessionJoins
<1>9. CASE HandleCreateNewSession
  BY <1>5, <1>7, <1>9 DEF HandleCreateNewSession, Taken
<1>10. CASE HandleAnalyzePhoto
  BY <1>8, <1>10 DEF HandleAnalyzePhoto, ChatNotice
<1>11. CASE HandleSaveSession
  BY <1>8, <1>11 DEF HandleSaveSession, ChatNotice
<1> QED
  BY <1>6, <1>9, <1>10, <1>11 DEF SessionCommand

\* The handler that holds the lock of l, and the conversation of l.
LEMMA TurnByHolder ==
  ASSUME SessionInv, RunInv, NEW l \in Orchs, HandlerStep(l), AskedOnce(l), Turn(l)
  PROVE  Turn(l)'
<1> DEFINE r == lock_queue[l]
           k == lock_queue'[l]
           h == history[l]
           at == Holder(l).at
<1>1. /\ tasks \in Seq(VlmItem) /\ VlmTypeOK /\ r # <<>> /\ state'[l] = state[l]
      /\ conversations' = conversations
  BY HandlerSteps DEF SessionInv, MissionInv, orchVars
<1>2. /\ Holder(l) = r[1] /\ Fits(l, Holder(l))
      /\ at # "lock" => Holder(l).conv = l
      /\ Holder(l) \in Handler
  BY <1>1, HolderFits
<1>3. \A x : HeadAt(r, x) <=> at = x
  BY <1>1, <1>2 DEF HeadAt
<1>4. /\ h \in Seq(Role) /\ Alternates(h)
      /\ transaction[l] # "none" => at = "image"
      /\ at = "send" => Len(h) % 2 = 0
      /\ h # <<>> /\ Len(h) % 2 = 0 =>
           at = "send" \/ (state[l] \in {"WAITING_FOR_VLM", "ENDED"} /\ AtRest(l, tasks, r))
      /\ at # "lock" => h # <<>>
      /\ (\E m \in Missions : conversations[m] = l) => h # <<>>
  BY <1>1, <1>2, <1>3 DEF Turn, SessionInv, VlmTypeOK
<1>5. at \in {"prepare", "image", "send"} => ~NoAnswer(r) /\ ~AtRest(l, tasks, r)
  BY <1>3, AnalysisHeld
<1>6. history' = history => ~ModelAnswers(l)
  <2> SUFFICES ASSUME history' = history, ModelAnswers(l)
               PROVE  FALSE
    OBVIOUS
  <2>1. at = "send" /\ history' = [history EXCEPT ![l] = Append(@, "assistant")]
    BY <1>2 DEF ModelAnswers, HeldAt
  <2>2. history'[l] = Append(h, "assistant")
    BY <2>1 DEF SessionInv, VlmTypeOK
  <2> HIDE DEF h
  <2>3. Append(h, "assistant") # h
    BY <1>4
  <2> QED
    BY <2>2, <2>3 DEF h
<1>7. history' = history => Quietly(l)
  BY <1>6, HandlerQuestion
<1>8. Release(l) => k = <<>> \/ k[1].at = "lock"
  BY <1>1, NextWaits
<1>9. ASSUME history' = history, transaction' = transaction,
             \A x \in {"image", "send"} : ~HeadAt(k, x),
             at \notin {"image", "send"},
             k = <<>> \/ k[1].at = "lock" \/ h # <<>>
      PROVE  Turn(l)'
  <2>1. \A x \in {"image", "send"} : HeadAt(k, x) <=> HeadAt(r, x)
    BY <1>3, <1>9
  <2>2. \A m \in Missions : conversations'[m] = l => history[l] # <<>>
    BY <1>1, <1>4
  <2> HIDE DEF at
  <2> QED
    BY <1>1, <1>7, <1>9, <2>1, <2>2, TurnKept
<1>10. CASE Release(l) /\ Breaks(l)
  <2>1. history' = history
    BY <1>10 DEF Breaks
  <2>2. at = "image" => transaction[l] = "none"
    BY <1>2, <1>10 DEF Breaks
  <2>3. transaction[l] = "none"
    BY <1>4, <2>2
  <2>4. transaction'[l] = "none"
    BY <1>1, <1>2, <1>10, <2>3 DEF Breaks, VlmTypeOK
  <2>5. ASSUME h # <<>>, Len(h) % 2 = 0
        PROVE  state'[l] \in {"WAITING_FOR_VLM", "ENDED"} /\ AtRest(l, tasks', k)
    <3>1. Quietly(l)
      BY <1>7, <2>1
    <3>2. CASE at = "send"
      <4>1. ~NoAnswer(r) /\ ~AtRest(l, tasks, r)
        BY <1>5, <3>2
      <4>2. None(Analysing, tasks, l) /\ OneAnswer(r) /\ state[l] \in {"WAITING_FOR_VLM", "ENDED"}
        BY <4>1 DEF AskedOnce
      <4>3. Holder(l).kind = "analysis"
        BY <1>2, <3>2 DEF Fits
      <4>4. NoAnswer(k)
        BY <1>1, <1>10, <4>2, <4>3, ReleaseAnswers
      <4> QED
        BY <1>1, <3>1, <4>2, <4>4 DEF AtRest, Quietly, Fewer
    <3>3. CASE state[l] \in {"WAITING_FOR_VLM", "ENDED"} /\ AtRest(l, tasks, r)
      BY <1>1, <3>1, <3>3 DEF AtRest, Quietly, Fewer, FewerAnswers
    <3> QED
      BY <1>4, <2>5, <3>2, <3>3
  <2>6. \A x \in {"image", "send"} : ~HeadAt(k, x)
    BY <1>8, <1>10 DEF HeadAt
  <2>7. lock_queue'[l] = k /\ history'[l] = h
    BY <2>1
  <2>8. k # <<>> => k[1].at = "lock"
    BY <1>8, <1>10
  <2> DEFINE Rested == state'[l] \in {"WAITING_FOR_VLM", "ENDED"} /\ AtRest(l, tasks', k)
             Even == Len(h) % 2 = 0
  <2>9. h # <<>> /\ Even => Rested
    BY <2>5
  <2> HIDE DEF k, h, Rested, Even
  <2> QED
    BY <1>1, <1>4, <2>4, <2>6, <2>7, <2>8, <2>9 DEF Turn, Alternates, Rested, Even, AtRest
<1>11. CASE Release(l) /\ ModelAnswers(l)
  <2>1. /\ at = "send" /\ transaction' = transaction
        /\ history' = [history EXCEPT ![l] = Append(@, "assistant")]
    BY <1>2, <1>11 DEF ModelAnswers, HeldAt
  <2> DEFINE n == Append(h, "assistant")
  <2>2. history'[l] = n
    BY <1>1, <2>1 DEF VlmTypeOK
  <2>3. h # <<>> /\ Len(h) % 2 = 0 /\ transaction'[l] = "none"
    BY <1>1, <1>4, <2>1 DEF VlmTypeOK
  <2>4. Alternates(n) /\ n # <<>> /\ Len(n) % 2 = 1
    <3> HIDE DEF h
    <3> QED
      BY <1>4, <2>3, MessageAdded DEF Role
  <2>5. k = <<>> \/ k[1].at = "lock"
    BY <1>8, <1>11
  <2>6. ~HeadAt(k, "send")
    BY <2>5 DEF HeadAt
  <2>7. lock_queue'[l] = k
    OBVIOUS
  <2> HIDE DEF n, k
  <2>8. ~(Len(n) % 2 = 0)
    BY <2>4
  <2> QED
    BY <2>2, <2>3, <2>4, <2>5, <2>6, <2>7, <2>8 DEF Turn, Alternates
<1>12. CASE Release(l) /\ WriteImages(l)
  <2>1. history' = history /\ transaction' = transaction /\ at = "images"
    BY <1>12 DEF WriteImages, conversationVars, HeldAt
  <2>2. \A x \in {"image", "send"} : ~HeadAt(k, x)
    BY <1>8, <1>12 DEF HeadAt
  <2> QED
    BY <1>8, <1>9, <1>12, <2>1, <2>2
<1>13. ASSUME NEW x \in Handler, Continue(l, x)
       PROVE  k # <<>> /\ k[1] = x
  BY <1>1, <1>13, ContinueQueue
<1>14. ASSUME NEW x \in Handler, Continue(l, x), Enters(l, l), x = Entered(Holder(l), l)
       PROVE  Turn(l)'
  <2>1. history' = history /\ transaction' = transaction /\ at = "lock"
    BY <1>14 DEF Enters
  <2>2. x.at \in {"prepare", "history"}
    BY <1>1, <1>2, <1>14, EnteredTyped, HandlerFields
  <2>3. \A y \in {"image", "send"} : ~HeadAt(k, y)
    BY <1>13, <1>14, <2>2 DEF HeadAt
  <2>4. h # <<>>
    <3>1. MissionOf[l] \in Missions /\ conversations[MissionOf[l]] = l
      BY <1>2, <1>14, OrchAssumption DEF Enters, Fits, OrchAssumption
    <3> QED
      BY <1>4, <3>1
  <2> QED
    BY <1>9, <2>1, <2>3, <2>4
<1>15. ASSUME NEW x \in Handler, Continue(l, x), WriteHistory(l), x.at = "images"
       PROVE  Turn(l)'
  <2>1. history' = history /\ transaction' = transaction /\ at = "history"
    BY <1>15 DEF WriteHistory, conversationVars, HeldAt
  <2>2. \A y \in {"image", "send"} : ~HeadAt(k, y)
    BY <1>13, <1>15 DEF HeadAt
  <2> QED
    BY <1>4, <1>9, <2>1, <2>2
<1>16. ASSUME NEW x \in Handler, Continue(l, x), Encodes(l), x.at = "image"
       PROVE  Turn(l)'
  <2>1. history'[l] = h /\ at = "prepare"
    BY <1>16 DEF Encodes
  <2>2. h # <<>> /\ ~(Len(h) % 2 = 0)
    BY <1>4, <1>5, <2>1
  <2>3. HeadAt(k, "image") /\ ~HeadAt(k, "send")
    BY <1>13, <1>16 DEF HeadAt
  <2>4. lock_queue'[l] = k
    OBVIOUS
  <2> HIDE DEF h, k
  <2> QED
    BY <1>4, <2>1, <2>2, <2>3, <2>4 DEF Turn, Alternates
<1>17. ASSUME NEW x \in Handler, Continue(l, x), Asks(l), x.at = "send"
       PROVE  Turn(l)'
  <2> DEFINE n == Append(h, "user")
  <2>1. at \in {"prepare", "image"} /\ Holder(l).conv = l
    BY <1>2, <1>17 DEF Asks
  <2>2. history'[l] = n /\ transaction'[l] = "none"
    BY <1>1, <1>17, <2>1 DEF Asks, CommitAndSend, VlmTypeOK
  <2>3. h # <<>> /\ ~(Len(h) % 2 = 0)
    BY <1>4, <1>5, <2>1
  <2>4. Len(h) % 2 = 1
    <3>1. Len(h) \in Nat
      BY <1>4
    <3> QED
      BY <2>3, <3>1, OddOrEven
  <2>5. Alternates(n) /\ n # <<>> /\ Len(n) % 2 = 0
    <3> HIDE DEF h
    <3> QED
      BY <1>4, <2>4, MessageAdded DEF Role
  <2>6. HeadAt(k, "send")
    BY <1>13, <1>17 DEF HeadAt
  <2>7. lock_queue'[l] = k
    OBVIOUS
  <2> HIDE DEF n, k
  <2> QED
    BY <2>2, <2>5, <2>6, <2>7 DEF Turn, Alternates
<1> QED
  BY <1>10, <1>11, <1>12, <1>14, <1>15, <1>16, <1>17, HandlerMoves

LEMMA TurnByHandler ==
  ASSUME SessionInv, RunInv, NEW l \in Orchs, HandlerStep(l), NEW o \in Orchs,
         AskedOnce(o), Turn(o)
  PROVE  Turn(o)'
<1>1. CASE o = l
  BY <1>1, TurnByHolder
<1>2. CASE o # l
  <2>0. lock_queue[l] # <<>> /\ VlmTypeOK
    BY HandlerSteps DEF SessionInv
  <2>1. /\ history'[o] = history[o] /\ transaction'[o] = transaction[o]
        /\ lock_queue'[o] = lock_queue[o]
    <3>1. OthersWait(l)
      BY <2>0, HandlerMoves, ReleaseQueue, ContinueQueue
    <3> QED
      BY <1>2, <3>1, HandlerWrites DEF OthersWait
  <2>2. conversations' = conversations /\ state'[o] = state[o]
    BY HandlerSteps DEF SessionInv, orchVars
  <2>3. Quietly(o)
    BY <1>2, HandlerQuestion
  <2>4. /\ lock_queue[o] = <<>> \/ lock_queue[o][1].at = "lock" \/ history[o] # <<>>
        /\ \A m \in Missions : conversations[m] = o => history[o] # <<>>
    BY DEF Turn
  <2> QED
    BY <2>1, <2>2, <2>3, <2>4, TurnKept
<1> QED
  BY <1>1, <1>2

LEMMA TurnStep ==
  ASSUME SessionInv, RunInv, [VlmNext]_allVars, NEW o \in Orchs,
         AskedOnce(o), Creating(o), Turn(o)
  PROVE  Turn(o)'
<1>1. tasks \in Seq(VlmItem) /\ VlmTypeOK
  BY DEF SessionInv, MissionInv
<1>2. CASE Passes
  <2>1. UNCHANGED <<lock_queue, conversations, history, transaction, state>>
    BY <1>2 DEF Passes, sessionVars, conversationVars, orchVars
  <2>2. Quietly(o)
    BY <1>1, <1>2, <2>1, PassesTokens DEF Quietly, FewerAnswers
  <2>3. /\ lock_queue[o] = <<>> \/ lock_queue[o][1].at = "lock" \/ history[o] # <<>>
        /\ \A m \in Missions : conversations[m] = o => history[o] # <<>>
    BY DEF Turn
  <2> QED
    BY <2>1, <2>2, <2>3, TurnKept
<1> QED
  BY <1>1, <1>2, VlmSteps, TurnByMove, TurnBySession, TurnByHandler

\* What holds while the ids are used one run at a time.
Conversing ==
  /\ SessionInv /\ RunInv
  /\ \A o \in Orchs : AskedOnce(o) /\ Creating(o) /\ Turn(o)

LEMMA ConversingStart ==
  ASSUME VlmInit
  PROVE  Conversing
<1>1. /\ tasks = <<>> /\ Len(tasks) = 0
      /\ \A o \in Orchs : /\ state[o] = "NEW" /\ lock_queue[o] = <<>> /\ history[o] = <<>>
                          /\ transaction[o] = "none"
  BY DEF VlmInit, ManagerInit, Init
<1>2. \A m \in Missions, o \in Orchs : conversations[m] # o
  BY VlmAssumption DEF VlmInit, VlmAssumption
<1>3. \A o \in Orchs : \A type : ~Queued(type, o) /\ ~HasCommand(o)
  BY <1>1 DEF Queued, HasCommand
<1>4. RunInv
  BY <1>1, <1>3 DEF RunInv, Locks, Apart, Free, Unused, Fresh, Absent
<1>5. \A o, q, r : q = <<>> /\ r = <<>> =>
        /\ One(Analysing, q, o) /\ OneAnswer(r) /\ AtRest(o, q, r)
        /\ Alternates(r) /\ \A at : ~HeadAt(r, at)
  BY DEF One, None, OneAnswer, NoAnswer, AtRest, Alternates, HeadAt
<1>6. ASSUME NEW o \in Orchs
      PROVE  AskedOnce(o) /\ Creating(o) /\ Turn(o)
  <2>1. Creating(o)
    BY <1>3 DEF Creating
  <2>2. AskedOnce(o)
    BY <1>1, <1>5 DEF AskedOnce, AtRest
  <2>3. Turn(o)
    BY <1>1, <1>2, <1>5 DEF Turn
  <2> QED
    BY <2>1, <2>2, <2>3
<1> QED
  BY <1>4, <1>6, SessionStart DEF Conversing

LEMMA ConversingStep ==
  ASSUME Patient, Conversing, [VlmNext]_allVars
  PROVE  Conversing'
<1>1. SessionInv' /\ RunInv'
  BY SessionStep, RunStep DEF Conversing
<1>2. \A o \in Orchs : AskedOnce(o)' /\ Creating(o)' /\ Turn(o)'
  BY AskedKept, CreatingKept, TurnStep DEF Conversing
<1> QED
  BY <1>1, <1>2 DEF Conversing

-----------------------------------------------------------------------------
(* What is written down *)

Failed(x, o) == x.type = "ChatErrorOccurred" /\ x.mission = MissionOf[o] /\ o \in x.to

\* A save is on its way, or the news that the chat is lost.
Promised(q, o) == \E i \in 1..Len(q) :
  (q[i].type = "SaveSession" /\ q[i].by = o) \/ Failed(q[i], o)
AwaitsSave(r) == \E i \in 1..Len(r) : r[i].kind = "save" /\ r[i].at = "lock"

\* Or it is being written, or has been.
Kept(r, h, d) ==
  \/ HeadAt(r, "history") /\ r[1].saved = h
  \/ HeadAt(r, "images") /\ r[1].saved = h /\ d.messages = h
  \/ /\ ~HeadAt(r, "history") /\ ~HeadAt(r, "images")
     /\ d = [messages |-> h, images |-> PhotosIn(h)]

Due(o) == /\ o \in Subscribed
          /\ start_at[o] \notin {"none", "CreateNewSession", "created"}
          /\ state[o] # "WAITING_FOR_VLM"
Stored(o) == Due(o) => \A q, r, d : q = tasks /\ r = lock_queue[o] /\ d = disk[MissionOf[o]] =>
  Promised(q, o) \/ AwaitsSave(r) \/ Kept(r, history[o], d)

LEMMA ErrorHeard ==
  ASSUME MissionInv(VlmItem), NEW o \in Orchs, MissionMove(o), ~AwaitedDone(o),
         tasks # <<>>, Failed(Task, o)
  PROVE  state'[o] = "ENDED"
<1> USE DEF MissionInv, MissionTypeOK
<1>1. Task.type = "ChatErrorOccurred" /\ EventFor(o) /\ Concerns(o, Task)
  BY DEF Failed, EventFor, Concerns, MissionEventTypes, ChatNotice, DroneEventTypes, DroneNotice
<1>2. Handle(o)
  BY <1>1 DEF MissionMove, Taken
<1>3. ~(StartSave(o) \/ StartSearch(o) \/ StartFirstPhoto(o))
  BY <1>1 DEF StartSave, StartSearch, StartFirstPhoto, Awake
<1>4. ~(HandlePhotoAndTelemetry(o) \/ HandleVlmAnalysis(o)
          \/ UserConfirms(o) \/ UserWarns(o) \/ UserCancels(o)
          \/ HandleMoveStarted(o) \/ MoveSucceeded(o) \/ MoveFailed(o)
          \/ HandleDroneConnectionLost(o) \/ HandleDroneReconnected(o))
  BY <1>1, HandlesEvent
  DEF HandlePhotoAndTelemetry, HandleVlmAnalysis, UserConfirms, UserWarns, UserCancels,
      HandleMoveStarted, MoveSucceeded, MoveFailed, HandleDroneConnectionLost,
      HandleDroneReconnected
<1>5. HandleFatal(o) => state'[o] = "ENDED"
  BY DEF HandleFatal, Terminate, Goto
<1>6. CASE Ignore(o)
  <2>1. state[o] \notin Expected("ChatErrorOccurred") /\ state' = state
    BY <1>1, <1>6 DEF Ignore, Handles, orchVars
  <2>2. state[o] \in MissionState
    OBVIOUS
  <2> QED
    BY <2>1, <2>2 DEF Expected
<1> QED
  BY <1>2, <1>3, <1>4, <1>5, <1>6 DEF Handle

LEMMA PromiseMoved ==
  ASSUME MissionInv(VlmItem), NEW p \in Orchs, MissionMove(p),
         NEW o \in Orchs, o \in Subscribed', Promised(tasks, o)
  PROVE  Promised(tasks', o)
<1>1. PICK i \in 1..Len(tasks) : (tasks[i].type = "SaveSession" /\ tasks[i].by = o)
                                   \/ Failed(tasks[i], o)
  BY DEF Promised
<1>2. CASE AwaitedDone(p)
  <2>1. tasks' = Append(tasks, [type |-> "WakeUp", by |-> p]) /\ tasks \in Seq(VlmItem)
    BY <1>2 DEF AwaitedDone, MissionInv
  <2>2. i \in 1..Len(tasks') /\ tasks'[i] = tasks[i]
    BY <2>1
  <2> QED
    BY <1>1, <2>2 DEF Promised
<1>3. CASE ~AwaitedDone(p)
  <2>1. PICK n \in Nat, s \in {0, 1} :
          /\ Up(tasks, tasks', n, s)
          /\ s = 1 => /\ Task.type \notin CommandTypes
                      /\ Task.type \in EventTypes => Task.to \subseteq {p}
          /\ \A j \in 1..n : \/ tasks'[j] = tasks[j + s]
                             \/ j + s = 1 /\ Told(p, tasks[1], tasks'[1])
    BY MissionUp
  <2>2. Task = tasks[1] /\ tasks # <<>>
    BY <1>1 DEF Task
  <2>3. ASSUME i = 1, Failed(tasks[i], o)
        PROVE  o # p
    BY <1>3, <2>2, <2>3, ErrorHeard DEF Subscribed
  <2>4. "SaveSession" \in CommandTypes /\ "ChatErrorOccurred" \in EventTypes \cap MissionEventTypes
    BY DEF CommandTypes, Awaited, EventTypes, MissionEventTypes, ChatNotice
  <2>5. i \in (1 + s)..Len(tasks)
    <3>1. ~(i = 1 /\ s = 1)
      BY <1>1, <2>1, <2>2, <2>3, <2>4 DEF Failed
    <3> QED
      BY <2>1, <3>1 DEF Up
  <2>6. i - s \in 1..n /\ (i - s) + s = i /\ i - s \in 1..Len(tasks')
    BY <2>1, <2>5 DEF Up
  <2>7. CASE tasks'[i - s] = tasks[i]
    BY <1>1, <2>6, <2>7 DEF Promised
  <2>8. CASE i = 1 /\ i - s = 1 /\ Told(p, tasks[1], tasks'[1])
    <3>1. tasks[1].type \in EventTypes
      BY <2>8 DEF Told
    <3>2. Failed(tasks[1], o)
      BY <1>1, <2>4, <2>8, <3>1, CommandIsNoEvent
    <3>3. Failed(tasks'[1], o)
      BY <2>3, <2>4, <2>8, <3>2 DEF Told, Failed
    <3> QED
      BY <2>6, <2>8, <3>3 DEF Promised
  <2> QED
    BY <2>1, <2>6, <2>7, <2>8
<1> QED
  BY <1>2, <1>3

\* A mission gets its first save, or the next one after an answer.
LEMMA DueMoved ==
  ASSUME SessionInv, NEW o \in Orchs, MissionMove(o), ~Due(o), Due(o)'
  PROVE  Promised(tasks', o)
<1>1. MissionInv(VlmItem) /\ MissionTypeOK /\ tasks \in Seq(VlmItem)
  BY DEF SessionInv, MissionInv
<1>2. ASSUME NEW q, q \in Seq(VlmItem), NEW x, tasks' = Append(q, x),
             x.type = "SaveSession", x.by = o
      PROVE  Promised(tasks', o)
  <2>1. Len(tasks') \in 1..Len(tasks') /\ tasks'[Len(tasks')] = x
    BY <1>2
  <2> QED
    BY <1>2, <2>1 DEF Promised
<1>3. CASE StartSave(o)
  <2>1. tasks # <<>> /\ tasks' = Append(Tail(tasks), Await(o, "SaveSession"))
    BY <1>3 DEF StartSave, Awake
  <2>2. Tail(tasks) \in Seq(VlmItem)
    BY <1>1, <2>1
  <2> DEFINE y == Await(o, "SaveSession")
  <2>3. y.type = "SaveSession" /\ y.by = o
    BY DEF Await
  <2> HIDE DEF y
  <2>4. tasks' = Append(Tail(tasks), y)
    BY <2>1 DEF y
  <2> QED
    BY <1>2, <2>2, <2>3, <2>4
<1>4. CASE HandleVlmAnalysis(o)
  <2> DEFINE q == Append(Rest(o), Await(o, "SaveSession"))
             x == [type |-> "AskUserConfirmation", by |-> o, move |-> Task.move]
  <2>1. tasks' = Append(q, x)
    <3>1. state'[o] # "ENDED"
      BY DEF Due, Subscribed
    <3> QED
      BY <1>1, <1>4, <3>1 DEF HandleVlmAnalysis, Terminate, Goto, MissionTypeOK
  <2>2. Rest(o) \in Seq(VlmItem)
    <3>1. EventFor(o)
      BY <1>4, HandlesEvent DEF HandleVlmAnalysis
    <3> QED
      BY <1>1, <3>1, VlmCarries, RestTokens DEF Topics
  <2> DEFINE r == Rest(o)
             y == Await(o, "SaveSession")
  <2>3. y.type = "SaveSession" /\ y.by = o
    BY DEF Await
  <2> HIDE DEF r, y, x
  <2>4. tasks' = Append(Append(r, y), x) /\ r \in Seq(VlmItem)
    BY <2>1, <2>2 DEF r, y
  <2>5. Len(r) + 1 \in 1..Len(tasks') /\ tasks'[Len(r) + 1] = y
    BY <2>4
  <2> QED
    BY <2>3, <2>5 DEF Promised
<1>5. CASE ~StartSave(o) /\ ~HandleVlmAnalysis(o)
  <2>1. state'[o] \notin {"NEW", "ENDED", "WAITING_FOR_VLM"}
        /\ start_at'[o] \notin {"none", "CreateNewSession", "created"}
    BY DEF Due, Subscribed
  <2>2. state[o] # "WAITING_FOR_VLM"
    BY <1>1, <1>5, <2>1, LeavesVlm
  <2>3. state[o] # "ENDED"
    BY <1>1, <2>1, MissionUp DEF Parts, Commands, Continues
  <2>4. Starts(o) => state'[o] \in {"IDLE", "ENDED"}
    BY <1>1 DEF Starts, Start, Goto, Terminate, MissionTypeOK
  <2>5. start_at[o] \notin {"none", "CreateNewSession", "created"}
    BY <1>1, <1>5, <2>1, <2>4, StartMoves DEF Awaited
  <2>6. state[o] # "NEW"
    BY <1>1, <2>5 DEF MissionInv, Accounted
  <2> QED
    BY <2>2, <2>3, <2>5, <2>6 DEF Due, Subscribed
<1> QED
  BY <1>3, <1>4, <1>5

\* Of its own analysis a mission awaits the answer.
LEMMA DueAtRest ==
  ASSUME SessionInv, RunInv, NEW o \in Orchs, AskedOnce(o), Due(o)
  PROVE  /\ None(Analysing, tasks, o) /\ NoAnswer(lock_queue[o])
         /\ lock_queue[o] # <<>> => Holder(o).kind = "save"
<1>1. state[o] \notin {"WAITING_FOR_VLM", "ENDED"}
  BY DEF Due, Subscribed
<1>2. AtRest(o, tasks, lock_queue[o])
  BY <1>1 DEF AskedOnce
<1>3. lock_queue[o] # <<>> => /\ Holder(o) \in Handler /\ Holder(o) = lock_queue[o][1]
                              /\ 1 \in 1..Len(lock_queue[o])
  BY HolderFits
<1>4. \A h \in Handler : h.kind \in {"analysis", "save"}
  BY DEF Handler
<1> QED
  BY <1>2, <1>3, <1>4 DEF AtRest, NoAnswer

\* What the bridge is given or says keeps a promise, unless it takes it up.
LEMMA PromiseShifted ==
  ASSUME NEW o, Promised(tasks, o), NEW s \in {0, 1}, NEW K, Shifts(s, K),
         s = 1 => tasks # <<>> /\ Task.type # "ChatErrorOccurred"
                  /\ ~(Task.type = "SaveSession" /\ Task.by = o)
  PROVE  Promised(tasks', o)
<1>1. PICK i \in 1..Len(tasks) : (tasks[i].type = "SaveSession" /\ tasks[i].by = o)
                                   \/ Failed(tasks[i], o)
  BY DEF Promised
<1>2. i \in (1 + s)..Len(tasks)
  BY <1>1 DEF Task, Failed
<1>3. i - s \in 1..Len(tasks') /\ tasks'[i - s] = tasks[i]
  BY <1>2 DEF Shifts
<1> QED
  BY <1>1, <1>3 DEF Promised

\* An error is published for everybody who lives.
LEMMA FailurePromised ==
  ASSUME NEW q \in Seq(VlmItem), NEW o \in Subscribed,
         tasks' = Publish(q, ChatNews("ChatErrorOccurred", MissionOf[o]))
  PROVE  Promised(tasks', o)
<1> DEFINE e == ChatNews("ChatErrorOccurred", MissionOf[o])
<1>1. Failed(e, o) /\ e.to # {}
  BY DEF ChatNews, Failed
<1> HIDE DEF e
<1>2. tasks' = Append(q, e)
  BY <1>1 DEF Publish, e
<1>3. Len(tasks') \in 1..Len(tasks') /\ tasks'[Len(tasks')] = e
  BY <1>2
<1> QED
  BY <1>1, <1>3 DEF Promised

\* Nothing about the chat of o changes, and its promises stay.
LEMMA StoredKept ==
  ASSUME NEW o \in Orchs, Stored(o), Due(o)' => Due(o) \/ Promised(tasks', o),
         Due(o)' /\ Promised(tasks, o) => Promised(tasks', o),
         lock_queue'[o] = lock_queue[o], history'[o] = history[o],
         disk'[MissionOf[o]] = disk[MissionOf[o]]
  PROVE  Stored(o)'
<1> DEFINE t == tasks'
           d == Due(o)'
<1>1. d => Promised(t, o) \/ AwaitsSave(lock_queue[o])
             \/ Kept(lock_queue[o], history[o], disk[MissionOf[o]])
  BY DEF Stored
<1>2. tasks' = t /\ Due(o)' = d
  OBVIOUS
<1> HIDE DEF t, d
<1> QED
  BY <1>1, <1>2 DEF Stored, Promised, AwaitsSave, Kept, HeadAt, Failed, PhotosIn

LEMMA StoredBySession ==
  ASSUME SessionInv, RunInv, SessionCommand, NEW o \in Orchs,
         AskedOnce(o), Creating(o), Stored(o)
  PROVE  Stored(o)'
<1> DEFINE t == Task.by
<1>1. /\ tasks \in Seq(VlmItem) /\ tasks # <<>> /\ Task.type \in SessionTypes
      /\ t \in Orchs /\ Chat \in Missions /\ Chat = MissionOf[t] /\ Says(Tail(tasks), Chat)
  <2>1. /\ tasks \in Seq(VlmItem) /\ tasks # <<>> /\ Task.type \in SessionTypes /\ t \in Orchs
        /\ Says(Tail(tasks), Chat)
    BY OrchAssumption, SessionSays DEF SessionInv, MissionInv
  <2> QED
    BY <2>1, OrchAssumption DEF Chat, OrchAssumption
<1>2. Shifts(1, Requests)
  BY <1>1, SaysShifts
<1>3. UNCHANGED <<orchVars, disk>> /\ Due(o)' = Due(o)
  <2>1. UNCHANGED <<orchVars, disk>>
    BY DEF SessionCommand, HandleCreateNewSession, HandleDeleteSession, HandleAnalyzePhoto,
           HandleSaveSession, UseSession
  <2> QED
    BY <2>1 DEF orchVars, Due, Subscribed
<1>4. ~(Task.type = "SaveSession" /\ t = o) /\ Promised(tasks, o) => Promised(tasks', o)
  BY <1>1, <1>2, PromiseShifted DEF SessionTypes
<1>5. CASE ~Due(o)
  BY <1>3, <1>5 DEF Stored
<1>6. CASE Due(o) /\ ~(Task.type = "SaveSession" /\ t = o)
  <2>1. ~(Task.type = "AnalyzePhoto" /\ t = o)
    <3>1. Task.type = "AnalyzePhoto" /\ t = o => Token(Analysing, tasks[1], o) /\ 1 \in 1..Len(tasks)
      BY <1>1 DEF Token, Analysing, Task
    <3> QED
      BY <1>6, <3>1, DueAtRest DEF None
  <2>2. ~(Task.type = "CreateNewSession" /\ t = o)
    <3>1. 1 \in 1..Len(tasks) /\ tasks[1] = Task
      BY <1>1 DEF Task
    <3> QED
      BY <1>6, <3>1 DEF Creating, Queued, Due
  <2>3. history'[o] = history[o]
    <3>1. UNCHANGED history \/ (Task.type = "CreateNewSession" /\ history' = [history EXCEPT ![t] = <<"user">>])
      BY DEF SessionCommand, HandleCreateNewSession, HandleDeleteSession, HandleAnalyzePhoto,
             HandleSaveSession, UseSession, conversationVars, Taken
    <3> QED
      BY <1>1, <2>2, <3>1 DEF SessionInv, VlmTypeOK
  <2>4. lock_queue'[o] = lock_queue[o]
    <3>1. ASSUME NEW kind \in {"analysis", "save"}, NEW error \in ChatNotice,
                 UseSession(NewHandler(kind), error), t # o
          PROVE  lock_queue'[o] = lock_queue[o]
      BY <1>1, <3>1, SessionJoins DEF SessionInv, VlmTypeOK
    <3>2. CASE HandleAnalyzePhoto
      BY <2>1, <3>1, <3>2 DEF HandleAnalyzePhoto, ChatNotice, Taken
    <3>3. CASE HandleSaveSession
      BY <1>6, <3>1, <3>3 DEF HandleSaveSession, ChatNotice, Taken
    <3>4. CASE HandleCreateNewSession \/ HandleDeleteSession
      BY <3>4 DEF HandleCreateNewSession, HandleDeleteSession
    <3> QED
      BY <3>2, <3>3, <3>4 DEF SessionCommand
  <2> QED
    BY <1>3, <1>4, <1>6, <2>3, <2>4, StoredKept
<1>7. CASE Due(o) /\ Task.type = "SaveSession" /\ t = o
  <2>1. UseSession(NewHandler("save"), "ChatErrorOccurred") /\ UNCHANGED history
    BY <1>7 DEF SessionCommand, HandleCreateNewSession, HandleDeleteSession, HandleAnalyzePhoto,
                HandleSaveSession, UseSession, conversationVars, Taken
  <2>2. o \in Subscribed /\ Tail(tasks) \in Seq(VlmItem) /\ Chat = MissionOf[o]
    BY <1>1, <1>7 DEF Due
  <2>3. CASE tasks' = Publish(Tail(tasks), ChatNews("ChatErrorOccurred", Chat))
    <3>1. Promised(tasks', o)
      BY <2>2, <2>3, FailurePromised
    <3> QED
      BY <3>1 DEF Stored, Promised, Failed
  <2>4. CASE \E h \in Handler :
               /\ h.kind = "save"
               /\ h.at = "lock" \/ (lock_queue[o] = <<>> /\ h.at = "history" /\ h.saved = history[o])
               /\ lock_queue' = [lock_queue EXCEPT ![o] = Append(@, h)]
    <3>1. PICK h \in Handler :
            /\ h.kind = "save"
            /\ h.at = "lock" \/ (lock_queue[o] = <<>> /\ h.at = "history" /\ h.saved = history[o])
            /\ lock_queue' = [lock_queue EXCEPT ![o] = Append(@, h)]
      BY <2>4
    <3> DEFINE r == lock_queue[o]
               k == lock_queue'[o]
               m == history[o]
    <3>2. /\ Len(k) = Len(r) + 1 /\ Len(r) \in Nat /\ k[Len(k)] = h
          /\ lock_queue'[o] = k /\ history'[o] = m
      BY <2>1, <3>1, JoinQueue DEF SessionInv
    <3> HIDE DEF k, m
    <3>3. h.at = "lock" => AwaitsSave(k)
      <4> HIDE DEF r
      <4>1. Len(k) \in 1..Len(k)
        BY <3>2
      <4> QED
        BY <3>1, <3>2, <4>1 DEF AwaitsSave
    <3>4. r = <<>> /\ h.at = "history" /\ h.saved = m => HeadAt(k, "history") /\ k[1].saved = m
      <4>1. r = <<>> => Len(r) = 0
        OBVIOUS
      <4>2. r = <<>> => Len(k) = 1
        BY <3>2, <4>1
      <4>3. r = <<>> => k[1] = h /\ k # <<>>
        BY <3>2, <4>2
      <4> QED
        BY <4>3 DEF HeadAt
    <3>5. AwaitsSave(k) \/ (HeadAt(k, "history") /\ k[1].saved = m)
      BY <3>1, <3>3, <3>4 DEF m
    <3> HIDE DEF r
    <3> QED
      BY <3>2, <3>5 DEF Stored, AwaitsSave, Kept, HeadAt
  <2> QED
    BY <1>1, <1>7, <2>1, <2>3, <2>4, SessionJoins DEF ChatNotice
<1> QED
  BY <1>5, <1>6, <1>7

LEMMA StoredByMove ==
  ASSUME SessionInv, NEW p \in Orchs, MissionMove(p), NEW o \in Orchs, Stored(o)
  PROVE  Stored(o)'
<1>1. UNCHANGED <<lock_queue, history, disk>>
  BY DEF MissionMove, vlmVars, sessionVars, conversationVars
<1>2. Due(o)' => Due(o) \/ Promised(tasks', o)
  <2>1. CASE o = p
    BY <2>1, DueMoved
  <2>2. CASE o # p
    BY <2>2, MissionUp DEF SessionInv, Due, Subscribed
  <2> QED
    BY <2>1, <2>2
<1>3. Due(o)' /\ Promised(tasks, o) => Promised(tasks', o)
  BY PromiseMoved DEF SessionInv, Due
<1> QED
  BY <1>1, <1>2, <1>3, StoredKept

\* A file of o is written by the handlers of o.
LEMMA DiskOfOthers ==
  ASSUME SessionInv, RunInv, NEW l \in Orchs, HandlerStep(l), NEW o \in Subscribed, o # l
  PROVE  disk'[MissionOf[o]] = disk[MissionOf[o]]
<1>1. o \in Orchs /\ ~Free(o)
  BY LiveIsNotFree DEF RunInv, Live, Subscribed
<1>2. lock_queue[l] # <<>>
  BY HandlerSteps DEF SessionInv
<1>3. ~Free(l) /\ Holder(l).by = l
  BY <1>2, HolderFits DEF Fits
<1>4. MissionOf[l] # MissionOf[o]
  BY <1>1, <1>3 DEF RunInv, Apart
<1>5. \/ UNCHANGED disk
      \/ \E x : disk' = [disk EXCEPT ![MissionOf[l]] = x]
  <2>1. CASE WriteHistory(l)
    BY <1>3, <2>1 DEF WriteHistory
  <2>2. CASE WriteImages(l)
    BY <1>3, <2>2 DEF WriteImages
  <2>3. CASE UNCHANGED disk
    BY <2>3
  <2> QED
    BY <2>1, <2>2, <2>3, HandlerSteps
    DEF SessionInv, Enters, Breaks, Encodes, Asks, ModelAnswers
<1>6. MissionOf[o] \in Missions
  BY <1>1, OrchAssumption DEF OrchAssumption
<1> QED
  BY <1>4, <1>5, <1>6 DEF SessionInv, VlmTypeOK

\* A save that waits for the lock does so until it is its turn.
LEMMA StillAwaits ==
  ASSUME SessionInv, RunInv, NEW l \in Orchs, lock_queue[l] # <<>>, Holder(l).at # "lock",
         AwaitsSave(lock_queue[l]),
         Release(l) \/ \E h \in Handler : Continue(l, h)
  PROVE  AwaitsSave(lock_queue'[l])
<1> DEFINE r == lock_queue[l]
           k == lock_queue'[l]
<1>1. PICK i \in 1..Len(r) : r[i].kind = "save" /\ r[i].at = "lock"
  BY DEF AwaitsSave
<1>2. i # 1 /\ r \in Seq(Handler)
  BY <1>1, HolderFits DEF SessionInv, VlmTypeOK
<1>3. CASE Release(l)
  <2>1. Len(k) + 1 = Len(r) /\ \A j \in 1..Len(k) : k[j] = r[j + 1]
    BY <1>3, ReleaseQueue DEF SessionInv
  <2> HIDE DEF r, k
  <2>2. i - 1 \in 1..Len(k) /\ (i - 1) + 1 = i
    BY <1>1, <1>2, <2>1
  <2>3. k[i - 1] = r[i]
    BY <2>1, <2>2
  <2>4. AwaitsSave(k)
    BY <1>1, <2>2, <2>3 DEF AwaitsSave
  <2> QED
    BY <2>4 DEF k
<1>4. CASE \E h \in Handler : Continue(l, h)
  <2>1. Len(k) = Len(r) /\ \A j \in 2..Len(r) : k[j] = r[j]
    BY <1>4, ContinueQueue DEF SessionInv
  <2> HIDE DEF r, k
  <2>2. i \in 2..Len(r) /\ i \in 1..Len(k)
    BY <1>1, <1>2, <2>1
  <2>3. AwaitsSave(k)
    BY <1>1, <2>1, <2>2 DEF AwaitsSave
  <2> QED
    BY <2>3 DEF k
<1> QED
  BY <1>3, <1>4

LEMMA StoredByHolder ==
  ASSUME SessionInv, RunInv, NEW l \in Orchs, HandlerStep(l), AskedOnce(l), Stored(l), Due(l)
  PROVE  Stored(l)'
<1> DEFINE r == lock_queue[l]
           k == lock_queue'[l]
           h == history[l]
           m == MissionOf[l]
           at == Holder(l).at
<1>1. /\ tasks \in Seq(VlmItem) /\ VlmTypeOK /\ r # <<>> /\ l \in Subscribed /\ m \in Missions
  BY HandlerSteps, OrchAssumption DEF SessionInv, MissionInv, Due, OrchAssumption
<1>2. /\ Holder(l) = r[1] /\ Fits(l, Holder(l)) /\ Holder(l).kind = "save"
      /\ Holder(l).by = l /\ at \in {"lock", "history", "images"} /\ Holder(l) \in Handler
  <2>1. Holder(l) = r[1] /\ Fits(l, Holder(l)) /\ Holder(l).kind = "save" /\ Holder(l) \in Handler
    BY <1>1, HolderFits, DueAtRest
  <2>2. at \in At
    BY <2>1 DEF Handler
  <2> QED
    BY <2>1, <2>2 DEF Fits, At
<1>3. \A x : HeadAt(r, x) <=> at = x
  BY <1>1, <1>2 DEF HeadAt
<1>4. Promised(tasks, l) \/ AwaitsSave(r) \/ Kept(r, h, disk[m])
  BY DEF Stored
<1>5. Promised(tasks, l) => Promised(tasks', l)
  <2>1. Says(tasks, m)
    BY <1>1, <1>2, OrchAssumption, HandlerSays DEF SessionInv
  <2>2. Shifts(0, Requests)
    BY <1>1, <2>1, SaysShifts
  <2> QED
    BY <2>2, PromiseShifted
<1>6. at # "lock" /\ AwaitsSave(r) /\ (Release(l) \/ \E x \in Handler : Continue(l, x))
        => AwaitsSave(k)
  BY <1>1, StillAwaits
<1>7. ASSUME history' = history,
             Promised(tasks', l) \/ AwaitsSave(k) \/ Kept(k, h, disk'[m])
      PROVE  Stored(l)'
  <2> DEFINE t == tasks'
             d == disk'[m]
  <2>1. tasks' = t /\ lock_queue'[l] = k /\ disk'[MissionOf[l]] = d /\ history'[l] = h
    BY <1>7
  <2>2. Promised(t, l) \/ AwaitsSave(k) \/ Kept(k, h, d)
    BY <1>7
  <2> HIDE DEF t, d, k, h, m
  <2> QED
    BY <2>1, <2>2 DEF Stored, Promised, AwaitsSave, Kept, HeadAt, Failed, PhotosIn
<1>8. CASE Release(l) /\ Breaks(l)
  <2>1. tasks' = Publish(tasks, ChatNews("ChatErrorOccurred", m)) /\ history' = history
    BY <1>2, <1>8 DEF Breaks, Fail, ErrorOf
  <2> HIDE DEF r, k, h
  <2> QED
    BY <1>1, <1>7, <2>1, FailurePromised
<1>9. CASE Release(l) /\ ModelAnswers(l)
  BY <1>2, <1>9 DEF ModelAnswers, HeldAt
<1>10. CASE Release(l) /\ WriteImages(l)
  <2>1. /\ at = "images" /\ history' = history
        /\ disk' = [disk EXCEPT ![m].images = PhotosIn(Holder(l).saved)]
    BY <1>2, <1>10 DEF WriteImages, conversationVars, HeldAt
  <2>2. CASE Kept(r, h, disk[m])
    <3>1. Holder(l).saved = h /\ disk[m].messages = h
      BY <1>2, <1>3, <2>1, <2>2 DEF Kept
    <3>2. disk[m] \in [messages : Seq(Role), images : Nat]
      BY <1>1 DEF VlmTypeOK
    <3>3. disk'[m] = [messages |-> h, images |-> PhotosIn(h)]
      <4>1. disk'[m] = [disk[m] EXCEPT !.images = PhotosIn(h)]
        BY <1>1, <2>1, <3>1 DEF VlmTypeOK
      <4> HIDE DEF h, m
      <4> QED
        BY <3>1, <3>2, <4>1
    <3>4. k = <<>> \/ k[1].at = "lock"
      BY <1>1, <1>10, NextWaits
    <3>5. Kept(k, h, disk'[m])
      BY <3>3, <3>4 DEF Kept, HeadAt
    <3> QED
      BY <1>7, <2>1, <3>5
  <2> QED
    BY <1>4, <1>5, <1>6, <1>7, <1>10, <2>1, <2>2
<1>11. ASSUME NEW x \in Handler, Continue(l, x), Enters(l, l), x = Entered(Holder(l), l)
       PROVE  Stored(l)'
  <2>1. x.at = "history" /\ x.saved = h /\ history' = history
    BY <1>1, <1>2, <1>11, EnteredTyped DEF Enters
  <2>2. k # <<>> /\ k[1] = x
    BY <1>1, <1>11, ContinueQueue
  <2>3. Kept(k, h, disk'[m])
    BY <2>1, <2>2 DEF Kept, HeadAt
  <2> QED
    BY <1>7, <2>1, <2>3
<1>12. ASSUME NEW x \in Handler, Continue(l, x), WriteHistory(l), x.at = "images",
              x.saved = Holder(l).saved
       PROVE  Stored(l)'
  <2>1. /\ at = "history" /\ history' = history
        /\ disk' = [disk EXCEPT ![m].messages = Holder(l).saved]
    BY <1>2, <1>12 DEF WriteHistory, conversationVars, HeldAt
  <2>2. k # <<>> /\ k[1] = x
    BY <1>1, <1>12, ContinueQueue
  <2>3. CASE Kept(r, h, disk[m])
    <3>1. Holder(l).saved = h
      BY <1>2, <1>3, <2>1, <2>3 DEF Kept
    <3>2. disk[m] \in [messages : Seq(Role), images : Nat]
      BY <1>1 DEF VlmTypeOK
    <3>3. disk'[m].messages = h
      <4>1. disk'[m] = [disk[m] EXCEPT !.messages = h]
        BY <1>1, <2>1, <3>1 DEF VlmTypeOK
      <4> HIDE DEF h, m
      <4> QED
        BY <3>2, <4>1
    <3>4. Kept(k, h, disk'[m])
      BY <1>12, <2>2, <3>1, <3>3 DEF Kept, HeadAt
    <3> QED
      BY <1>7, <2>1, <3>4
  <2>4. at # "lock"
    BY <2>1
  <2> HIDE DEF r, k, h, at, m
  <2> QED
    BY <1>4, <1>5, <1>6, <1>7, <1>12, <2>1, <2>3, <2>4
<1>13. ~Encodes(l) /\ ~Asks(l)
  BY <1>2 DEF Encodes, Asks
<1> HIDE DEF r, k, h, at, m
<1> QED
  BY <1>8, <1>9, <1>10, <1>11, <1>12, <1>13, HandlerMoves

LEMMA StoredByHandler ==
  ASSUME SessionInv, RunInv, NEW l \in Orchs, HandlerStep(l), NEW o \in Orchs,
         AskedOnce(o), Stored(o)
  PROVE  Stored(o)'
<1>1. lock_queue[l] # <<>> /\ VlmTypeOK /\ tasks \in Seq(VlmItem) /\ Due(o)' = Due(o)
  BY HandlerSteps DEF SessionInv, MissionInv, orchVars, Due, Subscribed
<1>2. CASE ~Due(o)
  BY <1>1, <1>2 DEF Stored
<1>3. CASE o = l /\ Due(o)
  BY <1>3, StoredByHolder
<1>4. CASE o # l /\ Due(o)
  <2>1. history'[o] = history[o]
    BY <1>4, HandlerWrites
  <2>2. lock_queue'[o] = lock_queue[o]
    <3>1. OthersWait(l)
      BY <1>1, HandlerMoves, ReleaseQueue, ContinueQueue
    <3> QED
      BY <1>4, <3>1 DEF OthersWait
  <2>3. disk'[MissionOf[o]] = disk[MissionOf[o]]
    BY <1>4, DiskOfOthers DEF Due
  <2>4. Promised(tasks, o) => Promised(tasks', o)
    <3>1. Says(tasks, MissionOf[Holder(l).by])
      BY <1>1, OrchAssumption, HandlerSays
    <3>2. Shifts(0, Requests)
      BY <1>1, <3>1, SaysShifts
    <3> QED
      BY <3>2, PromiseShifted
  <2> QED
    BY <1>1, <1>4, <2>1, <2>2, <2>3, <2>4, StoredKept
<1> QED
  BY <1>2, <1>3, <1>4

LEMMA StoredStep ==
  ASSUME SessionInv, RunInv, [VlmNext]_allVars, NEW o \in Orchs,
         AskedOnce(o), Creating(o), Stored(o)
  PROVE  Stored(o)'
<1>1. tasks \in Seq(VlmItem) /\ VlmTypeOK
  BY DEF SessionInv, MissionInv
<1>2. CASE Passes
  <2>1. UNCHANGED <<lock_queue, history, disk>> /\ Due(o)' = Due(o)
    BY <1>2 DEF Passes, sessionVars, conversationVars, orchVars, Due, Subscribed
  <2>2. PICK s \in {0, 1}, K \in {Requests, CommandTypes} :
          /\ Shifts(s, K)
          /\ s = 1 => tasks # <<>> /\ Task.type \in CommandTypes \ SessionTypes
    BY <1>1, <1>2, PassesShifts
  <2>3. Promised(tasks, o) => Promised(tasks', o)
    <3>1. "SaveSession" \in SessionTypes /\ "ChatErrorOccurred" \notin CommandTypes
      BY DEF SessionTypes, CommandTypes, Awaited
    <3> QED
      BY <2>2, <3>1, PromiseShifted
  <2> QED
    BY <2>1, <2>3, StoredKept
<1> QED
  BY <1>1, <1>2, VlmSteps, StoredByMove, StoredBySession, StoredByHandler

-----------------------------------------------------------------------------
(* Theorems *)

(* Every variable of the chats keeps its type: a handler has a conversation  *)
(* object exactly once it has had the lock.                                  *)
THEOREM SessionsTyped == VlmSpec => []VlmTypeOK
<1>1. SessionInv => VlmTypeOK
  BY DEF SessionInv
<1> QED
  BY <1>1, SessionInvariant, PTL

(* No chat is left behind, and none without its lock: a session belongs to a *)
(* mission under way, or its DeleteSession is queued, whatever has ended the *)
(* mission while its start(), a save or an analysis was suspended, and       *)
(* however its id is used again.                                             *)
THEOREM SessionsOwned == VlmSpec => []SessionIsOwned
<1>1. SessionInv => SessionIsOwned
  BY DEF SessionInv, VlmTypeOK, Paired, Owned, Live, SessionIsOwned
<1> QED
  BY <1>1, SessionInvariant, PTL

(* While an id is used again only when nothing of its earlier runs is left,  *)
(* a conversation is sent to the model with all its earlier questions        *)
(* answered and no message begun, and nobody else writes to it until the     *)
(* answer is there.                                                          *)
THEOREM QuestionsTakeTurns ==
  ASSUME Patient
  PROVE  VlmSpec => []OneQuestionAtATime
<1>1. ASSUME Conversing
      PROVE  OneQuestionAtATime
  <2> SUFFICES ASSUME NEW l \in Orchs, HeldAt(l, "send")
               PROVE  LET conv == Holder(l).conv
                      IN  /\ Alternates(history[conv]) /\ Len(history[conv]) % 2 = 0
                          /\ transaction[conv] = "none"
                          /\ \A k \in Orchs \ {l} : lock_queue[k] # <<>> => Holder(k).conv # conv
    BY DEF OneQuestionAtATime
  <2>1. SessionInv /\ RunInv /\ Turn(l) /\ lock_queue[l] # <<>> /\ Holder(l).at = "send"
    BY <1>1 DEF Conversing, HeldAt
  <2>2. Holder(l).conv = l /\ Holder(l) = lock_queue[l][1]
    BY <2>1, HolderFits
  <2>3. HeadAt(lock_queue[l], "send") /\ ~HeadAt(lock_queue[l], "image")
    BY <2>1, <2>2 DEF HeadAt
  <2>4. Alternates(history[l]) /\ Len(history[l]) % 2 = 0 /\ transaction[l] = "none"
    BY <2>1, <2>3 DEF Turn
  <2>5. ASSUME NEW k \in Orchs \ {l}, lock_queue[k] # <<>>
        PROVE  Holder(k).conv # l
    BY <2>1, <2>5, HolderFits, VlmAssumption DEF Fits, VlmAssumption
  <2> QED
    BY <2>2, <2>4, <2>5
<1>2. VlmInit => Conversing
  BY ConversingStart
<1>3. Conversing /\ [VlmNext]_allVars => Conversing'
  BY ConversingStep
<1>4. VlmSpec => []Conversing
  BY <1>2, <1>3, PTL DEF VlmSpec
<1> QED
  BY <1>1, <1>4, PTL

(* Under the same condition a mission that neither waits for the VLM nor has *)
(* a save on its way, and has not been told of a failure, finds its whole    *)
(* conversation on disk: an answer always queues a save before the next      *)
(* question can be put, a save takes the messages there are when it gets the *)
(* lock, and no other run of the id writes meanwhile.                        *)
THEOREM ConversationsSaved ==
  ASSUME Patient
  PROVE  VlmSpec => []SavedIsComplete
<1> DEFINE Storing == \A o \in Orchs : Stored(o)
<1>1. ASSUME Conversing, Storing
      PROVE  SavedIsComplete
  <2> SUFFICES ASSUME NEW o \in Subscribed,
                      start_at[o] = "finished",
                      state[o] \in MissionState \ {"IDLE", "WAITING_FOR_VLM"},
                      ~Queued("SaveSession", o), ~Saving(o),
                      \A i \in 1..Len(tasks) : tasks[i].type # "ChatErrorOccurred"
               PROVE  disk[MissionOf[o]] = [messages |-> history[o],
                                            images |-> PhotosIn(history[o])]
    BY DEF SavedIsComplete
  <2>1. o \in Orchs /\ Due(o) /\ SessionInv /\ RunInv
    BY <1>1 DEF Due, Subscribed, Conversing
  <2>2. ~Promised(tasks, o)
    BY DEF Promised, Failed, Queued
  <2>3. \A i \in 1..Len(lock_queue[o]) : lock_queue[o][i].kind # "save"
    BY <2>1 DEF Saving, HandlersBy, RunInv, Locks, Fits
  <2>4. ~AwaitsSave(lock_queue[o])
    BY <2>3 DEF AwaitsSave
  <2>5. ~HeadAt(lock_queue[o], "history") /\ ~HeadAt(lock_queue[o], "images")
    BY <2>1, <2>3, HolderFits DEF HeadAt, Fits
  <2>6. Kept(lock_queue[o], history[o], disk[MissionOf[o]])
    BY <1>1, <2>1, <2>2, <2>4 DEF Stored
  <2> QED
    BY <2>5, <2>6 DEF Kept
<1>2. VlmInit => Conversing /\ Storing
  BY ConversingStart DEF VlmInit, ManagerInit, Init, Stored, Due, Subscribed
<1>3. Conversing /\ Storing /\ [VlmNext]_allVars => (Conversing /\ Storing)'
  <2> SUFFICES ASSUME Conversing, Storing, [VlmNext]_allVars
               PROVE  Conversing' /\ Storing'
    OBVIOUS
  <2>1. \A o \in Orchs : Stored(o)'
    BY StoredStep DEF Conversing
  <2> QED
    BY <2>1, ConversingStep
<1>4. VlmSpec => [](Conversing /\ Storing)
  BY <1>2, <1>3, PTL DEF VlmSpec
<1> QED
  BY <1>1, <1>4, PTL

=============================================================================
