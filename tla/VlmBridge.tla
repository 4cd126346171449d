------------------------------- MODULE VlmBridge -------------------------------
(***************************************************************************)
(* The chat sessions of mission_control/ai/vision/vlm_bridge.py, with the  *)
(* conversations of ai/conversation/{openai,gemini}_conversation.py and    *)
(* the files of ai/conversation/chat_storage_helper.py.  It closes the     *)
(* environment of MissionManager on the side of the VLM: AnalyzePhoto and  *)
(* the session commands are handled here, and what they answer is ChatNews.*)
(*                                                                         *)
(* The handlers are coroutines.  Those of one chat take turns with an      *)
(* asyncio.Lock, which wakes its waiters first in, first out.  A session   *)
(* is a conversation object and a lock object, made together; both carry   *)
(* the name of the orchestrator they were made for, because a handler may  *)
(* keep them longer than the dictionaries do.  LoadSession, which nothing  *)
(* in the repository publishes, is left out.                               *)
(***************************************************************************)
EXTENDS MissionManager

CONSTANTS
  Nobody,      \* no session: the key is missing
  Backends,    \* keys of LLM_BACKEND_FACTORIES: subset of {"openai", "gemini"}
  Failures,    \* what may fail: subset of {"session", "photo", "model", "answer",
               \* "storage"}
  MaxMessages, \* bound: no warnings in a longer conversation
  Patient      \* an id is used again only when its earlier run has left nothing

ASSUME VlmAssumption ==
  /\ Nobody \notin Orchs
  /\ Backends \subseteq {"openai", "gemini"} /\ Backends # {}
  /\ Failures \subseteq {"session", "photo", "model", "answer", "storage"}
  /\ MaxMessages \in Nat
  /\ Patient \in BOOLEAN

VARIABLES
  conversations,  \* VLMBridge.conversations: chat -> conversation object
  chat_locks,     \* VLMBridge.chat_locks: chat -> lock object
  lock_queue,     \* of a lock object: the handler that holds it, then its waiters
  history,        \* of a conversation object: the roles of its messages
  transaction,    \* of a conversation object: the role of an open transaction
  model_backend,  \* Config.model_backend
  backend,        \* of a conversation object: the class it was made of
  disk            \* chat -> what history.json and the assets directory hold

sessionVars == <<conversations, chat_locks, lock_queue>>
conversationVars == <<history, transaction, backend>>
vlmVars == <<sessionVars, conversationVars, model_backend, disk>>
allVars == <<managerVars, vlmVars>>

\* Where a handler is suspended.  `conv' is the conversation object it uses.
\* A handler that waits for the lock has no conversation yet.
At == {"lock", "prepare", "image", "send", "history", "images", "lost"}
Role == {"user", "assistant"}
Handler == {h \in [kind : {"analysis", "save"}, by : Orchs, at : At,
                   conv : Orchs \cup {Nobody}, saved : Seq(Role)] :
              h.conv = Nobody <=> h.at = "lock"}

Taken(type) == tasks # <<>> /\ Task.type = type
Chat == MissionOf[Task.by]
ChatNews(type, m) == [type |-> type, mission |-> m, to |-> Subscribed]

-----------------------------------------------------------------------------
(* Sessions *)

\* The prompt is committed without being sent: nothing in this handler suspends.  A
\* chat that is there is an error, and so is a model's key or name that is wrong.
HandleCreateNewSession ==
  /\ Taken("CreateNewSession")
  /\ \/ /\ conversations[Chat] # Nobody \/ "session" \in Failures
        /\ tasks' = Publish(Tail(tasks), ChatNews("ChatErrorOccurred", Chat))
        /\ UNCHANGED <<conversations, chat_locks, history, backend>>
     \/ /\ conversations[Chat] = Nobody
        /\ conversations' = [conversations EXCEPT ![Chat] = Task.by]
        /\ chat_locks' = [chat_locks EXCEPT ![Chat] = Task.by]
        /\ history' = [history EXCEPT ![Task.by] = <<"user">>]
        /\ backend' = [backend EXCEPT ![Task.by] = model_backend]
        /\ tasks' = Tail(tasks)
  /\ UNCHANGED <<lock_queue, transaction, model_backend, disk>>

\* Slip: the conversation is forgotten, its lock is not.
DeleteConversationOnly ==
  /\ Taken("DeleteSession")
  /\ conversations' = [conversations EXCEPT ![Chat] = Nobody]
  /\ tasks' = Tail(tasks)
  /\ UNCHANGED <<chat_locks, lock_queue, conversationVars, model_backend, disk>>

\* A handler that holds or awaits the lock is not told.
HandleDeleteSession ==
  /\ Taken("DeleteSession")
  /\ conversations' = [conversations EXCEPT ![Chat] = Nobody]
  /\ chat_locks' = [chat_locks EXCEPT ![Chat] = Nobody]
  /\ tasks' = Tail(tasks)
  /\ UNCHANGED <<lock_queue, conversationVars, model_backend, disk>>

\* Config.model_backend: only sessions created later are made of it.
HandleChangeVlmModel(b) ==
  /\ b # model_backend
  /\ model_backend' = b
  /\ UNCHANGED <<tasks, sessionVars, conversationVars, disk>>

-----------------------------------------------------------------------------
(* The lock of a chat *)

\* What a handler does first under the lock: an analysis opens the photo, a
\* save takes the messages there are and opens history.json.
Entered(h, conv) ==
  [h EXCEPT !.at = IF h.kind = "analysis" THEN "prepare" ELSE "history",
            !.conv = conv,
            !.saved = IF h.kind = "save" THEN history[conv] ELSE <<>>]

\* A chat that is not there is an error.  A free lock is taken at once; chats
\* that are there have a lock.
UseSession(h, error) ==
  /\ IF conversations[Chat] = Nobody
     THEN /\ tasks' = Publish(Tail(tasks), ChatNews(error, Chat))
          /\ UNCHANGED lock_queue
     ELSE /\ lock_queue' = [lock_queue EXCEPT ![chat_locks[Chat]] =
                              Append(@, IF @ = <<>> THEN Entered(h, conversations[Chat])
                                                    ELSE h)]
          /\ tasks' = Tail(tasks)
  /\ UNCHANGED <<conversations, chat_locks, conversationVars, model_backend, disk>>

NewHandler(kind) == [kind |-> kind, by |-> Task.by, at |-> "lock", conv |-> Nobody,
                     saved |-> <<>>]

HandleAnalyzePhoto ==
  /\ Taken("AnalyzePhoto")
  /\ UseSession(NewHandler("analysis"), "VlmErrorOccurred")

HandleSaveSession ==
  /\ Taken("SaveSession")
  /\ UseSession(NewHandler("save"), "ChatErrorOccurred")

Holder(l) == Head(lock_queue[l])
HeldAt(l, at) == lock_queue[l] # <<>> /\ Holder(l).at = at

Continue(l, h) == lock_queue' = [lock_queue EXCEPT ![l][1] = h]
Release(l) == lock_queue' = [lock_queue EXCEPT ![l] = Tail(@)]
ErrorOf(h) == ChatNews(IF h.kind = "save" THEN "ChatErrorOccurred" ELSE "VlmErrorOccurred",
                       MissionOf[h.by])

\* Slip: a lock acquired and released by hand, not by the context manager.
FailHoldingLock(l) ==
  /\ tasks' = Publish(tasks, ErrorOf(Holder(l)))
  /\ lock_queue' = [lock_queue EXCEPT ![l][1].at = "lost"]

\* The context manager releases the lock on the way out of an exception.
Fail(l) == /\ tasks' = Publish(tasks, ErrorOf(Holder(l)))
           /\ Release(l)

\* A waiter looks the chat up again: it may have been deleted (a KeyError), and
\* even created anew for another run.
EnterLock(l) ==
  /\ HeldAt(l, "lock")
  /\ LET conv == conversations[MissionOf[Holder(l).by]]
     IN  IF conv = Nobody
         THEN Fail(l)
         ELSE Continue(l, Entered(Holder(l), conv)) /\ UNCHANGED tasks
  /\ UNCHANGED <<conversations, chat_locks, conversationVars, model_backend, disk>>

-----------------------------------------------------------------------------
(* The analysis of a photo *)

\* Appends the message under construction and sends the whole conversation.
CommitAndSend(l, conv) ==
  /\ history' = [history EXCEPT ![conv] = Append(@, "user")]
  /\ transaction' = [transaction EXCEPT ![conv] = "none"]
  /\ Continue(l, [Holder(l) EXCEPT !.at = "send"])

\* Height and grid are ready.  The Gemini conversation suspends while the image
\* is encoded, the OpenAI one only when the message is sent.  A transaction
\* under way is an exception, and its handler rolls that transaction back.
BeginTransaction(l) ==
  /\ HeldAt(l, "prepare")
  /\ LET conv == Holder(l).conv
     IN  \/ /\ transaction[conv] # "none"
            /\ transaction' = [transaction EXCEPT ![conv] = "none"]
            /\ Fail(l)
            /\ UNCHANGED history
         \/ /\ transaction[conv] = "none"
            /\ backend[conv] = "gemini"
            /\ transaction' = [transaction EXCEPT ![conv] = "user"]
            /\ Continue(l, [Holder(l) EXCEPT !.at = "image"])
            /\ UNCHANGED <<tasks, history>>
         \/ /\ transaction[conv] = "none"
            /\ backend[conv] = "openai"
            /\ CommitAndSend(l, conv)
            /\ UNCHANGED tasks
  /\ UNCHANGED <<conversations, chat_locks, backend, model_backend, disk>>

\* A photo or a telemetry file that cannot be read.
PrepareFails(l) ==
  /\ HeldAt(l, "prepare")
  /\ "photo" \in Failures
  /\ Fail(l)
  /\ UNCHANGED <<conversations, chat_locks, conversationVars, model_backend, disk>>

\* A transaction that was rolled back meanwhile cannot be committed.
CommitTransaction(l) ==
  /\ HeldAt(l, "image")
  /\ LET conv == Holder(l).conv
     IN  IF transaction[conv] = "none"
         THEN Fail(l) /\ UNCHANGED <<history, transaction>>
         ELSE CommitAndSend(l, conv) /\ UNCHANGED tasks
  /\ UNCHANGED <<conversations, chat_locks, backend, model_backend, disk>>

\* The OpenAI client waits out a rate limit; Gemini gives up after three tries.
ModelAnswers(l) ==
  /\ HeldAt(l, "send")
  /\ history' = [history EXCEPT ![Holder(l).conv] = Append(@, "assistant")]
  /\ Release(l)
  /\ \/ \E found \in BOOLEAN, move \in Moves :
          tasks' = Publish(tasks, [type |-> "VlmAnalysisCompleted",
                                   mission |-> MissionOf[Holder(l).by],
                                   found |-> found, move |-> move, to |-> Subscribed])
     \/ "answer" \in Failures /\ tasks' = Publish(tasks, ErrorOf(Holder(l)))
  /\ UNCHANGED <<conversations, chat_locks, transaction, backend, model_backend, disk>>

\* Slip: the question is put once more.
ModelFailsRetried(l) ==
  /\ HeldAt(l, "send")
  /\ "model" \in Failures
  /\ transaction' = [transaction EXCEPT ![Holder(l).conv] = "none"]
  /\ Continue(l, [Holder(l) EXCEPT !.at = "prepare"])
  /\ UNCHANGED <<tasks, conversations, chat_locks, history, backend, model_backend, disk>>

\* rollback_transaction() finds no open transaction: the message stays.
ModelFails(l) ==
  /\ HeldAt(l, "send")
  /\ "model" \in Failures
  /\ transaction' = [transaction EXCEPT ![Holder(l).conv] = "none"]
  /\ Fail(l)
  /\ UNCHANGED <<conversations, chat_locks, history, backend, model_backend, disk>>

-----------------------------------------------------------------------------
(* chat_storage_helper.save_chat: history.json first, then the images *)

\* Photos of a conversation: one per question after the prompt.
PhotosIn(messages) == Cardinality({i \in 2..Len(messages) : messages[i] = "user"})

\* Slip: the save is over when history.json is written.
WriteHistoryOnly(l) ==
  /\ HeldAt(l, "history")
  /\ disk' = [disk EXCEPT ![MissionOf[Holder(l).by]].messages = Holder(l).saved]
  /\ Release(l)
  /\ UNCHANGED <<tasks, conversations, chat_locks, conversationVars, model_backend>>

WriteHistory(l) ==
  /\ HeldAt(l, "history")
  /\ disk' = [disk EXCEPT ![MissionOf[Holder(l).by]].messages = Holder(l).saved]
  /\ Continue(l, [Holder(l) EXCEPT !.at = "images"])
  /\ UNCHANGED <<tasks, conversations, chat_locks, conversationVars, model_backend>>

WriteImages(l) ==
  /\ HeldAt(l, "images")
  /\ disk' = [disk EXCEPT ![MissionOf[Holder(l).by]].images = PhotosIn(Holder(l).saved)]
  /\ Release(l)
  /\ UNCHANGED <<tasks, conversations, chat_locks, conversationVars, model_backend>>

SaveFails(l) ==
  /\ HeldAt(l, "history") \/ HeldAt(l, "images")
  /\ "storage" \in Failures
  /\ Fail(l)
  /\ UNCHANGED <<conversations, chat_locks, conversationVars, model_backend, disk>>

-----------------------------------------------------------------------------
(* The event loop, the drone and the operator *)

SessionCommand ==
  /\ \/ HandleCreateNewSession \/ HandleDeleteSession
     \/ HandleAnalyzePhoto \/ HandleSaveSession
  /\ UNCHANGED <<orchVars, active>>

HandlerStep(l) ==
  /\ \/ EnterLock(l) \/ PrepareFails(l)
     \/ BeginTransaction(l) \/ CommitTransaction(l) \/ ModelAnswers(l) \/ ModelFails(l)
     \/ WriteHistory(l) \/ WriteImages(l) \/ SaveFails(l)
  /\ UNCHANGED <<orchVars, active>>

SessionTypes == {"CreateNewSession", "DeleteSession", "AnalyzePhoto", "SaveSession"}
HandlersBy(o) == {l \in Orchs : \E i \in 1..Len(lock_queue[l]) : lock_queue[l][i].by = o}

MissionStep ==
  /\ \/ HandleStartMission \/ HandleMissionEnded
     \/ /\ \E o \in Orchs : Handle(o) \/ (AwaitedDone(o) /\ HandlersBy(o) = {})
        /\ UNCHANGED active
     \/ /\ TakeCommand /\ Task.type \notin SessionTypes \cup {"SearchEnded"}
        /\ UNCHANGED active
  /\ UNCHANGED vlmVars

\* Nothing of a run is queued, suspended or waiting for a lock.
LeftNothing(o) ==
  /\ o \notin Subscribed
  /\ start_at[o] \in {"finished", "failed", "cancelled"}
  /\ HandlersBy(o) = {}
  /\ \A i \in 1..Len(tasks) : tasks[i].type \in CommandTypes => tasks[i].by # o

\* The web server never uses an id again, the CLI does; a request for an id that
\* runs is refused (MissionManager).
RequestMission(o) ==
  /\ RequestStart(o)
  /\ MissionOf[o] \notin active
  /\ Patient => \A p \in Orchs \ {o} :
                  MissionOf[p] = MissionOf[o] => state[p] = "NEW" \/ LeftNothing(p)
  /\ \A i \in 1..Len(tasks) : tasks[i].type # "StartMission"
  /\ UNCHANGED vlmVars

\* The drone and the operator speak when a run waits for them; the drone may
\* also fail at any time, which ends its mission.  (SearchOrchestrator has the
\* events nobody waits for, SearchSystem lost connections and failed moves.)
Speaks(o) ==
  \/ DroneAnswers(o)
  \/ /\ state[o] = "WAITING_FOR_USER"
     /\ OperatorSpeaks
     /\ tasks'[Len(tasks')].decision = "WARNING" => Len(history[o]) < MaxMessages

Environment == /\ \E o \in Subscribed : Speaks(o)
               /\ UNCHANGED <<active, vlmVars>>

\* (Bound: a change that no later session would see is left out.)
ChangeModel == /\ \E o \in Orchs : state[o] = "NEW"
               /\ \E b \in Backends : HandleChangeVlmModel(b)
               /\ UNCHANGED <<orchVars, active>>

VlmInit ==
  /\ ManagerInit
  /\ conversations = [m \in Missions |-> Nobody]
  /\ chat_locks = [m \in Missions |-> Nobody]
  /\ lock_queue = [o \in Orchs |-> <<>>]
  /\ history = [o \in Orchs |-> <<>>]
  /\ transaction = [o \in Orchs |-> "none"]
  /\ model_backend \in Backends
  /\ backend = [o \in Orchs |-> model_backend]
  /\ disk = [m \in Missions |-> [messages |-> <<>>, images |-> 0]]

VlmNext ==
  \/ MissionStep
  \/ SessionCommand
  \/ \E l \in Orchs : HandlerStep(l)
  \/ \E o \in Orchs : RequestMission(o)
  \/ ChangeModel
  \/ Environment

\* The loop runs its ready tasks, and files and models answer at last.
VlmFairness == /\ WF_allVars(MissionStep \/ SessionCommand)
               /\ \A l \in Orchs : WF_allVars(HandlerStep(l))

VlmSpec == VlmInit /\ [][VlmNext]_allVars /\ VlmFairness

-----------------------------------------------------------------------------
(* Properties *)

\* The values the variables take.
VlmTypeOK ==
  /\ conversations \in [Missions -> Orchs \cup {Nobody}]
  /\ chat_locks \in [Missions -> Orchs \cup {Nobody}]
  /\ lock_queue \in [Orchs -> Seq(Handler)]
  /\ history \in [Orchs -> Seq(Role)]
  /\ transaction \in [Orchs -> {"none", "user"}]
  /\ model_backend \in Backends
  /\ backend \in [Orchs -> Backends]
  /\ disk \in [Missions -> [messages : Seq(Role), images : Nat]]

\* Tasks of a type for a chat, and handlers of a kind by a run.
Queued(type, o) == \E i \in 1..Len(tasks) : tasks[i].type = type /\ tasks[i].by = o
Saving(o) == \E l \in HandlersBy(o) : \E i \in 1..Len(lock_queue[l]) :
               lock_queue[l][i].kind = "save" /\ lock_queue[l][i].by = o

(* A session outlives its mission by no more than its queued DeleteSession,  *)
(* and is never without its lock, or a lock without its session: whatever    *)
(* ends a mission while start(), a save or an analysis is suspended, no chat *)
(* stays behind that would make the next run of the id fail.                 *)
SessionIsOwned ==
  \A m \in Missions :
    /\ conversations[m] = chat_locks[m]
    /\ conversations[m] # Nobody =>
         \/ conversations[m] \in Subscribed
         \/ Queued("DeleteSession", conversations[m])

\* The prompt, answered questions, and at most one that is not answered yet.
Alternates(messages) ==
  \A i \in 1..Len(messages) : messages[i] = "assistant" <=> i >= 3 /\ i % 2 = 1

(* The model is asked one question at a time: a conversation goes to it only *)
(* with all earlier questions answered, also after a failure that left its   *)
(* question in the history (rollback_transaction finds the transaction       *)
(* closed), and no second handler writes to it meanwhile.                    *)
OneQuestionAtATime ==
  \A l \in Orchs : HeldAt(l, "send") =>
    LET conv == Holder(l).conv
    IN  /\ Alternates(history[conv]) /\ Len(history[conv]) % 2 = 0
        /\ transaction[conv] = "none"
        /\ \A k \in Orchs \ {l} : lock_queue[k] # <<>> => Holder(k).conv # conv

(* What a mission has learnt is on disk: once the save that follows an       *)
(* answer is done, and until the next answer, history.json and the images    *)
(* hold the whole conversation, although the saves run in the background     *)
(* and share the lock with the next analysis.                                *)
SavedIsComplete ==
  \A o \in Subscribed :
    LET m == MissionOf[o]
        saved == /\ start_at[o] = "finished"
                 /\ state[o] \in MissionState \ {"IDLE", "WAITING_FOR_VLM"}
                 /\ ~Queued("SaveSession", o) /\ ~Saving(o)
                 /\ \A i \in 1..Len(tasks) : tasks[i].type # "ChatErrorOccurred"
    IN  saved => disk[m] = [messages |-> history[o], images |-> PhotosIn(history[o])]

(* No handler keeps the lock of a chat for ever, however it ends: saves and  *)
(* analyses that wait for it, for a mission that may be over, get their turn *)
(* and return.                                                               *)
LocksAreReleased == \A l \in Orchs : lock_queue[l] # <<>> ~> lock_queue[l] = <<>>
=============================================================================
