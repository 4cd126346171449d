------------------------------- MODULE OperatorUI -------------------------------
(***************************************************************************)
(* The operator's two interfaces, mission_control/ui/cli_handler.py and    *)
(* web_server.py, in front of the missions of MissionManager: who may      *)
(* start a mission, where its questions are shown, and which decision an   *)
(* answer becomes.                                                         *)
(*                                                                         *)
(* The handlers of one command are adjacent tasks of the loop (the         *)
(* manager's, then the CLI's, then the web server's), and none of those    *)
(* below suspends in between: they are one step.  A broadcast sends the    *)
(* state to all pages of the mission at once; what a page receives, and    *)
(* the clicks it sends, take their time.  Of the GUI's state, what the     *)
(* operator decides on is kept; chat, photos and status lines are left     *)
(* out, and so is the shutdown of the server.                              *)
(***************************************************************************)
EXTENDS MissionManager

CONSTANTS
  Browsers,
  Nothing,   \* None: no mission, no question
  MaxLag     \* bound: nothing happens while more states are on the way to a page

ASSUME OperatorAssumption == MaxLag \in Nat /\ Nothing \notin Missions

VARIABLES
  active_mission_id,     \* of the CLI
  pending_confirmation,  \* of the CLI: the question it shows
  gui,                   \* WebServer.missions
  page,                  \* of a browser: the mission it watches, and what it shows
  to_page,               \* states on their way to a browser
  clicks,                \* decisions on their way from a browser
  asked,                 \* history: the last move a run of each id has asked about
  answered_by,           \* history: the interfaces that have answered a mission
  disturbed              \* history: a running mission's id has been started again

cliVars == <<active_mission_id, pending_confirmation>>
pageVars == <<page, to_page, clicks>>
uiVars == <<cliVars, gui, pageVars>>
historyVars == <<asked, answered_by, disturbed>>
operatorVars == <<managerVars, uiVars, historyVars>>

\* MissionUIState; "unknown" has no entry.
View == [known : BOOLEAN, waiting : BOOLEAN, move : Moves \cup {NoMove}]
Unknown == [known |-> FALSE, waiting |-> FALSE, move |-> NoMove]
ClosedPage == [mission |-> Nothing, waiting |-> FALSE, move |-> NoMove]

-----------------------------------------------------------------------------
(* broadcast_state *)

Watching(m) == {b \in Browsers : page[b].mission = m}
Broadcast(m, view) ==
  to_page' = [b \in Browsers |-> IF b \in Watching(m) THEN Append(to_page[b], view)
                                                      ELSE to_page[b]]
Show(m, view) == /\ gui' = [gui EXCEPT ![m] = view]
                 /\ Broadcast(m, view)

-----------------------------------------------------------------------------
(* What the interfaces hear of a mission *)

\* handle_mission_start, whether or not the manager accepts the command.  The
\* move of an earlier question stays.
MissionStartShown(m) ==
  /\ Show(m, [gui[m] EXCEPT !.known = TRUE, !.waiting = FALSE])
  /\ UNCHANGED <<cliVars, page, clicks>>

\* Slip: the question that is on the screen is not replaced.
AskConfirmationOnce(m, move) ==
  /\ Show(m, [known |-> TRUE, waiting |-> TRUE,
              move |-> IF gui[m].move = NoMove THEN move ELSE gui[m].move])
  /\ pending_confirmation' = IF active_mission_id = m THEN move ELSE pending_confirmation
  /\ UNCHANGED <<active_mission_id, page, clicks>>

\* Slip: a question the CLI shows is not shown in the GUI.
AskConfirmationOnCli(m, move) ==
  /\ IF active_mission_id = m
     THEN pending_confirmation' = move /\ UNCHANGED <<gui, to_page>>
     ELSE /\ Show(m, [known |-> TRUE, waiting |-> TRUE, move |-> move])
          /\ UNCHANGED pending_confirmation
  /\ UNCHANGED <<active_mission_id, page, clicks>>

\* ask_move_confirmation, handle_ask_confirmation
AskConfirmation(m, move) ==
  /\ Show(m, [known |-> TRUE, waiting |-> TRUE, move |-> move])
  /\ pending_confirmation' = IF active_mission_id = m THEN move ELSE pending_confirmation
  /\ UNCHANGED <<active_mission_id, page, clicks>>

\* handle_search_end, handle_search_ended
SearchEndShown(m) ==
  /\ Show(m, [gui[m] EXCEPT !.known = TRUE, !.waiting = FALSE])
  /\ IF active_mission_id = m
     THEN active_mission_id' = Nothing /\ pending_confirmation' = NoMove
     ELSE UNCHANGED cliVars
  /\ UNCHANGED <<page, clicks>>

-----------------------------------------------------------------------------
(* The CLI *)

\* _handle_search.  While a question is shown a line is taken for an answer.
CliSearch(o) ==
  /\ pending_confirmation = NoMove
  /\ RequestStart(o)
  /\ active_mission_id' = MissionOf[o]
  /\ UNCHANGED <<pending_confirmation, gui, pageVars, historyVars>>

Decision(m, decision, move) ==
  [type |-> "UserDecisionReceived", mission |-> m, decision |-> decision, move |-> move,
   to |-> Subscribed]

\* _process_user_decision
CliDecides ==
  /\ pending_confirmation # NoMove
  /\ \E decision \in Decisions :
       tasks' = Publish(tasks, Decision(active_mission_id, decision, pending_confirmation))
  /\ pending_confirmation' = NoMove
  /\ answered_by' = [answered_by EXCEPT ![active_mission_id] = @ \cup {"cli"}]
  /\ UNCHANGED <<orchVars, active, active_mission_id, gui, pageVars, asked, disturbed>>

-----------------------------------------------------------------------------
(* The web GUI *)

\* api_start_mission: an id the server has seen is refused.
ApiStartMission(o) ==
  /\ ~gui[MissionOf[o]].known
  /\ RequestStart(o)
  /\ UNCHANGED <<uiVars, historyVars>>

\* get_mission_gui, websocket_endpoint: all pages are sent the state.
OpenPage(b, m) ==
  /\ page[b] = ClosedPage
  /\ gui[m].known
  /\ page' = [page EXCEPT ![b].mission = m]
  /\ to_page' = [c \in Browsers |-> IF c \in Watching(m) \cup {b}
                                    THEN Append(to_page[c], gui[m]) ELSE to_page[c]]
  /\ UNCHANGED <<managerVars, cliVars, gui, clicks, historyVars>>

ClosePage(b) ==
  /\ page[b].mission # Nothing
  /\ page' = [page EXCEPT ![b] = ClosedPage]
  /\ to_page' = [to_page EXCEPT ![b] = <<>>]
  /\ clicks' = [clicks EXCEPT ![b] = <<>>]
  /\ UNCHANGED <<managerVars, cliVars, gui, historyVars>>

\* ws.onmessage
ReceiveState(b) ==
  /\ to_page[b] # <<>>
  /\ page' = [page EXCEPT ![b].waiting = Head(to_page[b]).waiting,
                          ![b].move = Head(to_page[b]).move]
  /\ to_page' = [to_page EXCEPT ![b] = Tail(@)]
  /\ UNCHANGED <<managerVars, cliVars, gui, clicks, historyVars>>

\* sendDecision: the buttons are hidden until the next state arrives.
Click(b) ==
  /\ page[b].waiting /\ clicks[b] = <<>>
  /\ \E decision \in Decisions : clicks' = [clicks EXCEPT ![b] = Append(@, decision)]
  /\ page' = [page EXCEPT ![b].waiting = FALSE]
  /\ UNCHANGED <<managerVars, cliVars, gui, to_page, historyVars>>

ClickOn(b) == page[b].mission

\* Slip: the other pages are not told that the question has been answered.
ReceiveClickQuietly(b) ==
  LET m == ClickOn(b)
  IN  /\ clicks[b] # <<>>
      /\ clicks' = [clicks EXCEPT ![b] = Tail(@)]
      /\ IF gui[m].waiting
         THEN /\ tasks' = Publish(tasks, Decision(m, Head(clicks[b]), gui[m].move))
              /\ gui' = [gui EXCEPT ![m].waiting = FALSE, ![m].move = NoMove]
              /\ answered_by' = [answered_by EXCEPT ![m] = @ \cup {"gui"}]
         ELSE UNCHANGED <<tasks, gui, answered_by>>
      /\ UNCHANGED <<orchVars, active, cliVars, page, to_page, asked, disturbed>>

\* The answer is for the question that is open when it arrives, whatever the
\* page has shown; without one it is dropped.
ReceiveClick(b) ==
  LET m == ClickOn(b)
  IN  /\ clicks[b] # <<>>
      /\ clicks' = [clicks EXCEPT ![b] = Tail(@)]
      /\ IF gui[m].waiting
         THEN /\ tasks' = Publish(tasks, Decision(m, Head(clicks[b]), gui[m].move))
              /\ Show(m, [gui[m] EXCEPT !.waiting = FALSE, !.move = NoMove])
              /\ answered_by' = [answered_by EXCEPT ![m] = @ \cup {"gui"}]
         ELSE UNCHANGED <<tasks, gui, to_page, answered_by>>
      /\ UNCHANGED <<orchVars, active, cliVars, page, asked, disturbed>>

-----------------------------------------------------------------------------
(* The missions *)

\* A start that is accepted begins a mission nobody has answered; one that is
\* refused may meet a mission under way.
StartStep ==
  /\ tasks # <<>> /\ Task.type = "StartMission"
  /\ LET m == MissionOf[Task.by]
     IN  /\ \/ /\ HandleStartMission
               /\ answered_by' = [answered_by EXCEPT ![m] = {}]
               /\ disturbed' = [disturbed EXCEPT ![m] = FALSE]
            \/ /\ StartRefused
               /\ disturbed' = [disturbed EXCEPT ![m] = TRUE]
               /\ UNCHANGED answered_by
         /\ MissionStartShown(m)
  /\ UNCHANGED asked

AskStep ==
  /\ tasks # <<>> /\ Task.type = "AskUserConfirmation"
  /\ TakeCommand
  /\ AskConfirmation(MissionOf[Task.by], Task.move)
  /\ UNCHANGED <<active, historyVars>>

EndStep ==
  /\ HandleMissionEnded
  /\ SearchEndShown(MissionOf[Task.by])
  /\ UNCHANGED historyVars

\* (asked is what a mission that begins to wait for the operator has proposed.)
MissionStep ==
  /\ \E o \in Orchs :
       /\ AwaitedDone(o) \/ Handle(o)
       /\ asked' = IF state'[o] = "WAITING_FOR_USER" /\ state[o] # "WAITING_FOR_USER"
                   THEN [asked EXCEPT ![MissionOf[o]] = Task.move] ELSE asked
  /\ UNCHANGED <<active, uiVars, answered_by, disturbed>>

OtherCommand ==
  /\ TakeCommand
  /\ Task.type \notin {"AskUserConfirmation", "SearchEnded"}
  /\ UNCHANGED <<active, uiVars, historyVars>>

\* The drone and the VLM answer when they are waited for.
Environment ==
  /\ \E o \in Subscribed :
       \/ DroneAnswers(o)
       \/ /\ state[o] = "WAITING_FOR_VLM"
          /\ ChatSpeaks
          /\ tasks'[Len(tasks')].type = "VlmAnalysisCompleted"
  /\ UNCHANGED <<active, uiVars, historyVars>>

InTime == \A b \in Browsers : Len(to_page[b]) <= MaxLag

OperatorInit ==
  /\ ManagerInit
  /\ active_mission_id = Nothing
  /\ pending_confirmation = NoMove
  /\ gui = [m \in Missions |-> Unknown]
  /\ page = [b \in Browsers |-> ClosedPage]
  /\ to_page = [b \in Browsers |-> <<>>]
  /\ clicks = [b \in Browsers |-> <<>>]
  /\ asked = [m \in Missions |-> NoMove]
  /\ answered_by = [m \in Missions |-> {}]
  /\ disturbed = [m \in Missions |-> FALSE]

OperatorNext ==
  \/ \E b \in Browsers : ReceiveState(b)
  \/ /\ InTime
     /\ \/ StartStep \/ AskStep \/ EndStep \/ MissionStep \/ OtherCommand \/ Environment
        \/ \E o \in Orchs : CliSearch(o) \/ ApiStartMission(o)
        \/ CliDecides
        \/ \E b \in Browsers : \/ \E m \in Missions : OpenPage(b, m)
                               \/ ClosePage(b) \/ Click(b) \/ ReceiveClick(b)

OperatorSpec == OperatorInit /\ [][OperatorNext]_operatorVars

-----------------------------------------------------------------------------
(* Properties *)

QueuedFor(m, type) ==
  \E i \in 1..Len(tasks) :
    /\ tasks[i].type = type
    /\ IF type = "UserDecisionReceived" THEN tasks[i].mission = m
                                        ELSE MissionOf[tasks[i].by] = m

(* A mission that waits for the operator can be answered: its question is on *)
(* the way to the interfaces, or the GUI holds it, or the answer is on its   *)
(* way; unless its id was started once more, which makes the GUI forget the  *)
(* question.  And while the CLI shows a question it has an active mission to  *)
(* answer for.                                                               *)
QuestionIsHeld ==
  /\ \A o \in Subscribed :
       LET m == MissionOf[o]
       IN  state[o] = "WAITING_FOR_USER" /\ ~disturbed[m] =>
             \/ gui[m].waiting
             \/ QueuedFor(m, "AskUserConfirmation") \/ QueuedFor(m, "UserDecisionReceived")
  /\ pending_confirmation # NoMove => active_mission_id # Nothing

(* The move that is flown is the one the mission has proposed last, as long  *)
(* as one interface answers its questions: late clicks and repeated answers, *)
(* from any page, do not confirm an earlier proposal.                        *)
ApprovedIsAsked ==
  \A o \in Subscribed :
    /\ state[o] \in {"WAITING_FOR_ACK", "FLYING"}
    /\ answered_by[MissionOf[o]] # {"cli", "gui"}
    => current_move[o] = asked[MissionOf[o]]

(* No page keeps a question that is closed, or misses one that is open: when *)
(* nothing is on its way, a page shows what the server has, up to the        *)
(* buttons its own click has hidden.                                         *)
PagesCatchUp ==
  \A b \in Browsers :
    page[b].mission # Nothing /\ to_page[b] = <<>> /\ clicks[b] = <<>> =>
      LET view == gui[page[b].mission]
      IN  /\ page[b].waiting = view.waiting
          /\ view.waiting => page[b].move = view.move
=============================================================================
