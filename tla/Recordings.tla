------------------------------- MODULE Recordings -------------------------------
(***************************************************************************)
(* The recording commands from the server to the drone and back: the       *)
(* handlers of mission_control/drone_comm/drone_bridge.py, the futures of  *)
(* video_helper.py, and the drone's command_registry with the camera of    *)
(* CameraRecording.                                                        *)
(*                                                                         *)
(* A call is one run of a handler.  It sends its command and is suspended  *)
(* until the future that the helper keeps under the name of the command    *)
(* is resolved by an acknowledgement, cancelled by a later call, rejected  *)
(* because a connection has ended, or timed out.  The missions make their  *)
(* calls as SearchOrchestrator does (StartRecording while start() waits,   *)
(* StopRecording at the end); the web GUI lists and pulls recordings.  The *)
(* bus keeps the order in which calls and errors were published.           *)
(*                                                                         *)
(* Bounds: a mission, a browser or a timer acts when the bus is empty (it  *)
(* would only append to the bus), a timer also when nothing has arrived.   *)
(***************************************************************************)
EXTENDS CameraRecording, SequencesExt

CONSTANTS
  Orchs, DroneOf,  \* missions (numbers: they start in this order), and drones
  Browsers,        \* users of the web GUI
  NoCall,
  Timeouts,        \* do calls run into their timeouts?
  Losses,          \* how connections end: subset of {"break", "shutdown"}
  MaxLosses        \* bound on them

ASSUME RecordingsAssumption ==
  /\ Orchs \subseteq Nat
  /\ DroneOf \in [Orchs -> Drones]
  /\ Timeouts \in BOOLEAN
  /\ Losses \subseteq {"break", "shutdown"}
  /\ MaxLosses \in Nat

Action == {"START_RECORDING", "STOP_RECORDING", "GET_RECORDINGS", "PULL_RECORDINGS"}
MissionCall == [action : {"START_RECORDING", "STOP_RECORDING"}, by : Orchs, drone : Drones]
BrowserCall == [action : {"GET_RECORDINGS", "PULL_RECORDINGS"}, by : Browsers, drone : Drones]
Call == MissionCall \cup BrowserCall

ASSUME NoCallAssumption == NoCall \notin Call

VARIABLES
  mission,    \* of each mission: "new", "starting", "running", "stuck" or "ended"
  bus,        \* calls that wait for the loop, and DroneErrorOccurred events
  waiter,     \* recording_ack_waiters and recordings_ack_waiters, by command
  suspended,  \* calls suspended on their future
  link,       \* "up", "broken" (not noticed yet) or "down", of each drone
  inbox,      \* commands on their way to the drone, or waiting for its thread
  outbox,     \* what the drone has sent and the server has not read
  transfers,  \* _pull_transfers: files that are being received
  answer,     \* of each call of a browser: what the web server has published
  owners,     \* history: missions whose START the drone has executed, no STOP yet
  unmatched,  \* history: the drone has executed a STOP without that START
  lost,       \* history: a STOP has not reached the drone
  losses

serverVars == <<mission, bus, waiter, suspended, transfers, answer>>
wireVars == <<link, inbox, outbox>>
historyVars == <<owners, unmatched, lost>>
recordingsVars == <<cameraVars, serverVars, wireVars, historyVars, losses>>

StartOf(o) == [action |-> "START_RECORDING", by |-> o, drone |-> DroneOf[o]]
StopOf(o) == [action |-> "STOP_RECORDING", by |-> o, drone |-> DroneOf[o]]
Issue(x) == [type |-> "call", call |-> x]
DroneError(d) == [type |-> "error", drone |-> d]

-----------------------------------------------------------------------------
(* The end of a call *)

\* RecordingsListReceived, RecordingsPullCompleted: with an error, or without.
Answer(calls, result) ==
  [x \in BrowserCall |-> IF x \in calls THEN result ELSE answer[x]]

\* start() goes on when the handler of its StartRecording has returned, also
\* with an error: that has been published, and ends the mission.
AfterStart(calls) ==
  [o \in Orchs |-> IF mission[o] = "starting" /\ StartOf(o) \in calls
                   THEN "running" ELSE mission[o]]

\* The calls return with an error, in any order.  A list or a pull that fails is
\* an error of the drone too, like a START that fails.
FailCalls(calls, queue) ==
  /\ \E order \in SetToSeqs(calls) :
       bus' = queue \o [i \in 1..Len(order) |-> DroneError(order[i].drone)]
  /\ mission' = AfterStart(calls)
  /\ answer' = Answer(calls, "failed")

-----------------------------------------------------------------------------
(* Calls: the three send_ functions of the helper register, send and wait alike *)

Served(x) == bus # <<>> /\ Head(bus) = Issue(x)
NoConnection(x) == /\ Served(x)
                   /\ link[x.drone] = "down"

\* send_recording_command, send_get_recordings, send_pull_recordings: nothing is
\* registered yet when there is no connection.
CallUnconnected(x) ==
  /\ NoConnection(x)
  /\ FailCalls({x}, Tail(bus))
  /\ lost' = (lost \/ x.action = "STOP_RECORDING")
  /\ UNCHANGED <<waiter, suspended, transfers, wireVars, owners, unmatched>>

\* The future of an earlier call of the same command is cancelled.  That is no
\* Exception: the handler of the call ends without a word, and start() with it.
Displaced(x) == suspended \cap {waiter[x.action]}
Cancel(calls) == [o \in Orchs |-> IF mission[o] = "starting" /\ StartOf(o) \in calls
                                  THEN "stuck" ELSE mission[o]]

\* Slip: the earlier call is left with a future nobody can resolve.
CallForgets(x) ==
  /\ Served(x)
  /\ link[x.drone] = "up"
  /\ waiter' = [waiter EXCEPT ![x.action] = x]
  /\ suspended' = suspended \cup {x}
  /\ inbox' = [inbox EXCEPT ![x.drone] = Append(@, x)]
  /\ bus' = Tail(bus)
  /\ UNCHANGED <<mission, answer, transfers, link, outbox, historyVars>>

CallSends(x) ==
  /\ Served(x)
  /\ link[x.drone] = "up"
  /\ mission' = Cancel(Displaced(x))
  /\ waiter' = [waiter EXCEPT ![x.action] = x]
  /\ suspended' = (suspended \ Displaced(x)) \cup {x}
  /\ inbox' = [inbox EXCEPT ![x.drone] = Append(@, x)]
  /\ bus' = Tail(bus)
  /\ UNCHANGED <<answer, transfers, link, outbox, historyVars>>

\* The socket is closed and the handler has not noticed: send() raises.
CallSendFails(x) ==
  /\ Served(x)
  /\ link[x.drone] = "broken"
  /\ bus' = Append(Tail(bus), DroneError(x.drone))
  /\ mission' = [o \in Orchs |-> IF StartOf(o) = x /\ mission[o] = "starting"
                                 THEN "running" ELSE Cancel(Displaced(x))[o]]
  /\ answer' = Answer({x}, "failed")
  /\ waiter' = [waiter EXCEPT ![x.action] = NoCall]
  /\ suspended' = suspended \ Displaced(x)
  /\ lost' = (lost \/ x.action = "STOP_RECORDING")
  /\ UNCHANGED <<transfers, wireVars, owners, unmatched>>

Idle == bus = <<>> /\ \A d \in Drones : outbox[d] = <<>>

\* Slip: a pull waits without a limit.
TimeoutNoPull(x) ==
  /\ Timeouts /\ Idle
  /\ x \in suspended
  /\ x.action # "PULL_RECORDINGS"
  /\ suspended' = suspended \ {x}
  /\ waiter' = [waiter EXCEPT ![x.action] = NoCall]
  /\ FailCalls({x}, bus)
  /\ UNCHANGED <<transfers, wireVars, historyVars>>

Timeout(x) ==
  /\ Timeouts /\ Idle
  /\ x \in suspended
  /\ suspended' = suspended \ {x}
  /\ waiter' = [waiter EXCEPT ![x.action] = NoCall]
  /\ FailCalls({x}, bus)
  /\ UNCHANGED <<transfers, wireVars, historyVars>>

-----------------------------------------------------------------------------
(* What the drone has sent *)

\* Resolves the call registered for the command, whichever drone and whichever
\* run of the command the acknowledgement is for.
ReceiveAck(d) ==
  /\ outbox[d] # <<>> /\ Head(outbox[d]).type = "ACK"
  /\ outbox' = [outbox EXCEPT ![d] = Tail(@)]
  /\ LET ack == Head(outbox[d])
         calls == suspended \cap {waiter[ack.action]}
     IN  /\ waiter' = [waiter EXCEPT ![ack.action] = NoCall]
         /\ suspended' = suspended \ calls
         /\ IF ack.ok \/ ack.action = "PULL_RECORDINGS"
            THEN /\ mission' = AfterStart(calls)
                 /\ answer' = Answer(calls, "completed")
                 /\ UNCHANGED bus
            ELSE FailCalls(calls, bus)
  /\ transfers' = IF Head(outbox[d]).action = "PULL_RECORDINGS" THEN {} ELSE transfers
  /\ UNCHANGED <<link, inbox, historyVars>>

\* A temporary file is opened for each file that begins.
ReceiveFileBegin(d) ==
  /\ outbox[d] # <<>> /\ Head(outbox[d]).type = "BEGIN"
  /\ transfers' = transfers \cup {<<d, Head(outbox[d]).file>>}
  /\ outbox' = [outbox EXCEPT ![d] = Tail(@)]
  /\ UNCHANGED <<mission, bus, waiter, suspended, answer, link, inbox, historyVars>>

\* The finally block of handler(): the calls of all drones are rejected and all
\* transfers closed, and the drone is removed from the registry.
EndHandler(d) ==
  /\ waiter' = [a \in Action |-> NoCall]
  /\ suspended' = {}
  /\ FailCalls(suspended, bus)
  /\ transfers' = {}
  /\ link' = [link EXCEPT ![d] = "down"]
  /\ inbox' = [inbox EXCEPT ![d] = <<>>]
  /\ outbox' = [outbox EXCEPT ![d] = <<>>]

StopsIn(s) == \E i \in 1..Len(s) : s[i].action = "STOP_RECORDING"

\* _process_message passes a drone_id that the helper's functions for a chunk
\* and the end of a file do not take: the TypeError ends the connection.
ReceiveFileData(d) ==
  /\ outbox[d] # <<>> /\ Head(outbox[d]).type \in {"CHUNK", "END"}
  /\ EndHandler(d)
  /\ lost' = (lost \/ StopsIn(inbox[d]))
  /\ UNCHANGED <<owners, unmatched>>

\* Everything that has arrived is read before the loop ends.
NoticeLoss(d) ==
  /\ link[d] = "broken" /\ outbox[d] = <<>>
  /\ EndHandler(d)
  /\ UNCHANGED historyVars

-----------------------------------------------------------------------------
(* The missions and the browsers *)

RequestStart(o) ==
  /\ bus = <<>>
  /\ mission[o] = "new"
  /\ \A p \in Orchs : p < o => mission[p] # "new"
  /\ mission' = [mission EXCEPT ![o] = "starting"]
  /\ bus' = Append(bus, Issue(StartOf(o)))
  /\ UNCHANGED <<waiter, suspended, transfers, answer, wireVars, historyVars>>

Live(o) == mission[o] \in {"starting", "running", "stuck"}

\* _terminate_mission, for any reason.
EndMission(o) ==
  /\ bus = <<>>
  /\ Live(o)
  /\ mission' = [mission EXCEPT ![o] = "ended"]
  /\ bus' = Append(bus, Issue(StopOf(o)))
  /\ UNCHANGED <<waiter, suspended, transfers, answer, wireVars, historyVars>>

\* Slip: a mission that an error ends does not stop its recording.
AbortWithoutStop ==
  /\ bus # <<>> /\ Head(bus).type = "error"
  /\ mission' = [o \in Orchs |-> IF Live(o) /\ DroneOf[o] = Head(bus).drone
                                 THEN "ended" ELSE mission[o]]
  /\ bus' = Tail(bus)
  /\ UNCHANGED <<waiter, suspended, transfers, answer, wireVars, historyVars>>

\* handle_drone_error of every mission of the drone.
HandleDroneError ==
  /\ bus # <<>> /\ Head(bus).type = "error"
  /\ LET aborted == {o \in Orchs : Live(o) /\ DroneOf[o] = Head(bus).drone}
     IN  /\ mission' = [o \in Orchs |-> IF o \in aborted THEN "ended" ELSE mission[o]]
         /\ \E order \in SetToSeqs(aborted) :
              bus' = Tail(bus) \o [i \in 1..Len(order) |-> Issue(StopOf(order[i]))]
  /\ UNCHANGED <<waiter, suspended, transfers, answer, wireVars, historyVars>>

\* api_get_recordings and api_pull_recordings.  (Bound: each browser asks one thing.)
Browse(x) ==
  /\ bus = <<>>
  /\ x \in BrowserCall
  /\ \A y \in BrowserCall : y.by = x.by => answer[y] = "none"
  /\ answer' = [answer EXCEPT ![x] = "asked"]
  /\ bus' = Append(bus, Issue(x))
  /\ UNCHANGED <<mission, waiter, suspended, transfers, wireVars, historyVars>>

-----------------------------------------------------------------------------
(* The drone *)

Ack(action, ok) == [type |-> "ACK", action |-> action, ok |-> ok]
Reply(d, messages) ==
  /\ inbox' = [inbox EXCEPT ![d] = Tail(@)]
  /\ outbox' = [outbox EXCEPT ![d] = IF link[d] = "up" THEN @ \o messages ELSE @]
  /\ UNCHANGED link

Command(d, action) == inbox[d] # <<>> /\ Head(inbox[d]).action = action

DroneStarts(d) ==
  /\ Command(d, "START_RECORDING")
  /\ \/ /\ ShareRecording(d) \/ OpenRecording(d)
        /\ owners' = owners \cup {Head(inbox[d]).by}
        /\ Reply(d, <<Ack("START_RECORDING", TRUE)>>)
     \/ /\ OpenRecordingFails(d)
        /\ Reply(d, <<Ack("START_RECORDING", FALSE)>>)
        /\ UNCHANGED owners
  /\ UNCHANGED <<unmatched, lost>>

DroneStops(d) ==
  /\ Command(d, "STOP_RECORDING")
  /\ StopRecording(d)
  /\ Reply(d, <<Ack("STOP_RECORDING", TRUE)>>)
  /\ owners' = owners \ {Head(inbox[d]).by}
  /\ unmatched' = (unmatched \/ Head(inbox[d]).by \notin owners)
  /\ UNCHANGED lost

DroneLists(d) ==
  /\ Command(d, "GET_RECORDINGS")
  /\ Reply(d, <<Ack("GET_RECORDINGS", TRUE)>>)
  /\ UNCHANGED <<cameraVars, historyVars>>

\* pull_recordings: each file that exists in three messages or more, then the
\* acknowledgement; a name that does not exist is rejected.
DronePulls(d) ==
  /\ Command(d, "PULL_RECORDINGS")
  /\ \/ Reply(d, <<Ack("PULL_RECORDINGS", FALSE)>>)
     \/ \E f \in 1..Len(metadata[d]) :
          Reply(d, <<[type |-> "BEGIN", file |-> f], [type |-> "CHUNK", file |-> f],
                     [type |-> "END", file |-> f], Ack("PULL_RECORDINGS", TRUE)>>)
  /\ UNCHANGED <<cameraVars, historyVars>>

-----------------------------------------------------------------------------
(* Connections *)

Lose(d) == /\ link[d] = "up"
           /\ losses < MaxLosses
           /\ losses' = losses + 1
           /\ link' = [link EXCEPT ![d] = "broken"]
           /\ inbox' = [inbox EXCEPT ![d] = <<>>]
           /\ lost' = (lost \/ StopsIn(inbox[d]))
           /\ UNCHANGED <<outbox, unmatched, serverVars>>

BreakConnection(d) ==
  /\ "break" \in Losses
  /\ Lose(d)
  /\ UNCHANGED <<owners, cameraVars>>

\* The drone's process ends and cleans up; the next one starts afresh.
Shutdown(d) ==
  /\ "shutdown" \in Losses
  /\ Lose(d)
  /\ Drain(d)
  /\ owners' = {o \in owners : DroneOf[o] # d}

Reconnect(d) ==
  /\ link[d] = "down"
  /\ link' = [link EXCEPT ![d] = "up"]
  /\ UNCHANGED <<inbox, outbox, serverVars, historyVars, cameraVars, losses>>

-----------------------------------------------------------------------------
RecordingsInit ==
  /\ CameraInit
  /\ mission = [o \in Orchs |-> "new"]
  /\ bus = <<>>
  /\ waiter = [a \in Action |-> NoCall]
  /\ suspended = {}
  /\ link = [d \in Drones |-> "up"]
  /\ inbox = [d \in Drones |-> <<>>]
  /\ outbox = [d \in Drones |-> <<>>]
  /\ transfers = {}
  /\ answer = [x \in BrowserCall |-> "none"]
  /\ owners = {} /\ unmatched = FALSE /\ lost = FALSE
  /\ losses = 0

\* Steps of the server's loop that are ready, or get ready by a timeout.
LoopStep ==
  /\ \/ \E x \in Call : CallUnconnected(x) \/ CallSends(x) \/ CallSendFails(x)
     \/ \E d \in Drones : \/ ReceiveAck(d) \/ ReceiveFileBegin(d)
                          \/ ReceiveFileData(d) \/ NoticeLoss(d)
     \/ HandleDroneError
  /\ UNCHANGED <<cameraVars, losses>>

TimeoutStep(x) == Timeout(x) /\ UNCHANGED <<cameraVars, losses>>

DroneStep(d) ==
  /\ DroneStarts(d) \/ DroneStops(d) \/ DroneLists(d) \/ DronePulls(d)
  /\ UNCHANGED <<serverVars, losses>>

RecordingsNext ==
  \/ LoopStep
  \/ \E x \in Call : TimeoutStep(x)
  \/ \E d \in Drones : DroneStep(d) \/ BreakConnection(d) \/ Shutdown(d) \/ Reconnect(d)
  \/ /\ \/ \E o \in Orchs : RequestStart(o) \/ EndMission(o)
        \/ \E x \in BrowserCall : Browse(x)
     /\ UNCHANGED <<cameraVars, losses>>

\* The server's loop and its timers run; the drone may hang.
RecordingsFairness == /\ WF_recordingsVars(LoopStep)
                      /\ \A x \in Call : WF_recordingsVars(TimeoutStep(x))

RecordingsSpec ==
  RecordingsInit /\ [][RecordingsNext]_recordingsVars /\ RecordingsFairness

-----------------------------------------------------------------------------
(* Properties *)

RecordingsTypeOK ==
  /\ CameraTypeOK
  /\ mission \in [Orchs -> {"new", "starting", "running", "stuck", "ended"}]
  /\ waiter \in [Action -> Call \cup {NoCall}]
  /\ suspended \subseteq Call
  /\ link \in [Drones -> {"up", "broken", "down"}]
  /\ owners \subseteq Orchs
  /\ answer \in [BrowserCall -> {"none", "asked", "completed", "failed"}]

(* No call waits for a future that nobody can resolve, and no future is left *)
(* in the dictionaries for an acknowledgement to resolve: calls of the same  *)
(* command, timeouts and connections that end keep the two in step.          *)
WaitersAreRegistered ==
  suspended = {waiter[a] : a \in Action} \ {NoCall}

(* The count is the number of missions that have started the recording and   *)
(* not stopped it, as long as every STOP follows a START the drone has       *)
(* executed: late, displaced and repeated commands do not change it.         *)
CountIsOwners ==
  ~unmatched => \A d \in Drones :
    ref_count[d] = Cardinality({o \in owners : DroneOf[o] = d})

(* Only a STOP that does not reach the drone leaves its camera running after *)
(* the missions: whatever else fails or times out, _terminate_mission sends  *)
(* one, behind the START it belongs to.                                      *)
NoRecordingLeftBehind ==
  \A d \in Drones :
    ( /\ ~lost /\ bus = <<>> /\ inbox[d] = <<>>
      /\ \A o \in Orchs : DroneOf[o] = d => mission[o] \in {"new", "ended"} )
    => ~recording[d]

(* A handler of a recording command does not wait for ever, also when the    *)
(* drone hangs.                                                              *)
CallsReturn == \A x \in Call : x \in suspended ~> x \notin suspended

(* README.md:179: PULL_RECORDINGS streams the files to the server.  With a   *)
(* connection that holds and no timeout, a pull does not fail.               *)
PullSucceeds ==
  \A x \in BrowserCall : x.action = "PULL_RECORDINGS" => answer[x] # "failed"
=============================================================================
