----------------------------- MODULE RecordingsProofs -----------------------------
(***************************************************************************)
(* The safety properties of Recordings for any number of missions, drones, *)
(* browsers, losses of connection and attempts of the clean-up.            *)
(***************************************************************************)
EXTENDS Recordings, TLAPS, SequenceTheorems, FiniteSetTheorems

\* The file that is being written exists.
FileExists == \A d \in Drones : recording[d] => video_path[d] \in 1..Len(metadata[d])

CameraInv == CameraTypeOK /\ RecordingsAreFinalized /\ FileExists

Message == [type : {"ACK"}, action : Action, ok : BOOLEAN]
           \cup [type : {"BEGIN", "CHUNK", "END"}, file : Nat]

OutboxOK == outbox \in [Drones -> Seq(Message)]

\* Each future is kept under the command of the call that waits for it.
Keyed == /\ waiter \in [Action -> Call \cup {NoCall}]
         /\ \A a \in Action : waiter[a] # NoCall => waiter[a].action = a

WaiterInv == Keyed /\ WaitersAreRegistered

-----------------------------------------------------------------------------
(* The camera *)

\* The metadata file of a recording is written again at its end.
LEMMA MarkStopped ==
  ASSUME NEW s \in Seq({"recording", "stopped"}), NEW f \in 1..Len(s)
  PROVE  /\ [s EXCEPT ![f] = "stopped"] \in Seq({"recording", "stopped"})
         /\ Len([s EXCEPT ![f] = "stopped"]) = Len(s)
         /\ \A g \in 1..Len(s) :
              [s EXCEPT ![f] = "stopped"][g] = IF g = f THEN "stopped" ELSE s[g]
BY ExceptSeq

\* What a step on drone d leaves alone.
OthersKept(d) ==
  \A e \in Drones \ {d} :
    /\ camera'[e] = camera[e] /\ recording'[e] = recording[e]
    /\ video_path'[e] = video_path[e] /\ ref_count'[e] = ref_count[e]
    /\ metadata'[e] = metadata[e]

LEMMA HeldStep ==
  ASSUME CameraInv, NEW d \in Drones, CameraTypeOK', OthersKept(d),
         camera'[d] = TRUE, recording'[d] = TRUE, ref_count'[d] > 0,
         video_path'[d] \in 1..Len(metadata'[d]),
         \A f \in 1..Len(metadata'[d]) :
           metadata'[d][f] = "recording" <=> video_path'[d] = f
  PROVE  CameraInv'
<1>1. ASSUME NEW e \in Drones \ {d}
      PROVE  /\ camera'[e] = recording'[e] /\ (recording'[e] <=> ref_count'[e] > 0)
             /\ \A f \in 1..Len(metadata'[e]) :
                  metadata'[e][f] = "recording" <=> recording'[e] /\ video_path'[e] = f
  <2>1. /\ camera[e] = recording[e] /\ (recording[e] <=> ref_count[e] > 0)
        /\ \A f \in 1..Len(metadata[e]) :
             metadata[e][f] = "recording" <=> recording[e] /\ video_path[e] = f
    BY <1>1 DEF CameraInv, RecordingsAreFinalized
  <2> QED
    BY <1>1, <2>1 DEF OthersKept
<1>2. camera'[d] = recording'[d]
  OBVIOUS
<1>3. RecordingsAreFinalized'
  BY <1>1, <1>2 DEF RecordingsAreFinalized
<1>4. FileExists'
  BY DEF CameraInv, FileExists, OthersKept
<1> QED
  BY <1>3, <1>4 DEF CameraInv

LEMMA ReleasedStep ==
  ASSUME CameraInv, NEW d \in Drones, CameraTypeOK', OthersKept(d),
         camera'[d] = FALSE, recording'[d] = FALSE, ~(ref_count'[d] > 0),
         \A f \in 1..Len(metadata'[d]) : metadata'[d][f] # "recording"
  PROVE  CameraInv'
<1>1. ASSUME NEW e \in Drones \ {d}
      PROVE  /\ camera'[e] = recording'[e] /\ (recording'[e] <=> ref_count'[e] > 0)
             /\ \A f \in 1..Len(metadata'[e]) :
                  metadata'[e][f] = "recording" <=> recording'[e] /\ video_path'[e] = f
  BY DEF CameraInv, RecordingsAreFinalized, OthersKept
<1>2. camera'[d] = recording'[d]
  OBVIOUS
<1>3. RecordingsAreFinalized'
  BY <1>1, <1>2 DEF RecordingsAreFinalized
<1>4. FileExists'
  BY DEF CameraInv, FileExists, OthersKept
<1> QED
  BY <1>3, <1>4 DEF CameraInv

\* A recording ends: its file is closed and the camera released.
LEMMA ReleaseStep ==
  ASSUME CameraInv, NEW d \in Drones, recording[d],
         ref_count' = [ref_count EXCEPT ![d] = 0],
         metadata' = [metadata EXCEPT ![d][video_path[d]] = "stopped"],
         Forget(d)
  PROVE  CameraInv'
<1> DEFINE s == metadata[d]
           f == video_path[d]
<1>1. s \in Seq({"recording", "stopped"}) /\ f \in 1..Len(s)
  BY DEF CameraInv, CameraTypeOK, FileExists
<1>2. metadata' = [metadata EXCEPT ![d] = [s EXCEPT ![f] = "stopped"]]
  OBVIOUS
<1>3. /\ metadata'[d] \in Seq({"recording", "stopped"}) /\ Len(metadata'[d]) = Len(s)
      /\ \A g \in 1..Len(s) : metadata'[d][g] = IF g = f THEN "stopped" ELSE s[g]
  BY <1>1, <1>2, MarkStopped DEF CameraInv, CameraTypeOK
<1>4. CameraTypeOK'
  BY <1>2, <1>3 DEF CameraInv, CameraTypeOK, Forget
<1>5. OthersKept(d)
  BY DEF OthersKept, CameraInv, CameraTypeOK, Forget
<1>6. \A g \in 1..Len(metadata'[d]) : metadata'[d][g] # "recording"
  BY <1>1, <1>3 DEF CameraInv, RecordingsAreFinalized
<1>7. recording'[d] = FALSE /\ camera'[d] = FALSE /\ ~(ref_count'[d] > 0)
  BY DEF CameraInv, CameraTypeOK, Forget
<1> HIDE DEF s, f
<1> QED
  BY <1>4, <1>5, <1>6, <1>7, ReleasedStep

LEMMA CameraStep ==
  ASSUME CameraInv, NEW d \in Drones,
         \/ ShareRecording(d) \/ OpenRecording(d) \/ OpenRecordingFails(d)
         \/ StopRecording(d) \/ Drain(d)
  PROVE  CameraInv'
<1> USE DEF CameraInv
<1>1. CASE ShareRecording(d)
  <2>1. CameraTypeOK'
    BY <1>1 DEF CameraTypeOK, ShareRecording
  <2>2. OthersKept(d)
    BY <1>1 DEF CameraTypeOK, ShareRecording, OthersKept
  <2>3. ref_count'[d] = ref_count[d] + 1 /\ recording[d]
    BY <1>1 DEF CameraTypeOK, ShareRecording
  <2> QED
    BY <1>1, <2>1, <2>2, <2>3 DEF ShareRecording, RecordingsAreFinalized, FileExists, CameraTypeOK
<1>2. CASE OpenRecording(d)
  <2> DEFINE s == metadata[d]
  <2>1. metadata'[d] = Append(s, "recording") /\ s \in Seq({"recording", "stopped"})
    BY <1>2 DEF CameraTypeOK, OpenRecording
  <2>2. /\ metadata'[d] \in Seq({"recording", "stopped"}) /\ Len(metadata'[d]) = Len(s) + 1
        /\ \A f \in 1..Len(s) : metadata'[d][f] = s[f]
        /\ metadata'[d][Len(s) + 1] = "recording"
    BY <2>1
  <2>3. CameraTypeOK'
    BY <1>2, <2>1, <2>2 DEF CameraTypeOK, OpenRecording
  <2>4. OthersKept(d)
    BY <1>2 DEF CameraTypeOK, OpenRecording, OthersKept
  <2>5. /\ camera'[d] = TRUE /\ recording'[d] = TRUE /\ ref_count'[d] > 0
        /\ video_path'[d] = Len(s) + 1
    BY <1>2 DEF CameraTypeOK, OpenRecording
  <2>6. \A f \in 1..Len(s) : s[f] # "recording"
    BY <1>2 DEF RecordingsAreFinalized, OpenRecording
  <2>7. \A f \in 1..Len(metadata'[d]) : metadata'[d][f] = "recording" <=> video_path'[d] = f
    BY <2>1, <2>2, <2>5, <2>6
  <2>8. video_path'[d] \in 1..Len(metadata'[d])
    BY <2>1, <2>2, <2>5
  <2> HIDE DEF s
  <2> QED
    BY <2>3, <2>4, <2>5, <2>7, <2>8, HeldStep
<1>3. CASE OpenRecordingFails(d)
  <2>1. CameraTypeOK' /\ OthersKept(d)
    BY <1>3 DEF CameraTypeOK, OpenRecordingFails, Forget, OthersKept
  <2>2. camera'[d] = FALSE /\ recording'[d] = FALSE
    BY <1>3 DEF CameraTypeOK, OpenRecordingFails, Forget
  <2>3. /\ ~(ref_count'[d] > 0)
        /\ \A f \in 1..Len(metadata'[d]) : metadata'[d][f] # "recording"
    BY <1>3 DEF RecordingsAreFinalized, OpenRecordingFails
  <2> QED
    BY <2>1, <2>2, <2>3, ReleasedStep
<1>4. CASE UNCHANGED cameraVars
  BY <1>4 DEF cameraVars, CameraTypeOK, RecordingsAreFinalized, FileExists
<1>5. ASSUME NEW n \in Nat, n > 0, n < ref_count[d],
             ref_count' = [ref_count EXCEPT ![d] = @ - n],
             UNCHANGED <<camera, recording, video_path, metadata>>
      PROVE  CameraInv'
  <2>1. CameraTypeOK' /\ OthersKept(d)
    BY <1>5 DEF CameraTypeOK, OthersKept
  <2>2. ref_count'[d] > 0 /\ ref_count[d] > 0
    BY <1>5 DEF CameraTypeOK
  <2>3. recording[d] /\ RecordingsAreFinalized /\ FileExists
    BY <2>2 DEF RecordingsAreFinalized
  <2> QED
    BY <1>5, <2>1, <2>2, <2>3 DEF RecordingsAreFinalized, FileExists, OthersKept
<1>6. CASE StopRecording(d)
  <2>1. CASE StopIdle(d)
    BY <1>4, <2>1 DEF StopIdle
  <2>2. CASE StopShared(d)
    <3>1. 1 \in Nat /\ 1 > 0
      OBVIOUS
    <3> QED
      BY <1>5, <2>2, <3>1 DEF StopShared
  <2>3. CASE StopLast(d)
    BY <2>3, ReleaseStep DEF StopLast, RecordingsAreFinalized
  <2> QED
    BY <1>6, <2>1, <2>2, <2>3 DEF StopRecording
<1>7. CASE Drain(d)
  <2>1. CASE recording[d] /\ ref_count[d] > MaxDrainAttempts /\ MaxDrainAttempts > 0
    BY <1>5, <1>7, <2>1, CameraAssumption DEF Drain
  <2>2. CASE recording[d] /\ ref_count[d] > MaxDrainAttempts /\ MaxDrainAttempts = 0
    <3>1. ref_count' = ref_count
      BY <1>7, <2>2 DEF Drain, CameraTypeOK
    <3> QED
      BY <1>4, <1>7, <2>2, <3>1 DEF Drain, cameraVars
  <2>3. CASE recording[d] /\ ~(ref_count[d] > MaxDrainAttempts)
    BY <1>7, <2>3, ReleaseStep DEF Drain
  <2>4. CASE ~recording[d]
    BY <1>4, <1>7, <2>4 DEF Drain
  <2> QED
    BY <2>1, <2>2, <2>3, <2>4, CameraAssumption
<1> QED
  BY <1>1, <1>2, <1>3, <1>6, <1>7

LEMMA CameraInvariant == RecordingsSpec => []CameraInv
<1>1. RecordingsInit => CameraInv
  BY DEF RecordingsInit, CameraInit, CameraInv, CameraTypeOK, RecordingsAreFinalized, FileExists
<1>2. CameraInv /\ [RecordingsNext]_recordingsVars => CameraInv'
  <2> SUFFICES ASSUME CameraInv, [RecordingsNext]_recordingsVars PROVE CameraInv'
    OBVIOUS
  <2>1. CASE UNCHANGED cameraVars
    BY <2>1 DEF CameraInv, cameraVars, CameraTypeOK, RecordingsAreFinalized, FileExists
  <2>2. ASSUME NEW d \in Drones, DroneStep(d) \/ BreakConnection(d) \/ Shutdown(d) \/ Reconnect(d)
        PROVE  CameraInv'
    BY <2>1, <2>2, CameraStep DEF DroneStep, DroneStarts, DroneStops, DroneLists, DronePulls,
       BreakConnection, Shutdown, Reconnect
  <2> QED
    BY <2>1, <2>2 DEF RecordingsNext, LoopStep, TimeoutStep, recordingsVars
<1> QED
  BY <1>1, <1>2, PTL DEF RecordingsSpec

-----------------------------------------------------------------------------
(* The futures *)

\* Calls leave, and the entry of their command with them.
LEMMA LeaveStep ==
  ASSUME WaiterInv, NEW a \in Action,
         waiter' = [waiter EXCEPT ![a] = NoCall],
         suspended' = suspended \ (suspended \cap {waiter[a]})
  PROVE  WaiterInv'
BY NoCallAssumption DEF WaiterInv, Keyed, WaitersAreRegistered, Call, MissionCall, BrowserCall

LEMMA LoopWaiters ==
  ASSUME WaiterInv, OutboxOK, LoopStep
  PROVE  WaiterInv'
<1>0. \A x \in Call : x.action \in Action
  BY DEF Call, MissionCall, BrowserCall, Action
<1>1. ASSUME NEW x \in Call, CallUnconnected(x) PROVE WaiterInv'
  BY <1>1 DEF CallUnconnected, WaiterInv, Keyed, WaitersAreRegistered
<1>2. ASSUME NEW x \in Call, CallSends(x) PROVE WaiterInv'
  <2>1. /\ waiter' = [waiter EXCEPT ![x.action] = x]
        /\ suspended' = (suspended \ (suspended \cap {waiter[x.action]})) \cup {x}
    BY <1>2 DEF CallSends, Displaced
  <2> QED
    BY <1>0, <2>1, NoCallAssumption DEF WaiterInv, Keyed, WaitersAreRegistered
<1>3. ASSUME NEW x \in Call, CallSendFails(x) PROVE WaiterInv'
  BY <1>0, <1>3, LeaveStep DEF CallSendFails, Displaced
<1>4. ASSUME NEW d \in Drones, ReceiveAck(d) PROVE WaiterInv'
  <2>1. Head(outbox[d]) \in Message /\ Head(outbox[d]).type = "ACK"
    BY <1>4 DEF ReceiveAck, OutboxOK
  <2>2. Head(outbox[d]).action \in Action
    BY <2>1 DEF Message
  <2> QED
    BY <1>4, <2>2, LeaveStep DEF ReceiveAck
<1>5. ASSUME NEW d \in Drones, ReceiveFileBegin(d) PROVE WaiterInv'
  BY <1>5 DEF ReceiveFileBegin, WaiterInv, Keyed, WaitersAreRegistered
<1>6. ASSUME NEW d \in Drones, EndHandler(d) PROVE WaiterInv'
  BY <1>6 DEF EndHandler, WaiterInv, Keyed, WaitersAreRegistered
<1>7. CASE HandleDroneError
  BY <1>7 DEF HandleDroneError, WaiterInv, Keyed, WaitersAreRegistered
<1> QED
  BY <1>1, <1>2, <1>3, <1>4, <1>5, <1>6, <1>7 DEF LoopStep, ReceiveFileData, NoticeLoss

LEMMA WaiterStep ==
  ASSUME WaiterInv, OutboxOK, [RecordingsNext]_recordingsVars
  PROVE  WaiterInv'
<1>1. CASE UNCHANGED <<waiter, suspended>>
  BY <1>1 DEF WaiterInv, Keyed, WaitersAreRegistered
<1>2. ASSUME NEW x \in Call, TimeoutStep(x) PROVE WaiterInv'
  <2>1. x.action \in Action /\ waiter[x.action] = x
    BY <1>2 DEF TimeoutStep, Timeout, WaiterInv, Keyed, WaitersAreRegistered
  <2>2. /\ waiter' = [waiter EXCEPT ![x.action] = NoCall]
        /\ suspended' = suspended \ (suspended \cap {waiter[x.action]})
    BY <1>2, <2>1 DEF TimeoutStep, Timeout
  <2> QED
    BY <2>1, <2>2, LeaveStep
<1>3. ASSUME NEW d \in Drones, DroneStep(d) \/ BreakConnection(d) \/ Shutdown(d) \/ Reconnect(d)
      PROVE  WaiterInv'
  BY <1>1, <1>3 DEF DroneStep, BreakConnection, Shutdown, Lose, Reconnect, serverVars
<1>4. ASSUME NEW o \in Orchs, RequestStart(o) \/ EndMission(o) PROVE WaiterInv'
  BY <1>1, <1>4 DEF RequestStart, EndMission
<1>5. ASSUME NEW x \in BrowserCall, Browse(x) PROVE WaiterInv'
  BY <1>1, <1>5 DEF Browse
<1>6. CASE UNCHANGED recordingsVars
  BY <1>1, <1>6 DEF recordingsVars, serverVars
<1> QED
  BY <1>2, <1>3, <1>4, <1>5, <1>6, LoopWaiters DEF RecordingsNext

-----------------------------------------------------------------------------
(* What the drones send *)

LEMMA ReplyStep ==
  ASSUME OutboxOK, NEW d \in Drones, NEW s \in Seq(Message), Reply(d, s)
  PROVE  OutboxOK'
BY DEF OutboxOK, Reply

LEMMA OutboxStep ==
  ASSUME OutboxOK, CameraTypeOK, [RecordingsNext]_recordingsVars
  PROVE  OutboxOK'
<1>1. CASE UNCHANGED outbox
  BY <1>1 DEF OutboxOK
<1>2. ASSUME NEW d \in Drones, ReceiveAck(d) \/ ReceiveFileBegin(d) PROVE OutboxOK'
  <2>1. outbox[d] # <<>> /\ outbox' = [outbox EXCEPT ![d] = Tail(outbox[d])]
    BY <1>2 DEF ReceiveAck, ReceiveFileBegin
  <2> QED
    BY <2>1 DEF OutboxOK
<1>3. ASSUME NEW d \in Drones, EndHandler(d) PROVE OutboxOK'
  BY <1>3 DEF EndHandler, OutboxOK
<1>4. CASE LoopStep
  <2>1. ASSUME NEW x \in Call, CallUnconnected(x) \/ CallSends(x) \/ CallSendFails(x)
        PROVE  OutboxOK'
    BY <1>1, <2>1 DEF CallUnconnected, CallSends, CallSendFails, wireVars
  <2>2. CASE HandleDroneError
    BY <1>1, <2>2 DEF HandleDroneError, wireVars
  <2> QED
    BY <1>2, <1>3, <1>4, <2>1, <2>2 DEF LoopStep, ReceiveFileData, NoticeLoss
<1>5. ASSUME NEW d \in Drones, DroneStarts(d) \/ DroneStops(d) \/ DroneLists(d) PROVE OutboxOK'
  <2>1. \A a \in Action, ok \in BOOLEAN : <<Ack(a, ok)>> \in Seq(Message)
    BY DEF Ack, Message
  <2> QED
    BY <1>5, <2>1, ReplyStep DEF DroneStarts, DroneStops, DroneLists, Action
<1>6. ASSUME NEW d \in Drones, DronePulls(d) PROVE OutboxOK'
  <2>1. <<Ack("PULL_RECORDINGS", FALSE)>> \in Seq(Message)
    BY DEF Ack, Message, Action
  <2>2. ASSUME NEW f \in 1..Len(metadata[d])
        PROVE  <<[type |-> "BEGIN", file |-> f], [type |-> "CHUNK", file |-> f],
                 [type |-> "END", file |-> f], Ack("PULL_RECORDINGS", TRUE)>> \in Seq(Message)
    <3>1. f \in Nat
      BY DEF CameraTypeOK
    <3>2. /\ [type |-> "BEGIN", file |-> f] \in Message /\ [type |-> "CHUNK", file |-> f] \in Message
          /\ [type |-> "END", file |-> f] \in Message /\ Ack("PULL_RECORDINGS", TRUE) \in Message
      BY <3>1 DEF Message, Ack, Action
    <3>3. \A m1, m2, m3, m4 \in Message : <<m1, m2, m3, m4>> \in Seq(Message)
      OBVIOUS
    <3> QED
      BY <3>2, <3>3
  <2> QED
    BY <1>6, <2>1, <2>2, ReplyStep DEF DronePulls
<1>7. ASSUME NEW d \in Drones, BreakConnection(d) \/ Shutdown(d) \/ Reconnect(d) PROVE OutboxOK'
  BY <1>1, <1>7 DEF BreakConnection, Shutdown, Lose, Reconnect
<1>8. ASSUME NEW x \in Call, TimeoutStep(x) PROVE OutboxOK'
  BY <1>1, <1>8 DEF TimeoutStep, Timeout, wireVars
<1>9. ASSUME NEW o \in Orchs, RequestStart(o) \/ EndMission(o) PROVE OutboxOK'
  BY <1>1, <1>9 DEF RequestStart, EndMission, wireVars
<1>10. ASSUME NEW x \in BrowserCall, Browse(x) PROVE OutboxOK'
  BY <1>1, <1>10 DEF Browse, wireVars
<1>11. CASE UNCHANGED recordingsVars
  BY <1>1, <1>11 DEF recordingsVars, wireVars
<1> QED
  BY <1>4, <1>5, <1>6, <1>7, <1>8, <1>9, <1>10, <1>11 DEF RecordingsNext, DroneStep

-----------------------------------------------------------------------------
(* Queues of calls *)

Has(q, x) == \E i \in 1..Len(q) : q[i] = x
Once(q, x) == \A i, j \in 1..Len(q) : q[i] = x /\ q[j] = x => i = j
Behind(q, x, y) ==
  \A i \in 1..Len(q) : q[i] = x => \E j \in 1..Len(q) : j > i /\ q[j] = y

LEMMA QueueTail ==
  ASSUME NEW Q, NEW q \in Seq(Q), q # <<>>, NEW x, NEW y
  PROVE  /\ Has(q, x) <=> Head(q) = x \/ Has(Tail(q), x)
         /\ Once(q, x) => Once(Tail(q), x)
         /\ Once(q, x) /\ Head(q) = x => ~Has(Tail(q), x)
         /\ Behind(q, x, y) => Behind(Tail(q), x, y)
         /\ Behind(q, x, y) /\ Head(q) = x => Has(Tail(q), y)
<1> DEFINE r == Tail(q)
           n == Len(r)
<1>1. /\ n \in Nat /\ Len(q) = n + 1 /\ Head(q) = q[1]
      /\ \A i \in 1..n : r[i] = q[i + 1]
  OBVIOUS
<1> HIDE DEF r, n
<1>2. \A j \in 1..Len(q) : j # 1 => j - 1 \in 1..n /\ r[j - 1] = q[j]
  BY <1>1
<1>3. \A i \in 1..n : i + 1 \in 1..Len(q) /\ r[i] = q[i + 1]
  BY <1>1
<1>4. 1 \in 1..Len(q) /\ n = Len(r)
  BY <1>1 DEF n
<1>5. Has(q, x) <=> Head(q) = x \/ Has(r, x)
  BY <1>1, <1>2, <1>3, <1>4 DEF Has
<1>6. Once(q, x) => Once(r, x)
  <2> SUFFICES ASSUME Once(q, x), NEW i \in 1..n, NEW j \in 1..n, r[i] = x, r[j] = x
               PROVE  i = j
    BY <1>4 DEF Once
  <2>1. i + 1 = j + 1
    BY <1>3 DEF Once
  <2> QED
    BY <1>1, <2>1
<1>7. Once(q, x) /\ Head(q) = x => ~Has(r, x)
  <2> SUFFICES ASSUME Once(q, x), q[1] = x, NEW i \in 1..n, r[i] = x
               PROVE  FALSE
    BY <1>1, <1>4 DEF Has
  <2>1. i + 1 = 1
    BY <1>3, <1>4 DEF Once
  <2> QED
    BY <1>1, <2>1
<1>8. Behind(q, x, y) => Behind(r, x, y)
  <2> SUFFICES ASSUME Behind(q, x, y), NEW i \in 1..n, r[i] = x
               PROVE  \E j \in 1..n : j > i /\ r[j] = y
    BY <1>4 DEF Behind
  <2>1. PICK j \in 1..Len(q) : j > i + 1 /\ q[j] = y
    BY <1>3 DEF Behind
  <2>2. j - 1 \in 1..n /\ r[j - 1] = y /\ j - 1 > i
    BY <1>1, <1>2, <2>1
  <2> QED
    BY <2>2
<1>9. Behind(q, x, y) /\ Head(q) = x => Has(r, y)
  <2> SUFFICES ASSUME Behind(q, x, y), q[1] = x
               PROVE  \E j \in 1..n : r[j] = y
    BY <1>1, <1>4 DEF Has
  <2>1. PICK j \in 1..Len(q) : j > 1 /\ q[j] = y
    BY <1>4 DEF Behind
  <2> QED
    BY <1>2, <2>1
<1> QED
  BY <1>5, <1>6, <1>7, <1>8, <1>9 DEF r

LEMMA QueueCat ==
  ASSUME NEW Q, NEW a \in Seq(Q), NEW b \in Seq(Q), NEW x, NEW y
  PROVE  /\ Has(a \o b, x) <=> Has(a, x) \/ Has(b, x)
         /\ ~Has(b, x) /\ Once(a, x) => Once(a \o b, x)
         /\ ~Has(b, x) /\ Behind(a, x, y) => Behind(a \o b, x, y)
         /\ ~Has(b, x) /\ Has(b, y) => Behind(a \o b, x, y)
<1> DEFINE c == a \o b
           n == Len(a)
<1>1. /\ n \in Nat /\ Len(b) \in Nat /\ Len(c) = n + Len(b)
      /\ \A i \in 1..Len(c) : c[i] = IF i <= n THEN a[i] ELSE b[i - n]
  BY ConcatProperties
<1> HIDE DEF c
<1>2. \A i \in 1..n : i \in 1..Len(c) /\ c[i] = a[i]
  BY <1>1
<1>3. \A i \in 1..Len(b) : n + i \in 1..Len(c) /\ c[n + i] = b[i]
  <2> SUFFICES ASSUME NEW i \in 1..Len(b)
               PROVE  n + i \in 1..Len(c) /\ c[n + i] = b[i]
    OBVIOUS
  <2>1. n + i \in 1..Len(c) /\ ~(n + i <= n) /\ (n + i) - n = i
    BY <1>1
  <2> QED
    BY <1>1, <2>1
<1>4. \A i \in 1..Len(c) : i \in 1..n \/ (i - n \in 1..Len(b) /\ c[i] = b[i - n])
  BY <1>1
<1>5. Has(c, x) <=> Has(a, x) \/ Has(b, x)
  BY <1>2, <1>3, <1>4 DEF Has, n
<1>6. ~Has(b, x) => \A i \in 1..Len(c) : c[i] = x => i \in 1..n /\ a[i] = x
  BY <1>2, <1>4 DEF Has
<1>7. ~Has(b, x) /\ Once(a, x) => Once(c, x)
  BY <1>6 DEF Once, n
<1>8. ~Has(b, x) /\ Behind(a, x, y) => Behind(c, x, y)
  <2> SUFFICES ASSUME ~Has(b, x), Behind(a, x, y), NEW i \in 1..Len(c), c[i] = x
               PROVE  \E j \in 1..Len(c) : j > i /\ c[j] = y
    BY DEF Behind
  <2>1. i \in 1..n /\ a[i] = x
    BY <1>6
  <2>2. PICK j \in 1..n : j > i /\ a[j] = y
    BY <2>1 DEF Behind, n
  <2> QED
    BY <1>2, <2>2
<1>9. ~Has(b, x) /\ Has(b, y) => Behind(c, x, y)
  <2> SUFFICES ASSUME ~Has(b, x), NEW k \in 1..Len(b), b[k] = y, NEW i \in 1..Len(c), c[i] = x
               PROVE  \E j \in 1..Len(c) : j > i /\ c[j] = y
    BY DEF Behind, Has
  <2>1. i \in 1..n
    BY <1>6
  <2>2. n + k \in 1..Len(c) /\ c[n + k] = y
    BY <1>3
  <2>3. n + k > i
    BY <1>1, <2>1
  <2> QED
    BY <2>2, <2>3
<1> QED
  BY <1>5, <1>7, <1>8, <1>9 DEF c

LEMMA QueueAppend ==
  ASSUME NEW Q, NEW a \in Seq(Q), NEW z \in Q, NEW x, NEW y
  PROVE  /\ Has(Append(a, z), x) <=> Has(a, x) \/ x = z
         /\ x # z /\ Once(a, x) => Once(Append(a, z), x)
         /\ ~Has(a, z) => Once(Append(a, z), z)
         /\ x # z /\ Behind(a, x, y) => Behind(Append(a, z), x, y)
         /\ x # z => Behind(Append(a, z), x, z)
<1> DEFINE b == <<z>>
<1>1. Append(a, z) = a \o b /\ b \in Seq(Q) /\ Len(b) = 1 /\ b[1] = z
  BY AppendIsConcat
<1> HIDE DEF b
<1>2. Has(b, x) <=> x = z
  BY <1>1 DEF Has
<1>3. Has(b, z)
  BY <1>1 DEF Has
<1>4. ~Has(a, z) => Once(Append(a, z), z)
  <2>1. /\ Len(a) \in Nat /\ Len(Append(a, z)) = Len(a) + 1
        /\ \A i \in 1..Len(a) : Append(a, z)[i] = a[i]
    BY AppendProperties
  <2>2. \A i \in 1..Len(Append(a, z)) : i \in 1..Len(a) \/ i = Len(a) + 1
    BY <2>1
  <2> QED
    BY <2>1, <2>2 DEF Has, Once
<1> QED
  BY <1>1, <1>2, <1>3, <1>4, QueueCat

-----------------------------------------------------------------------------
(* A mission's START and STOP on their way *)

OwnCall == {StartOf(o) : o \in Orchs} \cup {StopOf(o) : o \in Orchs} \cup BrowserCall
BusError == [type : {"error"}, drone : Drones]
BusItem == [type : {"call"}, call : OwnCall] \cup BusError

Alive == {"starting", "running", "stuck"}

\* A mission o in state m, with its commands in the bus b and in the inbox x of
\* its drone; w: it owns the recording; l: a STOP has been lost.
HandedOn(o, m, b, x, w, l) ==
  /\ m = "new" => ~w /\ ~Has(b, Issue(StartOf(o))) /\ ~Has(x, StartOf(o))
  /\ Once(b, Issue(StartOf(o))) /\ Once(x, StartOf(o))
  /\ Has(b, Issue(StartOf(o))) => ~Has(x, StartOf(o)) /\ ~w
  /\ Has(x, StartOf(o)) => ~w
  /\ \/ l \/ m \in Alive
     \/ /\ w => Has(b, Issue(StopOf(o))) \/ Has(x, StopOf(o))
        /\ Behind(b, Issue(StartOf(o)), Issue(StopOf(o)))
        /\ Behind(x, StartOf(o), StopOf(o)) \/ Has(b, Issue(StopOf(o)))

StartsFollowed ==
  \A o \in Orchs :
    HandedOn(o, mission[o], bus, inbox[DroneOf[o]], o \in owners, lost)

QueuesOK ==
  /\ bus \in Seq(BusItem)
  /\ inbox \in [Drones -> Seq(OwnCall)]
  /\ link \in [Drones -> {"up", "broken", "down"}]
  /\ \A d \in Drones : \A i \in 1..Len(inbox[d]) : inbox[d][i].drone = d
  /\ \A d \in Drones : link[d] # "up" => inbox[d] = <<>>

MissionsOK ==
  /\ mission \in [Orchs -> {"new", "starting", "running", "stuck", "ended"}]
  /\ owners \subseteq Orchs
  /\ answer \in [BrowserCall -> {"none", "asked", "completed", "failed"}]
  /\ lost \in BOOLEAN /\ unmatched \in BOOLEAN

HandInv == QueuesOK /\ MissionsOK /\ StartsFollowed

LEMMA CallsDiffer ==
  ASSUME NEW o \in Orchs
  PROVE  /\ StartOf(o) # StopOf(o) /\ Issue(StartOf(o)) # Issue(StopOf(o))
         /\ StartOf(o) \in OwnCall /\ StopOf(o) \in OwnCall
         /\ StartOf(o) \in Call /\ StopOf(o) \in Call
         /\ Issue(StartOf(o)) \in BusItem /\ Issue(StopOf(o)) \in BusItem
         /\ \A p \in Orchs : /\ StartOf(p) = StartOf(o) <=> p = o
                             /\ StopOf(p) = StopOf(o) <=> p = o
                             /\ StartOf(p) # StopOf(o)
         /\ \A x \in BrowserCall : x # StartOf(o) /\ x # StopOf(o)
BY RecordingsAssumption
   DEF StartOf, StopOf, Issue, OwnCall, BusItem, BrowserCall, Call, MissionCall

LEMMA OwnCallIsCall == OwnCall \subseteq Call
BY RecordingsAssumption
   DEF StartOf, StopOf, OwnCall, Call, MissionCall

\* An item leaves the bus: l2 says whether it took a STOP with it.
LEMMA TakenFromBus ==
  ASSUME NEW o \in Orchs, NEW m, NEW b \in Seq(BusItem), NEW x \in Seq(OwnCall),
         NEW w \in BOOLEAN, NEW l \in BOOLEAN, NEW l2 \in BOOLEAN,
         HandedOn(o, m, b, x, w, l), b # <<>>,
         l => l2, Head(b) = Issue(StopOf(o)) => l2
  PROVE  HandedOn(o, m, Tail(b), x, w, l2)
<1> DEFINE s == Issue(StartOf(o))
           t == Issue(StopOf(o))
           r == Tail(b)
<1>1. /\ Has(r, s) => Has(b, s)
      /\ Once(b, s) => Once(r, s)
      /\ Behind(b, s, t) => Behind(r, s, t)
      /\ Has(b, t) /\ Head(b) # t => Has(r, t)
  BY QueueTail
<1> HIDE DEF s, t, r
<1>2. Head(b) = t => l2
  BY DEF t
<1> QED
  BY <1>1, <1>2 DEF HandedOn, s, t, r

\* The bus grows by items that are no START of o.
LEMMA AddedToBus ==
  ASSUME NEW o \in Orchs, NEW m, NEW n, NEW b \in Seq(BusItem), NEW x \in Seq(OwnCall),
         NEW w \in BOOLEAN, NEW l \in BOOLEAN, NEW e \in Seq(BusItem),
         HandedOn(o, m, b, x, w, l), ~Has(e, Issue(StartOf(o))),
         \/ n = m
         \/ m \in Alive /\ n \in Alive
         \/ n = "ended" /\ Has(e, Issue(StopOf(o)))
  PROVE  HandedOn(o, n, b \o e, x, w, l)
<1> DEFINE s == Issue(StartOf(o))
           t == Issue(StopOf(o))
           r == b \o e
<1>1. /\ Has(r, s) <=> Has(b, s)
      /\ Once(b, s) => Once(r, s)
      /\ Behind(b, s, t) => Behind(r, s, t)
      /\ Has(e, t) => Behind(r, s, t)
      /\ Has(b, t) => Has(r, t)
      /\ Has(e, t) => Has(r, t)
  BY QueueCat
<1> HIDE DEF s, t, r
<1>2. "ended" # "new" /\ "new" \notin Alive
  BY DEF Alive
<1>3. /\ ~Has(e, s)
      /\ n = m \/ (m \in Alive /\ n \in Alive) \/ (n = "ended" /\ Has(e, t))
  BY DEF s, t
<1>4. /\ m = "new" => ~w /\ ~Has(b, s) /\ ~Has(x, StartOf(o))
      /\ Once(b, s) /\ Once(x, StartOf(o))
      /\ Has(b, s) => ~Has(x, StartOf(o)) /\ ~w
      /\ Has(x, StartOf(o)) => ~w
  BY DEF HandedOn, s
<1>5. \/ l \/ m \in Alive
      \/ /\ w => Has(b, t) \/ Has(x, StopOf(o))
         /\ Behind(b, s, t)
         /\ Behind(x, StartOf(o), StopOf(o)) \/ Has(b, t)
  BY DEF HandedOn, s, t
<1>6. /\ n = "new" => ~w /\ ~Has(r, s) /\ ~Has(x, StartOf(o))
      /\ Once(r, s)
      /\ Has(r, s) => ~Has(x, StartOf(o)) /\ ~w
  BY <1>1, <1>2, <1>3, <1>4
<1>7. \/ l \/ n \in Alive
      \/ /\ w => Has(r, t) \/ Has(x, StopOf(o))
         /\ Behind(r, s, t)
         /\ Behind(x, StartOf(o), StopOf(o)) \/ Has(r, t)
  <2>1. CASE n = "ended" /\ Has(e, t)
    BY <1>1, <2>1
  <2>2. CASE n = m \/ (m \in Alive /\ n \in Alive)
    BY <1>1, <1>5, <2>2
  <2> QED
    BY <1>3, <2>1, <2>2
<1> QED
  BY <1>4, <1>6, <1>7 DEF HandedOn, s, t, r

\* The command at the head of the bus is sent to the drone.
LEMMA SentToDrone ==
  ASSUME NEW o \in Orchs, NEW m, NEW b \in Seq(BusItem), NEW x \in Seq(OwnCall),
         NEW w \in BOOLEAN, NEW l \in BOOLEAN, NEW c \in OwnCall,
         HandedOn(o, m, b, x, w, l), b # <<>>, Head(b) = Issue(c)
  PROVE  /\ HandedOn(o, m, Tail(b), Append(x, c), w, l)
         /\ c # StopOf(o) => HandedOn(o, m, Tail(b), x, w, l)
<1> DEFINE s == StartOf(o)
           t == StopOf(o)
           S == Issue(s)
           T == Issue(t)
           r == Tail(b)
           y == Append(x, c)
<1>1. /\ Has(b, S) <=> Head(b) = S \/ Has(r, S)
      /\ Has(b, T) <=> Head(b) = T \/ Has(r, T)
      /\ Once(b, S) => Once(r, S)
      /\ Once(b, S) /\ Head(b) = S => ~Has(r, S)
      /\ Behind(b, S, T) => Behind(r, S, T)
      /\ Behind(b, S, T) /\ Head(b) = S => Has(r, T)
  BY QueueTail
<1>2. /\ Has(y, s) <=> Has(x, s) \/ s = c
      /\ Has(y, t) <=> Has(x, t) \/ t = c
      /\ s # c /\ Once(x, s) => Once(y, s)
      /\ s = c /\ ~Has(x, s) => Once(y, s)
      /\ s # c /\ Behind(x, s, t) => Behind(y, s, t)
      /\ s # t /\ c = t => Behind(y, s, t)
  BY QueueAppend
<1>3. /\ s # t
      /\ Head(b) = S <=> c = s
      /\ Head(b) = T <=> c = t
  <2>1. s # t
    BY CallsDiffer
  <2>2. \A a : Head(b) = Issue(a) <=> c = a
    BY DEF Issue
  <2> QED
    BY <2>1, <2>2
<1>4. /\ m = "new" => ~w /\ ~Has(b, S) /\ ~Has(x, s)
      /\ Once(b, S) /\ Once(x, s)
      /\ Has(b, S) => ~Has(x, s) /\ ~w
      /\ Has(x, s) => ~w
      /\ \/ l \/ m \in Alive
         \/ /\ w => Has(b, T) \/ Has(x, t)
            /\ Behind(b, S, T)
            /\ Behind(x, s, t) \/ Has(b, T)
  BY DEF HandedOn
<1> HIDE DEF s, t, S, T, r, y
<1>5. CASE c = s
  <2>1. HandedOn(o, m, r, y, w, l)
    <3>1. /\ m = "new" => ~w /\ ~Has(r, S) /\ ~Has(y, s)
          /\ Once(r, S) /\ Once(y, s)
          /\ ~Has(r, S) /\ ~w
      BY <1>1, <1>2, <1>3, <1>4, <1>5
    <3>2. \/ l \/ m \in Alive
          \/ /\ ~w /\ Behind(r, S, T) /\ Has(r, T)
      BY <1>1, <1>3, <1>4, <1>5, <3>1
    <3> QED
      BY <3>1, <3>2 DEF HandedOn, s, t, S, T
  <2>2. HandedOn(o, m, r, x, w, l)
    <3>1. /\ m = "new" => ~w /\ ~Has(r, S) /\ ~Has(x, s)
          /\ Once(r, S) /\ Once(x, s)
          /\ ~Has(r, S) /\ ~w
      BY <1>1, <1>3, <1>4, <1>5
    <3>2. \/ l \/ m \in Alive
          \/ /\ ~w /\ Behind(r, S, T) /\ Has(r, T)
      BY <1>1, <1>3, <1>4, <1>5, <3>1
    <3> QED
      BY <1>4, <3>1, <3>2 DEF HandedOn, s, t, S, T
  <2> QED
    BY <2>1, <2>2 DEF r, y
<1>6. CASE c = t
  <2>1. /\ m = "new" => ~w /\ ~Has(r, S) /\ ~Has(y, s)
        /\ Once(r, S) /\ Once(y, s)
        /\ Has(r, S) => ~Has(y, s) /\ ~w
        /\ Has(y, s) => ~w
    BY <1>1, <1>2, <1>3, <1>4, <1>6
  <2>2. \/ l \/ m \in Alive
        \/ /\ Has(y, t)
           /\ Behind(r, S, T)
           /\ Behind(y, s, t)
    BY <1>1, <1>2, <1>3, <1>4, <1>6
  <2>3. HandedOn(o, m, r, y, w, l)
    BY <2>1, <2>2 DEF HandedOn, s, t, S, T
  <2> QED
    BY <1>6, <2>3 DEF r, y, t
<1>7. CASE c # s /\ c # t
  <2>1. /\ m = "new" => ~w /\ ~Has(r, S) /\ ~Has(y, s)
        /\ Once(r, S) /\ Once(y, s)
        /\ Has(r, S) => ~Has(y, s) /\ ~w
        /\ Has(y, s) => ~w
        /\ Has(y, s) <=> Has(x, s)
    BY <1>1, <1>2, <1>3, <1>4, <1>7
  <2>2. \/ l \/ m \in Alive
        \/ /\ w => Has(r, T) \/ Has(x, t)
           /\ Behind(r, S, T)
           /\ Behind(x, s, t) \/ Has(r, T)
    BY <1>1, <1>3, <1>4, <1>7
  <2>3. /\ Has(x, t) => Has(y, t)
        /\ Behind(x, s, t) => Behind(y, s, t)
    BY <1>2, <1>7
  <2>4. HandedOn(o, m, r, y, w, l)
    BY <2>1, <2>2, <2>3 DEF HandedOn, s, t, S, T
  <2>5. HandedOn(o, m, r, x, w, l)
    BY <1>4, <2>1, <2>2 DEF HandedOn, s, t, S, T
  <2> QED
    BY <2>4, <2>5 DEF r, y
<1> QED
  BY <1>5, <1>6, <1>7

\* The drone takes the command at the head of its inbox.
LEMMA TakenByDrone ==
  ASSUME NEW o \in Orchs, NEW m, NEW b \in Seq(BusItem), NEW x \in Seq(OwnCall),
         NEW w \in BOOLEAN, NEW w2 \in BOOLEAN, NEW l \in BOOLEAN,
         HandedOn(o, m, b, x, w, l), x # <<>>,
         Head(x) = StopOf(o) => ~w2,
         w2 => w \/ Head(x) = StartOf(o)
  PROVE  HandedOn(o, m, b, Tail(x), w2, l)
<1> DEFINE s == StartOf(o)
           t == StopOf(o)
           S == Issue(s)
           T == Issue(t)
           r == Tail(x)
<1>1. /\ Has(x, s) <=> Head(x) = s \/ Has(r, s)
      /\ Has(x, t) <=> Head(x) = t \/ Has(r, t)
      /\ Once(x, s) => Once(r, s)
      /\ Once(x, s) /\ Head(x) = s => ~Has(r, s)
      /\ Behind(x, s, t) => Behind(r, s, t)
      /\ Behind(x, s, t) /\ Head(x) = s => Has(r, t)
  BY QueueTail
<1>2. /\ m = "new" => ~w /\ ~Has(b, S) /\ ~Has(x, s)
      /\ Once(b, S) /\ Once(x, s)
      /\ Has(b, S) => ~Has(x, s) /\ ~w
      /\ Has(x, s) => ~w
      /\ \/ l \/ m \in Alive
         \/ /\ w => Has(b, T) \/ Has(x, t)
            /\ Behind(b, S, T)
            /\ Behind(x, s, t) \/ Has(b, T)
  BY DEF HandedOn
<1>3. (Head(x) = t => ~w2) /\ (w2 => w \/ Head(x) = s)
  OBVIOUS
<1> HIDE DEF s, t, S, T, r
<1>4. /\ m = "new" => ~w2 /\ ~Has(b, S) /\ ~Has(r, s)
      /\ Once(r, s)
      /\ Has(b, S) => ~Has(r, s) /\ ~w2
      /\ Has(r, s) => ~w2
  BY <1>1, <1>2, <1>3
<1>5. \/ l \/ m \in Alive
      \/ /\ w2 => Has(b, T) \/ Has(r, t)
         /\ Behind(b, S, T)
         /\ Behind(r, s, t) \/ Has(b, T)
  BY <1>1, <1>2, <1>3
<1> QED
  BY <1>2, <1>4, <1>5 DEF HandedOn, s, t, S, T, r

\* The inbox is lost, l2 says whether it held a STOP.
LEMMA InboxLost ==
  ASSUME NEW o \in Orchs, NEW m, NEW b, NEW x, NEW w \in BOOLEAN, NEW w2 \in BOOLEAN,
         NEW l \in BOOLEAN, NEW l2 \in BOOLEAN,
         HandedOn(o, m, b, x, w, l), l => l2, w2 => w, Has(x, StopOf(o)) => l2
  PROVE  HandedOn(o, m, b, <<>>, w2, l2)
<1>1. ~Has(<<>>, StartOf(o)) /\ Once(<<>>, StartOf(o)) /\ Behind(<<>>, StartOf(o), StopOf(o))
  BY DEF Has, Once, Behind
<1> QED
  BY <1>1 DEF HandedOn

\* The same queues, and more may have been lost.
LEMMA HandedOnLater ==
  ASSUME NEW o, NEW m, NEW n, NEW b, NEW x, NEW w \in BOOLEAN, NEW w2 \in BOOLEAN,
         NEW l \in BOOLEAN, NEW l2 \in BOOLEAN,
         HandedOn(o, m, b, x, w, l), l => l2, w2 => w,
         n = m \/ (m \in Alive /\ n \in Alive)
  PROVE  HandedOn(o, n, b, x, w2, l2)
BY DEF HandedOn, Alive

-----------------------------------------------------------------------------
(* Calls that return with an error *)

LEMMA SuspendedFinite ==
  ASSUME WaiterInv
  PROVE  IsFiniteSet(suspended) /\ suspended \subseteq Call
<1> DEFINE a == {waiter["START_RECORDING"]}
           b == a \cup {waiter["STOP_RECORDING"]}
           c == b \cup {waiter["GET_RECORDINGS"]}
           e == c \cup {waiter["PULL_RECORDINGS"]}
<1>1. IsFiniteSet(a)
  BY FS_Singleton
<1>2. IsFiniteSet(b)
  BY <1>1, FS_AddElement
<1>3. IsFiniteSet(c)
  BY <1>2, FS_AddElement
<1>4. IsFiniteSet(e)
  BY <1>3, FS_AddElement
<1>5. suspended \in SUBSET e
  BY DEF WaiterInv, WaitersAreRegistered, Action
<1>6. suspended \subseteq Call
  BY DEF WaiterInv, WaitersAreRegistered, Keyed
<1> HIDE DEF e
<1> QED
  BY <1>4, <1>5, <1>6, FS_Subset

\* What an order of a finite set is.
LEMMA OrderOfSet ==
  ASSUME NEW S, IsFiniteSet(S), NEW order \in SetToSeqs(S)
  PROVE  /\ order \in Seq(S)
         /\ \A x \in S : \E i \in 1..Len(order) : order[i] = x
<1> DEFINE n == Cardinality(S)
           D == 1..n
<1>1. n \in Nat
  BY FS_CardinalityType
<1> HIDE DEF n
<1>2. order \in [D -> S] /\ \A i, j \in D : i # j => order[i] # order[j]
  BY DEF SetToSeqs, n
<1>3. order \in Seq(S) /\ Len(order) = n
  BY <1>1, <1>2
<1>4. IsFiniteSet(D) /\ Cardinality(D) = n
  <2>1. 1 \in Int /\ n \in Int
    BY <1>1
  <2>2. IsFiniteSet(D) /\ Cardinality(D) = IF 1 > n THEN 0 ELSE n - 1 + 1
    BY <2>1, FS_Interval
  <2> QED
    BY <1>1, <2>2
<1>5. order \in Injection(D, S)
  BY <1>2 DEF Injection, IsInjective
<1>6. Cardinality(D) = Cardinality(S) <=> order \in Surjection(D, S)
  BY <1>5, FS_Injection
<1>7. order \in Surjection(D, S)
  BY <1>4, <1>6 DEF n
<1>8. \A x \in S : \E i \in D : order[i] = x
  BY <1>7 DEF Surjection
<1> QED
  BY <1>3, <1>8

LEMMA ErrorsOfCalls ==
  ASSUME NEW calls, calls \subseteq Call, IsFiniteSet(calls), NEW q, FailCalls(calls, q)
  PROVE  /\ \E e \in Seq(BusError) : bus' = q \o e
         /\ mission' = AfterStart(calls) /\ answer' = Answer(calls, "failed")
<1>1. PICK order \in SetToSeqs(calls) :
        bus' = q \o [i \in 1..Len(order) |-> DroneError(order[i].drone)]
  BY DEF FailCalls
<1>2. order \in Seq(calls)
  BY OrderOfSet
<1>3. \A i \in 1..Len(order) : DroneError(order[i].drone) \in BusError
  BY <1>2 DEF DroneError, BusError, Call, MissionCall, BrowserCall
<1>4. [i \in 1..Len(order) |-> DroneError(order[i].drone)] \in Seq(BusError)
  <2>1. Len(order) \in Nat
    BY <1>2
  <2> QED
    BY <1>3, <2>1
<1> QED
  BY <1>1, <1>4 DEF FailCalls

LEMMA NoCallInErrors ==
  ASSUME NEW e \in Seq(BusError)
  PROVE  e \in Seq(BusItem) /\ \A x : ~Has(e, Issue(x))
<1>1. BusError \subseteq BusItem
  BY DEF BusItem
<1>2. e \in Seq(BusItem)
  BY <1>1, SeqMonotonic
<1>3. \A i \in 1..Len(e) : e[i] \in BusError
  OBVIOUS
<1>4. \A i \in 1..Len(e) : e[i].type = "error"
  BY <1>3 DEF BusError
<1> QED
  BY <1>2, <1>4 DEF Has, Issue

\* Whatever happens to a mission that waits for its START, it stays alive.
LEMMA StartReturns ==
  ASSUME MissionsOK, NEW calls, mission' = AfterStart(calls) \/ mission' = Cancel(calls)
  PROVE  /\ mission' \in [Orchs -> {"new", "starting", "running", "stuck", "ended"}]
         /\ \A o \in Orchs : \/ mission'[o] = mission[o]
                             \/ mission[o] \in Alive /\ mission'[o] \in Alive
BY DEF MissionsOK, AfterStart, Cancel, Alive

LEMMA Answered ==
  ASSUME MissionsOK, NEW calls, NEW a \in {"completed", "failed"}, answer' = Answer(calls, a)
  PROVE  answer' \in [BrowserCall -> {"none", "asked", "completed", "failed"}]
BY DEF MissionsOK, Answer

-----------------------------------------------------------------------------
(* Every START is followed by its STOP *)

LEMMA ServedCall ==
  ASSUME QueuesOK, NEW x, Served(x)
  PROVE  /\ x \in OwnCall /\ x \in Call /\ x.drone \in Drones
         /\ bus # <<>> /\ Head(bus) = Issue(x) /\ Tail(bus) \in Seq(BusItem)
<1>1. bus \in Seq(BusItem) /\ bus # <<>> /\ Head(bus) = Issue(x)
  BY DEF QueuesOK, Served
<1>2. Head(bus) \in BusItem /\ Tail(bus) \in Seq(BusItem)
  BY <1>1
<1>3. x \in OwnCall
  BY <1>1, <1>2 DEF BusItem, BusError, Issue
<1>4. x \in Call
  BY <1>3, OwnCallIsCall
<1> QED
  BY <1>1, <1>2, <1>3, <1>4 DEF Call, MissionCall, BrowserCall

\* What a step that leaves the commands in the bus and the inboxes does to a mission.
MissionsLive ==
  \A o \in Orchs : \/ mission'[o] = mission[o]
                   \/ mission[o] \in Alive /\ mission'[o] \in Alive

LEMMA InboxOf ==
  ASSUME QueuesOK, NEW o \in Orchs
  PROVE  DroneOf[o] \in Drones /\ inbox[DroneOf[o]] \in Seq(OwnCall)
BY RecordingsAssumption DEF QueuesOK

LEMMA FollowedAfterCall ==
  ASSUME HandInv, NEW x, Served(x), NEW e \in Seq(BusError), bus' = Tail(bus) \o e,
         lost' = (lost \/ x.action = "STOP_RECORDING"), UNCHANGED <<inbox, owners>>,
         MissionsLive
  PROVE  StartsFollowed'
<1> SUFFICES ASSUME NEW o \in Orchs
             PROVE  HandedOn(o, mission'[o], Tail(bus) \o e, inbox[DroneOf[o]],
                             o \in owners, lost')
  BY DEF StartsFollowed
<1> DEFINE b == Tail(bus)
           y == inbox[DroneOf[o]]
           w == o \in owners
           m == mission[o]
           n == mission'[o]
           l == lost'
<1>1. /\ bus \in Seq(BusItem) /\ bus # <<>> /\ Head(bus) = Issue(x) /\ b \in Seq(BusItem)
      /\ y \in Seq(OwnCall) /\ e \in Seq(BusItem) /\ ~Has(e, Issue(StartOf(o)))
  BY ServedCall, InboxOf, NoCallInErrors DEF HandInv, QueuesOK
<1>2. lost \in BOOLEAN /\ lost' \in BOOLEAN /\ w \in BOOLEAN
  BY DEF HandInv, MissionsOK
<1>3. Head(bus) = Issue(StopOf(o)) => lost'
  <2>1. Head(bus) = Issue(StopOf(o)) => x = StopOf(o)
    BY <1>1 DEF Issue
  <2>2. StopOf(o).action = "STOP_RECORDING"
    BY DEF StopOf
  <2> QED
    BY <2>1, <2>2
<1>4. HandedOn(o, m, bus, y, w, lost)
  BY DEF HandInv, StartsFollowed
<1>5. \/ n = m \/ (m \in Alive /\ n \in Alive)
      \/ n = "ended" /\ Has(e, Issue(StopOf(o)))
  BY DEF MissionsLive
<1>6. l \in BOOLEAN /\ (lost => l) /\ (Head(bus) = Issue(StopOf(o)) => l)
  BY <1>2, <1>3
<1> HIDE DEF b, y, w, m, n, l
<1>7. HandedOn(o, m, b, y, w, l)
  BY <1>1, <1>2, <1>4, <1>6, TakenFromBus DEF b
<1>8. HandedOn(o, n, b \o e, y, w, l)
  <2>1. e \in Seq(BusItem) /\ ~Has(e, Issue(StartOf(o))) /\ l \in BOOLEAN /\ w \in BOOLEAN
    BY <1>1, <1>2, <1>6
  <2> QED
    BY <1>1, <1>5, <1>7, <2>1, AddedToBus
<1> QED
  BY <1>8 DEF b, y, w, n, l

LEMMA FollowedAfterItems ==
  ASSUME HandInv, NEW e \in Seq(BusItem), bus' = bus \o e,
         NEW o \in Orchs, ~Has(e, Issue(StartOf(o))),
         \/ mission'[o] = mission[o]
         \/ mission[o] \in Alive /\ mission'[o] \in Alive
         \/ mission'[o] = "ended" /\ Has(e, Issue(StopOf(o)))
  PROVE  HandedOn(o, mission'[o], bus', inbox[DroneOf[o]], o \in owners, lost)
<1> DEFINE y == inbox[DroneOf[o]]
           w == o \in owners
           m == mission[o]
           n == mission'[o]
<1>1. bus \in Seq(BusItem) /\ y \in Seq(OwnCall)
  BY InboxOf DEF HandInv, QueuesOK
<1>2. lost \in BOOLEAN /\ w \in BOOLEAN
  BY DEF HandInv, MissionsOK
<1>3. HandedOn(o, m, bus, y, w, lost)
  BY DEF HandInv, StartsFollowed
<1>4. \/ n = m \/ (m \in Alive /\ n \in Alive)
      \/ n = "ended" /\ Has(e, Issue(StopOf(o)))
  OBVIOUS
<1> HIDE DEF y, w, m, n
<1>5. HandedOn(o, n, bus \o e, y, w, lost)
  BY <1>1, <1>2, <1>3, <1>4, AddedToBus
<1> QED
  BY <1>5 DEF y, w, n

LEMMA FollowedAfterErrors ==
  ASSUME HandInv, NEW e \in Seq(BusError), bus' = bus \o e,
         UNCHANGED <<inbox, owners, lost>>, MissionsLive
  PROVE  StartsFollowed'
<1>1. e \in Seq(BusItem) /\ \A o : ~Has(e, Issue(StartOf(o)))
  BY NoCallInErrors
<1>2. \A o \in Orchs : HandedOn(o, mission'[o], bus', inbox[DroneOf[o]], o \in owners, lost)
  BY <1>1, FollowedAfterItems DEF MissionsLive
<1> QED
  BY <1>2 DEF StartsFollowed

\* The handler of drone d ends, or its connection breaks.
LEMMA FollowedAfterLoss ==
  ASSUME HandInv, NEW d \in Drones, NEW e \in Seq(BusError), bus' = bus \o e,
         inbox' = [inbox EXCEPT ![d] = <<>>], lost' \in BOOLEAN,
         lost \/ StopsIn(inbox[d]) => lost', owners' \subseteq owners, MissionsLive
  PROVE  StartsFollowed'
<1> SUFFICES ASSUME NEW o \in Orchs
             PROVE  HandedOn(o, mission'[o], bus', inbox'[DroneOf[o]], o \in owners', lost')
  BY DEF StartsFollowed
<1> DEFINE y == inbox[DroneOf[o]]
           w == o \in owners
           w2 == o \in owners'
           n == mission'[o]
<1>1. e \in Seq(BusItem) /\ ~Has(e, Issue(StartOf(o)))
  BY NoCallInErrors
<1>2. HandedOn(o, n, bus', y, w, lost)
  BY <1>1, FollowedAfterItems DEF MissionsLive
<1>3. /\ lost \in BOOLEAN /\ w \in BOOLEAN /\ w2 \in BOOLEAN /\ (w2 => w)
      /\ inbox \in [Drones -> Seq(OwnCall)] /\ DroneOf[o] \in Drones
  BY InboxOf DEF HandInv, MissionsOK, QueuesOK
<1>4. CASE DroneOf[o] = d
  <2>1. Has(y, StopOf(o)) => lost'
    BY <1>4 DEF Has, StopsIn, StopOf
  <2>2. inbox'[DroneOf[o]] = <<>>
    BY <1>3, <1>4
  <2> HIDE DEF y, w, w2, n
  <2>3. HandedOn(o, n, bus', <<>>, w2, lost')
    BY <1>2, <1>3, <2>1, InboxLost
  <2> QED
    BY <2>2, <2>3 DEF w2, n
<1>5. CASE DroneOf[o] # d
  <2>1. inbox'[DroneOf[o]] = y
    BY <1>3, <1>5
  <2> HIDE DEF y, w, w2, n
  <2>2. HandedOn(o, n, bus', y, w2, lost')
    BY <1>2, <1>3, HandedOnLater
  <2> QED
    BY <2>1, <2>2 DEF w2, n
<1> QED
  BY <1>4, <1>5

LEMMA FollowedByDrone ==
  ASSUME HandInv, NEW d \in Drones, inbox[d] # <<>>,
         inbox' = [inbox EXCEPT ![d] = Tail(inbox[d])], UNCHANGED <<mission, bus, lost>>,
         \A o \in Orchs : /\ o \in owners' => o \in owners \/ Head(inbox[d]) = StartOf(o)
                          /\ Head(inbox[d]) = StopOf(o) => o \notin owners'
  PROVE  StartsFollowed'
<1> SUFFICES ASSUME NEW o \in Orchs
             PROVE  HandedOn(o, mission[o], bus, inbox'[DroneOf[o]], o \in owners', lost)
  BY DEF StartsFollowed
<1> DEFINE y == inbox[DroneOf[o]]
           w == o \in owners
           w2 == o \in owners'
           m == mission[o]
<1>1. HandedOn(o, m, bus, y, w, lost)
  BY DEF HandInv, StartsFollowed
<1>2. /\ lost \in BOOLEAN /\ w \in BOOLEAN /\ w2 \in BOOLEAN /\ bus \in Seq(BusItem)
      /\ inbox \in [Drones -> Seq(OwnCall)] /\ DroneOf[o] \in Drones
      /\ y \in Seq(OwnCall)
  BY InboxOf DEF HandInv, MissionsOK, QueuesOK
<1>3. CASE DroneOf[o] = d
  <2>1. y # <<>> /\ (Head(y) = StopOf(o) => ~w2) /\ (w2 => w \/ Head(y) = StartOf(o))
    BY <1>3
  <2>2. inbox'[DroneOf[o]] = Tail(y)
    BY <1>2, <1>3
  <2> HIDE DEF y, w, w2, m
  <2>3. HandedOn(o, m, bus, Tail(y), w2, lost)
    BY <1>1, <1>2, <2>1, TakenByDrone
  <2> QED
    BY <2>2, <2>3 DEF w2, m
<1>4. CASE DroneOf[o] # d
  <2>1. inbox'[DroneOf[o]] = y
    BY <1>2, <1>4
  <2>2. w2 => w
    <3>1. Head(inbox[d]).drone = d
      <4>1. 1 \in 1..Len(inbox[d]) /\ Head(inbox[d]) = inbox[d][1]
        BY <1>2
      <4> QED
        BY <4>1 DEF HandInv, QueuesOK
    <3>2. Head(inbox[d]) # StartOf(o)
      BY <1>4, <3>1 DEF StartOf
    <3> QED
      BY <3>2
  <2> HIDE DEF y, w, w2, m
  <2>3. HandedOn(o, m, bus, y, w2, lost)
    BY <1>1, <1>2, <2>2, HandedOnLater
  <2> QED
    BY <2>1, <2>3 DEF w2, m
<1> QED
  BY <1>3, <1>4

-----------------------------------------------------------------------------
(* The steps of the server's loop *)

LEMMA CallStep ==
  ASSUME HandInv, NEW x \in Call, CallUnconnected(x) \/ CallSends(x) \/ CallSendFails(x)
  PROVE  HandInv'
<1>0. /\ QueuesOK /\ MissionsOK /\ StartsFollowed
      /\ bus \in Seq(BusItem) /\ inbox \in [Drones -> Seq(OwnCall)]
      /\ link \in [Drones -> {"up", "broken", "down"}]
  BY DEF HandInv, QueuesOK
<1>1. Served(x)
  BY DEF CallUnconnected, NoConnection, CallSends, CallSendFails
<1>2. /\ x \in OwnCall /\ x.drone \in Drones
      /\ bus # <<>> /\ Head(bus) = Issue(x) /\ Tail(bus) \in Seq(BusItem)
  BY <1>0, <1>1, ServedCall
<1>3. CASE CallUnconnected(x)
  <2>1. IsFiniteSet({x}) /\ {x} \subseteq Call /\ FailCalls({x}, Tail(bus))
    BY <1>3, FS_Singleton DEF CallUnconnected
  <2>2. PICK e \in Seq(BusError) : bus' = Tail(bus) \o e
    BY <2>1, ErrorsOfCalls
  <2>3. mission' = AfterStart({x}) /\ answer' = Answer({x}, "failed")
    BY <2>1, ErrorsOfCalls
  <2>4. MissionsLive
    BY <1>0, <2>3, StartReturns DEF MissionsLive
  <2>5. MissionsOK'
    <3>1. mission' \in [Orchs -> {"new", "starting", "running", "stuck", "ended"}]
      BY <1>0, <2>3, StartReturns
    <3>2. answer' \in [BrowserCall -> {"none", "asked", "completed", "failed"}]
      BY <1>0, <2>3, Answered
    <3> QED
      BY <1>0, <1>3, <3>1, <3>2 DEF MissionsOK, CallUnconnected
  <2>6. UNCHANGED <<link, inbox, owners>> /\ lost' = (lost \/ x.action = "STOP_RECORDING")
    BY <1>3 DEF CallUnconnected, wireVars
  <2>7. StartsFollowed'
    BY <1>1, <2>2, <2>4, <2>6, FollowedAfterCall
  <2>8. e \in Seq(BusItem)
    BY NoCallInErrors
  <2>9. QueuesOK'
    BY <1>0, <1>2, <2>2, <2>6, <2>8 DEF QueuesOK
  <2> QED
    BY <2>5, <2>7, <2>9 DEF HandInv
<1>4. CASE CallSends(x)
  <2>1. /\ mission' = Cancel(Displaced(x)) /\ bus' = Tail(bus)
        /\ inbox' = [inbox EXCEPT ![x.drone] = Append(inbox[x.drone], x)]
        /\ UNCHANGED <<answer, link, owners, lost, unmatched>> /\ link[x.drone] = "up"
    BY <1>4 DEF CallSends, historyVars
  <2>2. MissionsLive /\ MissionsOK'
    BY <1>0, <2>1, StartReturns DEF MissionsLive, MissionsOK
  <2>3. inbox' \in [Drones -> Seq(OwnCall)]
    BY <1>0, <1>2, <2>1
  <2>4. ASSUME NEW d \in Drones, NEW i \in 1..Len(inbox'[d])
        PROVE  inbox'[d][i].drone = d
    <3>1. CASE d = x.drone
      <4>1. /\ inbox'[d] = Append(inbox[d], x) /\ inbox[d] \in Seq(OwnCall)
            /\ \A k \in 1..Len(inbox[d]) : inbox[d][k].drone = d
        BY <1>0, <2>1, <3>1 DEF QueuesOK
      <4>2. i \in 1..Len(inbox[d]) \/ inbox'[d][i] = x
        BY <2>4, <4>1
      <4>3. i \in 1..Len(inbox[d]) => inbox'[d][i] = inbox[d][i]
        BY <4>1
      <4> QED
        BY <3>1, <4>1, <4>2, <4>3
    <3>2. CASE d # x.drone
      BY <1>0, <2>1, <2>4, <3>2 DEF QueuesOK
    <3> QED
      BY <3>1, <3>2
  <2>5. QueuesOK'
    <3>1. \A d \in Drones : link'[d] # "up" => inbox'[d] = <<>>
      BY <1>0, <2>1 DEF QueuesOK
    <3> QED
      BY <1>0, <1>2, <2>1, <2>3, <2>4, <3>1 DEF QueuesOK
  <2>6. ASSUME NEW o \in Orchs
        PROVE  HandedOn(o, mission'[o], Tail(bus), inbox'[DroneOf[o]], o \in owners, lost)
    <3> DEFINE y == inbox[DroneOf[o]]
               w == o \in owners
               n == mission'[o]
    <3>1. /\ HandedOn(o, mission[o], bus, y, w, lost)
          /\ lost \in BOOLEAN /\ w \in BOOLEAN /\ y \in Seq(OwnCall) /\ DroneOf[o] \in Drones
      BY <1>0, InboxOf DEF StartsFollowed, MissionsOK
    <3>2. \/ inbox'[DroneOf[o]] = Append(y, x)
          \/ inbox'[DroneOf[o]] = y /\ x # StopOf(o)
      <4>1. StopOf(o).drone = DroneOf[o]
        BY DEF StopOf
      <4> QED
        BY <1>0, <2>1, <3>1, <4>1
    <3>3. n = mission[o] \/ (mission[o] \in Alive /\ n \in Alive)
      BY <2>2 DEF MissionsLive
    <3> HIDE DEF y, w, n
    <3>4. /\ HandedOn(o, mission[o], Tail(bus), Append(y, x), w, lost)
          /\ x # StopOf(o) => HandedOn(o, mission[o], Tail(bus), y, w, lost)
      BY <1>0, <1>2, <3>1, SentToDrone
    <3>5. /\ HandedOn(o, n, Tail(bus), Append(y, x), w, lost)
          /\ x # StopOf(o) => HandedOn(o, n, Tail(bus), y, w, lost)
      BY <3>1, <3>3, <3>4, HandedOnLater
    <3> QED
      BY <3>2, <3>5 DEF y, w, n
  <2>7. StartsFollowed'
    BY <2>1, <2>6 DEF StartsFollowed
  <2> QED
    BY <2>2, <2>5, <2>7 DEF HandInv
<1>5. CASE CallSendFails(x)
  <2> DEFINE e == <<DroneError(x.drone)>>
  <2>1. e \in Seq(BusError) /\ e \in Seq(BusItem) /\ Append(Tail(bus), DroneError(x.drone)) = Tail(bus) \o e
    <3>1. DroneError(x.drone) \in BusError /\ DroneError(x.drone) \in BusItem
      BY <1>2 DEF DroneError, BusError, BusItem
    <3> QED
      BY <1>2, <3>1, AppendIsConcat
  <2> HIDE DEF e
  <2>2. /\ bus' = Tail(bus) \o e /\ answer' = Answer({x}, "failed")
        /\ lost' = (lost \/ x.action = "STOP_RECORDING")
        /\ UNCHANGED <<link, inbox, owners, unmatched>>
        /\ mission' = [o \in Orchs |-> IF StartOf(o) = x /\ mission[o] = "starting"
                                       THEN "running" ELSE Cancel(Displaced(x))[o]]
    BY <1>5, <2>1 DEF CallSendFails, wireVars
  <2>3. MissionsLive /\ mission' \in [Orchs -> {"new", "starting", "running", "stuck", "ended"}]
    BY <1>0, <2>2 DEF MissionsLive, MissionsOK, Cancel, Alive
  <2>4. answer' \in [BrowserCall -> {"none", "asked", "completed", "failed"}]
    BY <1>0, <2>2, Answered
  <2>5. MissionsOK'
    BY <1>0, <2>2, <2>3, <2>4 DEF MissionsOK
  <2>6. StartsFollowed'
    BY <1>1, <2>1, <2>2, <2>3, FollowedAfterCall
  <2>7. QueuesOK'
    BY <1>0, <1>2, <2>1, <2>2 DEF QueuesOK
  <2> QED
    BY <2>5, <2>6, <2>7 DEF HandInv
<1> QED
  BY <1>3, <1>4, <1>5

\* Calls are answered, or fail.
LEMMA ReturnStep ==
  ASSUME HandInv, NEW calls, calls \subseteq Call, IsFiniteSet(calls),
         \/ FailCalls(calls, bus)
         \/ mission' = AfterStart(calls) /\ answer' = Answer(calls, "completed") /\ bus' = bus,
         UNCHANGED <<inbox, link, historyVars>>
  PROVE  HandInv'
<1>1. /\ \E e \in Seq(BusError) : bus' = bus \o e
      /\ mission' = AfterStart(calls)
      /\ \E a \in {"completed", "failed"} : answer' = Answer(calls, a)
  <2>1. CASE FailCalls(calls, bus)
    BY <2>1, ErrorsOfCalls
  <2>2. CASE mission' = AfterStart(calls) /\ answer' = Answer(calls, "completed") /\ bus' = bus
    <3>1. <<>> \in Seq(BusError) /\ bus \o <<>> = bus
      BY DEF HandInv, QueuesOK
    <3> QED
      BY <2>2, <3>1
  <2> QED
    BY <2>1, <2>2
<1>2. PICK e \in Seq(BusError) : bus' = bus \o e
  BY <1>1
<1>3. MissionsLive /\ mission' \in [Orchs -> {"new", "starting", "running", "stuck", "ended"}]
  BY <1>1, StartReturns DEF HandInv, MissionsLive
<1>4. answer' \in [BrowserCall -> {"none", "asked", "completed", "failed"}]
  BY <1>1, Answered DEF HandInv
<1>5. MissionsOK'
  BY <1>3, <1>4 DEF HandInv, MissionsOK, historyVars
<1>6. e \in Seq(BusItem)
  BY NoCallInErrors
<1>7. QueuesOK'
  BY <1>2, <1>6 DEF HandInv, QueuesOK
<1>8. StartsFollowed'
  BY <1>2, <1>3, FollowedAfterErrors DEF historyVars
<1> QED
  BY <1>5, <1>7, <1>8 DEF HandInv

LEMMA EndStep ==
  ASSUME HandInv, WaiterInv, NEW d \in Drones, EndHandler(d), lost' \in BOOLEAN,
         lost \/ StopsIn(inbox[d]) => lost', UNCHANGED <<owners, unmatched>>
  PROVE  HandInv'
<1>1. /\ \E e \in Seq(BusError) : bus' = bus \o e
      /\ mission' = AfterStart(suspended) /\ answer' = Answer(suspended, "failed")
  BY SuspendedFinite, ErrorsOfCalls DEF EndHandler
<1>2. PICK e \in Seq(BusError) : bus' = bus \o e
  BY <1>1
<1>3. MissionsLive /\ mission' \in [Orchs -> {"new", "starting", "running", "stuck", "ended"}]
  BY <1>1, StartReturns DEF HandInv, MissionsLive
<1>4. answer' \in [BrowserCall -> {"none", "asked", "completed", "failed"}]
  BY <1>1, Answered DEF HandInv
<1>5. MissionsOK'
  BY <1>3, <1>4 DEF HandInv, MissionsOK
<1>6. e \in Seq(BusItem)
  BY NoCallInErrors
<1>7. inbox' = [inbox EXCEPT ![d] = <<>>] /\ link' = [link EXCEPT ![d] = "down"]
  BY DEF EndHandler
<1>8. QueuesOK'
  <2>1. bus' \in Seq(BusItem) /\ inbox' \in [Drones -> Seq(OwnCall)]
    BY <1>2, <1>6, <1>7 DEF HandInv, QueuesOK
  <2>2. \A c \in Drones : inbox'[c] = <<>> \/ (inbox'[c] = inbox[c] /\ link'[c] = link[c])
    BY <1>7 DEF HandInv, QueuesOK
  <2>3. link' \in [Drones -> {"up", "broken", "down"}]
    BY <1>7 DEF HandInv, QueuesOK
  <2> QED
    BY <2>1, <2>2, <2>3 DEF HandInv, QueuesOK
<1>9. owners' \subseteq owners
  OBVIOUS
<1>10. StartsFollowed'
  BY <1>2, <1>3, <1>7, <1>9, FollowedAfterLoss
<1> QED
  BY <1>5, <1>8, <1>10 DEF HandInv

LEMMA ErrorStep ==
  ASSUME HandInv, IsFiniteSet(Orchs), HandleDroneError
  PROVE  HandInv'
<1> DEFINE aborted == {o \in Orchs : Live(o) /\ DroneOf[o] = Head(bus).drone}
           r == Tail(bus)
<1>1. /\ bus # <<>> /\ bus \in Seq(BusItem) /\ r \in Seq(BusItem)
      /\ \A x : Head(bus) # Issue(x)
  BY DEF HandInv, QueuesOK, HandleDroneError, Issue
<1>2. /\ mission' = [o \in Orchs |-> IF o \in aborted THEN "ended" ELSE mission[o]]
      /\ UNCHANGED <<answer, inbox, link, owners, unmatched, lost>>
  BY DEF HandleDroneError, wireVars, historyVars
<1>3. PICK order \in SetToSeqs(aborted) :
        bus' = r \o [i \in 1..Len(order) |-> Issue(StopOf(order[i]))]
  BY DEF HandleDroneError
<1> DEFINE e == [i \in 1..Len(order) |-> Issue(StopOf(order[i]))]
<1>4. /\ order \in Seq(aborted) /\ Len(order) \in Nat
      /\ \A o \in aborted : \E i \in 1..Len(order) : order[i] = o
  <2>1. aborted \in SUBSET Orchs
    OBVIOUS
  <2>2. IsFiniteSet(aborted)
    BY <2>1, FS_Subset
  <2> HIDE DEF aborted
  <2> QED
    BY <2>2, OrderOfSet
<1>5. e \in Seq(BusItem) /\ Len(e) = Len(order)
  <2>1. \A i \in 1..Len(order) : Issue(StopOf(order[i])) \in BusItem
    BY <1>4, CallsDiffer
  <2> QED
    BY <1>4, <2>1
<1>6. ASSUME NEW o \in Orchs
      PROVE  ~Has(e, Issue(StartOf(o))) /\ (o \in aborted => Has(e, Issue(StopOf(o))))
  <2>1. \A i \in 1..Len(e) : e[i] = Issue(StopOf(order[i])) /\ order[i] \in Orchs
    BY <1>4, <1>5
  <2>2. \A p \in Orchs : Issue(StopOf(p)) # Issue(StartOf(o))
    BY CallsDiffer DEF Issue
  <2>3. ~Has(e, Issue(StartOf(o)))
    BY <2>1, <2>2 DEF Has
  <2>4. ASSUME o \in aborted
        PROVE  Has(e, Issue(StopOf(o)))
    <3>1. PICK i \in 1..Len(order) : order[i] = o
      BY <1>4, <2>4
    <3>2. i \in 1..Len(e) /\ e[i] = Issue(StopOf(o))
      BY <1>5, <2>1, <3>1
    <3> QED
      BY <3>2 DEF Has
  <2> QED
    BY <2>3, <2>4
<1>7. bus' = r \o e
  BY <1>3
<1> HIDE DEF e, r
<1>8. ASSUME NEW o \in Orchs
      PROVE  HandedOn(o, mission'[o], bus', inbox[DroneOf[o]], o \in owners, lost)
  <2> DEFINE y == inbox[DroneOf[o]]
             w == o \in owners
             m == mission[o]
             n == mission'[o]
  <2>1. /\ HandedOn(o, m, bus, y, w, lost)
        /\ lost \in BOOLEAN /\ w \in BOOLEAN /\ y \in Seq(OwnCall)
    BY InboxOf DEF HandInv, StartsFollowed, MissionsOK
  <2>2. n = m \/ (n = "ended" /\ Has(e, Issue(StopOf(o))))
    BY <1>2, <1>6
  <2>3. ~Has(e, Issue(StartOf(o)))
    BY <1>6
  <2> HIDE DEF y, w, m, n, aborted
  <2>4. HandedOn(o, m, r, y, w, lost)
    BY <1>1, <2>1, TakenFromBus DEF r
  <2>5. HandedOn(o, n, r \o e, y, w, lost)
    BY <1>1, <1>5, <2>1, <2>2, <2>3, <2>4, AddedToBus DEF r
  <2> QED
    BY <1>7, <2>5 DEF y, w, n
<1>9. StartsFollowed'
  BY <1>2, <1>8 DEF StartsFollowed
<1>10. MissionsOK'
  BY <1>2 DEF HandInv, MissionsOK
<1>11. QueuesOK'
  BY <1>1, <1>2, <1>5, <1>7 DEF HandInv, QueuesOK, r
<1> QED
  BY <1>9, <1>10, <1>11 DEF HandInv

LEMMA LoopHand ==
  ASSUME HandInv, WaiterInv, IsFiniteSet(Orchs), LoopStep
  PROVE  HandInv'
<1>1. ASSUME NEW x \in Call, CallUnconnected(x) \/ CallSends(x) \/ CallSendFails(x)
      PROVE  HandInv'
  BY <1>1, CallStep
<1>2. ASSUME NEW d \in Drones, ReceiveAck(d) PROVE HandInv'
  <2> DEFINE calls == suspended \cap {waiter[Head(outbox[d]).action]}
  <2>1. calls \in SUBSET suspended
    OBVIOUS
  <2>2. IsFiniteSet(calls) /\ calls \subseteq Call
    BY <2>1, SuspendedFinite, FS_Subset
  <2>3. /\ \/ FailCalls(calls, bus)
           \/ mission' = AfterStart(calls) /\ answer' = Answer(calls, "completed") /\ bus' = bus
        /\ UNCHANGED <<inbox, link, historyVars>>
    BY <1>2 DEF ReceiveAck
  <2> HIDE DEF calls
  <2> QED
    BY <2>2, <2>3, ReturnStep
<1>3. ASSUME NEW d \in Drones, ReceiveFileBegin(d) PROVE HandInv'
  BY <1>3 DEF ReceiveFileBegin, HandInv, QueuesOK, MissionsOK, StartsFollowed, historyVars
<1>4. ASSUME NEW d \in Drones, ReceiveFileData(d) PROVE HandInv'
  <2>1. EndHandler(d) /\ lost' = (lost \/ StopsIn(inbox[d])) /\ UNCHANGED <<owners, unmatched>>
    BY <1>4 DEF ReceiveFileData
  <2>2. lost' \in BOOLEAN
    BY <2>1
  <2> QED
    BY <2>1, <2>2, EndStep
<1>5. ASSUME NEW d \in Drones, NoticeLoss(d) PROVE HandInv'
  <2>1. EndHandler(d) /\ UNCHANGED <<owners, unmatched, lost>> /\ inbox[d] = <<>>
    BY <1>5 DEF NoticeLoss, HandInv, QueuesOK, historyVars
  <2>2. ~StopsIn(inbox[d]) /\ lost' \in BOOLEAN
    BY <2>1 DEF StopsIn, HandInv, MissionsOK
  <2> QED
    BY <2>1, <2>2, EndStep
<1> QED
  BY <1>1, <1>2, <1>3, <1>4, <1>5, ErrorStep DEF LoopStep

-----------------------------------------------------------------------------
(* The other steps *)

LEMMA DroneHand ==
  ASSUME HandInv, NEW d \in Drones, DroneStep(d)
  PROVE  HandInv'
<1>1. /\ inbox \in [Drones -> Seq(OwnCall)] /\ inbox[d] # <<>>
      /\ \E s : Reply(d, s)
      /\ UNCHANGED <<mission, bus, answer, lost>>
  BY DEF HandInv, QueuesOK, DroneStep, DroneStarts, DroneStops, DroneLists, DronePulls,
     Command, serverVars, historyVars
<1>2. inbox' = [inbox EXCEPT ![d] = Tail(inbox[d])] /\ UNCHANGED link
  BY <1>1 DEF Reply
<1>3. Head(inbox[d]) \in OwnCall /\ Head(inbox[d]).drone = d
  <2>1. 1 \in 1..Len(inbox[d]) /\ Head(inbox[d]) = inbox[d][1] /\ Head(inbox[d]) \in OwnCall
    BY <1>1
  <2> QED
    BY <2>1 DEF HandInv, QueuesOK
<1>4. QueuesOK'
  <2>1. inbox' \in [Drones -> Seq(OwnCall)]
    BY <1>1, <1>2
  <2>2. ASSUME NEW c \in Drones, NEW i \in 1..Len(inbox'[c])
        PROVE  inbox'[c][i].drone = c
    <3>1. CASE c = d
      <4>1. inbox'[c] = Tail(inbox[d]) /\ inbox[d] \in Seq(OwnCall)
        BY <1>1, <1>2, <3>1
      <4>2. i + 1 \in 1..Len(inbox[d]) /\ inbox'[c][i] = inbox[d][i + 1]
        BY <1>1, <2>2, <4>1
      <4> QED
        BY <3>1, <4>2 DEF HandInv, QueuesOK
    <3>2. CASE c # d
      BY <1>2, <2>2, <3>2 DEF HandInv, QueuesOK
    <3> QED
      BY <3>1, <3>2
  <2>3. \A c \in Drones : link[c] # "up" => inbox'[c] = <<>>
    BY <1>1, <1>2 DEF HandInv, QueuesOK
  <2> QED
    BY <1>1, <1>2, <2>1, <2>2, <2>3 DEF HandInv, QueuesOK
<1>5. ASSUME NEW o \in Orchs
      PROVE  /\ o \in owners' => o \in owners \/ Head(inbox[d]) = StartOf(o)
             /\ Head(inbox[d]) = StopOf(o) => o \notin owners'
  <2>1. /\ Head(inbox[d]).action = "START_RECORDING" /\ Head(inbox[d]).by = o
           => Head(inbox[d]) = StartOf(o)
        /\ StopOf(o).action = "STOP_RECORDING" /\ StopOf(o).by = o
    BY <1>3 DEF OwnCall, StartOf, StopOf, BrowserCall
  <2>2. CASE DroneStarts(d)
    BY <2>1, <2>2 DEF DroneStarts, Command
  <2>3. CASE DroneStops(d)
    BY <2>1, <2>3 DEF DroneStops, Command
  <2>4. CASE DroneLists(d) \/ DronePulls(d)
    BY <2>1, <2>4 DEF DroneLists, DronePulls, Command, historyVars
  <2> QED
    BY <2>2, <2>3, <2>4 DEF DroneStep
<1>6. StartsFollowed'
  BY <1>1, <1>2, <1>5, FollowedByDrone
<1>7. MissionsOK'
  <2>1. owners' \subseteq Orchs
    <3>1. CASE DroneStarts(d)
      <4>1. Head(inbox[d]).by \in Orchs
        BY <1>3, <3>1 DEF DroneStarts, Command, OwnCall, StartOf, StopOf, BrowserCall
      <4> QED
        BY <3>1, <4>1 DEF DroneStarts, HandInv, MissionsOK
    <3>2. CASE DroneStops(d) \/ DroneLists(d) \/ DronePulls(d)
      BY <3>2 DEF DroneStops, DroneLists, DronePulls, HandInv, MissionsOK, historyVars
    <3> QED
      BY <3>1, <3>2 DEF DroneStep
  <2>2. unmatched' \in BOOLEAN
    BY DEF DroneStep, DroneStarts, DroneStops, DroneLists, DronePulls, HandInv, MissionsOK,
       historyVars
  <2> QED
    BY <1>1, <2>1, <2>2 DEF HandInv, MissionsOK
<1> QED
  BY <1>4, <1>6, <1>7 DEF HandInv

LEMMA LinkHand ==
  ASSUME HandInv, NEW d \in Drones, BreakConnection(d) \/ Shutdown(d) \/ Reconnect(d)
  PROVE  HandInv'
<1>1. CASE Reconnect(d)
  <2>1. UNCHANGED <<mission, bus, answer, inbox, owners, unmatched, lost>>
        /\ link' = [link EXCEPT ![d] = "up"]
    BY <1>1 DEF Reconnect, serverVars, historyVars
  <2>2. QueuesOK'
    BY <2>1 DEF HandInv, QueuesOK
  <2> QED
    BY <2>1, <2>2 DEF HandInv, MissionsOK, StartsFollowed
<1>2. CASE BreakConnection(d) \/ Shutdown(d)
  <2>1. Lose(d) /\ owners' \subseteq owners
    BY <1>2 DEF BreakConnection, Shutdown
  <2>2. /\ link' = [link EXCEPT ![d] = "broken"] /\ inbox' = [inbox EXCEPT ![d] = <<>>]
        /\ lost' = (lost \/ StopsIn(inbox[d]))
        /\ UNCHANGED <<mission, bus, answer, unmatched>>
    BY <2>1 DEF Lose, serverVars
  <2>3. QueuesOK'
    <3>1. inbox' \in [Drones -> Seq(OwnCall)] /\ link' \in [Drones -> {"up", "broken", "down"}]
      BY <2>2 DEF HandInv, QueuesOK
    <3>2. \A c \in Drones : inbox'[c] = <<>> \/ (inbox'[c] = inbox[c] /\ link'[c] = link[c])
      BY <2>2 DEF HandInv, QueuesOK
    <3> QED
      BY <2>2, <3>1, <3>2 DEF HandInv, QueuesOK
  <2>4. MissionsOK'
    BY <2>1, <2>2 DEF HandInv, MissionsOK
  <2>5. <<>> \in Seq(BusError) /\ bus' = bus \o <<>>
    BY <2>2 DEF HandInv, QueuesOK
  <2>6. MissionsLive /\ lost' \in BOOLEAN /\ (lost \/ StopsIn(inbox[d]) => lost')
    BY <2>2 DEF MissionsLive
  <2>7. StartsFollowed'
    BY <2>1, <2>2, <2>5, <2>6, FollowedAfterLoss
  <2> QED
    BY <2>3, <2>4, <2>7 DEF HandInv
<1> QED
  BY <1>1, <1>2

\* A mission or a browser asks for something.
LEMMA AskHand ==
  ASSUME HandInv, NEW z \in OwnCall, bus = <<>>, bus' = Append(bus, Issue(z)),
         UNCHANGED <<inbox, link, historyVars>>,
         answer' \in [BrowserCall -> {"none", "asked", "completed", "failed"}],
         \/ z \in BrowserCall /\ mission' = mission
         \/ \E o \in Orchs : \/ /\ z = StartOf(o) /\ mission[o] = "new"
                                /\ mission' = [mission EXCEPT ![o] = "starting"]
                             \/ z = StopOf(o) /\ mission' = [mission EXCEPT ![o] = "ended"]
  PROVE  HandInv'
<1> DEFINE e == <<Issue(z)>>
<1>1. e \in Seq(BusItem) /\ bus' = e /\ bus \o e = e /\ Len(e) = 1 /\ e[1] = Issue(z)
  <2>1. Issue(z) \in BusItem
    BY DEF BusItem, Issue
  <2> QED
    BY <2>1
<1> HIDE DEF e
<1>2. \A a : Has(e, Issue(a)) <=> a = z
  <2>1. \A a : Issue(z) = Issue(a) <=> a = z
    BY DEF Issue
  <2> QED
    BY <1>1, <2>1 DEF Has
<1>3. \A a : Once(e, a)
  BY <1>1 DEF Once
<1>4. ASSUME NEW o \in Orchs
      PROVE  HandedOn(o, mission'[o], bus', inbox[DroneOf[o]], o \in owners, lost)
  <2>1. CASE z = StartOf(o)
    <3>1. mission[o] = "new" /\ mission'[o] = "starting"
      BY <2>1, CallsDiffer DEF HandInv, MissionsOK
    <3>2. /\ o \notin owners /\ ~Has(inbox[DroneOf[o]], StartOf(o))
          /\ Once(inbox[DroneOf[o]], StartOf(o))
      BY <3>1 DEF HandInv, StartsFollowed, HandedOn
    <3> QED
      BY <1>1, <1>3, <3>1, <3>2 DEF HandedOn, Alive
  <2>2. CASE z = StopOf(o)
    <3>1. mission'[o] = "ended"
      BY <2>2, CallsDiffer DEF HandInv, MissionsOK
    <3>2. ~Has(e, Issue(StartOf(o))) /\ Has(e, Issue(StopOf(o)))
      BY <1>2, <2>2, CallsDiffer
    <3> QED
      BY <1>1, <3>1, <3>2, FollowedAfterItems
  <2>3. CASE z # StartOf(o) /\ z # StopOf(o)
    <3>1. mission'[o] = mission[o]
      BY <2>3 DEF HandInv, MissionsOK
    <3>2. ~Has(e, Issue(StartOf(o)))
      BY <1>2, <2>3
    <3> QED
      BY <1>1, <3>1, <3>2, FollowedAfterItems
  <2> QED
    BY <2>1, <2>2, <2>3
<1>5. StartsFollowed'
  BY <1>4 DEF StartsFollowed, historyVars
<1>6. MissionsOK'
  BY DEF HandInv, MissionsOK, historyVars
<1>7. QueuesOK'
  BY <1>1 DEF HandInv, QueuesOK
<1> QED
  BY <1>5, <1>6, <1>7 DEF HandInv

LEMMA HandStep ==
  ASSUME HandInv, WaiterInv, IsFiniteSet(Orchs), [RecordingsNext]_recordingsVars
  PROVE  HandInv'
<1>1. ASSUME NEW x \in Call, TimeoutStep(x) PROVE HandInv'
  <2>1. FailCalls({x}, bus) /\ UNCHANGED <<inbox, link, historyVars>>
    BY <1>1 DEF TimeoutStep, Timeout, wireVars
  <2>2. {x} \subseteq Call /\ IsFiniteSet({x})
    BY FS_Singleton
  <2> QED
    BY <2>1, <2>2, ReturnStep
<1>2. ASSUME NEW o \in Orchs, RequestStart(o) PROVE HandInv'
  <2>1. StartOf(o) \in OwnCall
    BY CallsDiffer
  <2> QED
    BY <1>2, <2>1, AskHand DEF RequestStart, wireVars, HandInv, MissionsOK
<1>3. ASSUME NEW o \in Orchs, EndMission(o) PROVE HandInv'
  <2>1. StopOf(o) \in OwnCall
    BY CallsDiffer
  <2> QED
    BY <1>3, <2>1, AskHand DEF EndMission, wireVars, HandInv, MissionsOK
<1>4. ASSUME NEW x \in BrowserCall, Browse(x) PROVE HandInv'
  <2>1. x \in OwnCall
    BY DEF OwnCall
  <2>2. answer' \in [BrowserCall -> {"none", "asked", "completed", "failed"}]
    BY <1>4 DEF Browse, HandInv, MissionsOK
  <2> QED
    BY <1>4, <2>1, <2>2, AskHand DEF Browse, wireVars
<1>5. CASE UNCHANGED recordingsVars
  BY <1>5 DEF recordingsVars, serverVars, wireVars, historyVars, HandInv, QueuesOK, MissionsOK,
     StartsFollowed
<1> QED
  BY <1>1, <1>2, <1>3, <1>4, <1>5, LoopHand, DroneHand, LinkHand DEF RecordingsNext

LEMMA HandInit == RecordingsInit => HandInv
<1> SUFFICES ASSUME RecordingsInit PROVE HandInv
  OBVIOUS
<1>1. \A x, y : ~Has(<<>>, x) /\ Once(<<>>, x) /\ Behind(<<>>, x, y)
  BY DEF Has, Once, Behind
<1>2. StartsFollowed
  BY <1>1, RecordingsAssumption DEF RecordingsInit, StartsFollowed, HandedOn
<1>3. QueuesOK
  <2>1. \A d \in Drones : inbox[d] = <<>> /\ link[d] = "up"
    BY DEF RecordingsInit
  <2>2. bus \in Seq(BusItem) /\ inbox \in [Drones -> Seq(OwnCall)]
    BY DEF RecordingsInit
  <2>3. link \in [Drones -> {"up", "broken", "down"}]
    BY DEF RecordingsInit
  <2> QED
    BY <2>1, <2>2, <2>3 DEF QueuesOK
<1>4. MissionsOK
  BY DEF RecordingsInit, MissionsOK
<1> QED
  BY <1>2, <1>3, <1>4 DEF HandInv

-----------------------------------------------------------------------------
(* The count of the recording and its owners *)

OwnersIn(w, d) == {o \in w : DroneOf[o] = d}

CountInv ==
  \A d \in Drones :
    /\ ref_count[d] <= Cardinality(OwnersIn(owners, d))
    /\ ~unmatched => ref_count[d] = Cardinality(OwnersIn(owners, d))

LEMMA OwnersFinite ==
  ASSUME IsFiniteSet(Orchs), MissionsOK, NEW d
  PROVE  /\ IsFiniteSet(OwnersIn(owners, d))
         /\ Cardinality(OwnersIn(owners, d)) \in Nat
         /\ Cardinality(OwnersIn(owners, d)) <= Cardinality(Orchs)
<1>1. OwnersIn(owners, d) \in SUBSET Orchs
  BY DEF OwnersIn, MissionsOK
<1> QED
  BY <1>1, FS_Subset, FS_CardinalityType

\* The count of drone d becomes n, and the owners of the other drones stay.
LEMMA CountSet ==
  ASSUME CameraInv, CountInv, NEW d \in Drones, NEW n \in Nat,
         ref_count' = [ref_count EXCEPT ![d] = n], unmatched \in BOOLEAN, unmatched => unmatched',
         n <= Cardinality(OwnersIn(owners', d)),
         ~unmatched' => n = Cardinality(OwnersIn(owners', d)),
         \A c \in Drones \ {d} : OwnersIn(owners', c) = OwnersIn(owners, c)
  PROVE  CountInv'
<1>1. ref_count \in [Drones -> Nat]
  BY DEF CameraInv, CameraTypeOK
<1>2. ASSUME NEW c \in Drones
      PROVE  /\ ref_count'[c] <= Cardinality(OwnersIn(owners', c))
             /\ ~unmatched' => ref_count'[c] = Cardinality(OwnersIn(owners', c))
  <2>1. CASE c = d
    BY <1>1, <2>1
  <2>2. CASE c # d
    BY <1>1, <2>2 DEF CountInv
  <2> QED
    BY <2>1, <2>2
<1> QED
  BY <1>2 DEF CountInv

LEMMA CountDrone ==
  ASSUME CameraInv, CountInv, HandInv, IsFiniteSet(Orchs), NEW d \in Drones,
         DroneStarts(d) \/ DroneStops(d)
  PROVE  CountInv'
<1> DEFINE x == Head(inbox[d])
           k == Cardinality(OwnersIn(owners, d))
           n == ref_count[d]
<1>1. /\ inbox[d] \in Seq(OwnCall) /\ inbox[d] # <<>>
      /\ x \in OwnCall /\ x.drone = d /\ x.action \in {"START_RECORDING", "STOP_RECORDING"}
  <2>1. inbox[d] \in Seq(OwnCall) /\ inbox[d] # <<>>
    BY DEF HandInv, QueuesOK, DroneStarts, DroneStops, Command
  <2>2. 1 \in 1..Len(inbox[d]) /\ x = inbox[d][1] /\ x \in OwnCall
    BY <2>1
  <2>3. x.drone = d
    BY <2>2 DEF HandInv, QueuesOK
  <2> QED
    BY <2>1, <2>2, <2>3 DEF DroneStarts, DroneStops, Command
<1>2. PICK o \in Orchs : x \in {StartOf(o), StopOf(o)}
  BY <1>1 DEF OwnCall, BrowserCall
<1>3. DroneOf[o] = d /\ x.by = o
  BY <1>1, <1>2 DEF StartOf, StopOf
<1>4. /\ n \in Nat /\ k \in Nat /\ n <= k /\ (~unmatched => n = k)
      /\ IsFiniteSet(OwnersIn(owners, d)) /\ unmatched \in BOOLEAN
      /\ ref_count = [ref_count EXCEPT ![d] = n]
  BY OwnersFinite DEF CountInv, HandInv, MissionsOK, CameraInv, CameraTypeOK
<1>5. /\ camera[d] = recording[d] /\ (recording[d] <=> n > 0)
      /\ camera \in [Drones -> BOOLEAN] /\ recording \in [Drones -> BOOLEAN]
  BY DEF CameraInv, RecordingsAreFinalized, CameraTypeOK
<1>6. CASE DroneStarts(d)
  <2>1. x = StartOf(o)
    BY <1>2, <1>6 DEF DroneStarts, Command, StartOf, StopOf
  <2>2. o \notin owners
    <3>1. 1 \in 1..Len(inbox[d]) /\ inbox[d][1] = StartOf(o)
      BY <1>1, <2>1
    <3>2. Has(inbox[DroneOf[o]], StartOf(o))
      BY <1>3, <3>1 DEF Has
    <3> QED
      BY <3>2 DEF HandInv, StartsFollowed, HandedOn
  <2>3. unmatched' = unmatched
    BY <1>6 DEF DroneStarts
  <2>4. CASE (ShareRecording(d) \/ OpenRecording(d)) /\ owners' = owners \cup {x.by}
    <3>1. owners' = owners \cup {o}
      BY <1>3, <2>4
    <3>2. OwnersIn(owners', d) = OwnersIn(owners, d) \cup {o} /\ o \notin OwnersIn(owners, d)
      BY <1>3, <2>2, <3>1 DEF OwnersIn
    <3>3. Cardinality(OwnersIn(owners', d)) = k + 1
      BY <1>4, <3>2, FS_AddElement
    <3>4. ref_count' = [ref_count EXCEPT ![d] = n + 1]
      <4>1. CASE ShareRecording(d)
        BY <4>1 DEF ShareRecording
      <4>2. CASE OpenRecording(d)
        <5>1. n = 0
          BY <1>4, <1>5, <4>2 DEF OpenRecording
        <5> HIDE DEF n
        <5>2. n + 1 = 1
          BY <5>1
        <5> QED
          BY <4>2, <5>2 DEF OpenRecording
      <4> QED
        BY <2>4, <4>1, <4>2
    <3>5. \A c \in Drones \ {d} : OwnersIn(owners', c) = OwnersIn(owners, c)
      BY <1>3, <3>1 DEF OwnersIn
    <3>6. n + 1 \in Nat /\ n + 1 <= k + 1 /\ (~unmatched' => n + 1 = k + 1)
      BY <1>4, <2>3
    <3> HIDE DEF n, k
    <3> QED
      BY <1>4, <2>3, <3>3, <3>4, <3>5, <3>6, CountSet
  <2>5. CASE OpenRecordingFails(d) /\ owners' = owners
    BY <2>3, <2>5 DEF OpenRecordingFails, CountInv
  <2> QED
    BY <1>6, <2>4, <2>5 DEF DroneStarts
<1>7. CASE DroneStops(d)
  <2>1. /\ owners' = owners \ {o} /\ unmatched' = (unmatched \/ o \notin owners)
        /\ StopRecording(d)
    BY <1>3, <1>7 DEF DroneStops
  <2> DEFINE i == IF n = 0 THEN 0 ELSE n - 1
             k2 == Cardinality(OwnersIn(owners', d))
  <2>2. i \in Nat /\ ref_count' = [ref_count EXCEPT ![d] = i]
    <3>0. i \in Nat
      BY <1>4
    <3>1. CASE StopIdle(d)
      <4>1. n = 0 /\ ref_count' = ref_count
        BY <1>4, <1>5, <3>1 DEF StopIdle, cameraVars
      <4> QED
        BY <1>4, <3>0, <4>1
    <3>2. CASE StopShared(d)
      <4>1. ref_count' = [ref_count EXCEPT ![d] = n - 1] /\ n > 1
        BY <3>2 DEF StopShared
      <4>2. i = n - 1
        BY <1>4, <4>1
      <4> QED
        BY <3>0, <4>1, <4>2
    <3>3. CASE StopLast(d)
      <4>1. ref_count' = [ref_count EXCEPT ![d] = 0] /\ n = 1
        BY <3>3 DEF StopLast
      <4>2. i = 0
        BY <4>1
      <4> QED
        BY <3>0, <4>1, <4>2
    <3> QED
      BY <2>1, <3>1, <3>2, <3>3 DEF StopRecording
  <2>3. /\ OwnersIn(owners', d) = OwnersIn(owners, d) \ {o}
        /\ o \in OwnersIn(owners, d) <=> o \in owners
        /\ \A c \in Drones \ {d} : OwnersIn(owners', c) = OwnersIn(owners, c)
    BY <1>3, <2>1 DEF OwnersIn
  <2>4. k2 = IF o \in owners THEN k - 1 ELSE k
    <3> DEFINE S == OwnersIn(owners, d)
    <3>1. IsFiniteSet(S) /\ k2 = Cardinality(S \ {o}) /\ (o \in S <=> o \in owners)
      BY <1>4, <2>3
    <3> HIDE DEF S, k2
    <3>2. Cardinality(S \ {o}) = IF o \in S THEN Cardinality(S) - 1 ELSE Cardinality(S)
      BY <3>1, FS_RemoveElement
    <3> QED
      BY <3>1, <3>2 DEF S
  <2>5. o \in owners => k > 0
    BY <1>4, <2>3, FS_EmptySet
  <2>6. i <= k2 /\ (~unmatched' => i = k2)
    <3> HIDE DEF n, k, k2
    <3>1. CASE o \in owners
      BY <1>4, <2>1, <2>4, <2>5, <3>1
    <3>2. CASE o \notin owners
      <4>1. unmatched' = TRUE
        BY <2>1, <3>2
      <4>2. i <= k2
        BY <1>4, <2>4, <3>2
      <4> QED
        BY <4>1, <4>2
    <3> QED
      BY <3>1, <3>2
  <2>7. unmatched => unmatched'
    BY <2>1
  <2> HIDE DEF i
  <2> QED
    BY <1>4, <2>2, <2>3, <2>6, <2>7, CountSet
<1> QED
  BY <1>6, <1>7

LEMMA CountShutdown ==
  ASSUME CameraInv, CountInv, HandInv, IsFiniteSet(Orchs),
         Cardinality(Orchs) <= MaxDrainAttempts, NEW d \in Drones, Shutdown(d)
  PROVE  CountInv'
<1> DEFINE k == Cardinality(OwnersIn(owners, d))
           n == ref_count[d]
<1>1. /\ n \in Nat /\ k \in Nat /\ n <= k /\ k <= MaxDrainAttempts
      /\ MaxDrainAttempts \in Nat /\ unmatched \in BOOLEAN
      /\ ref_count \in [Drones -> Nat] /\ (recording[d] <=> n > 0)
  <2>1. Cardinality(Orchs) \in Nat
    BY FS_CardinalityType
  <2>2. k \in Nat /\ k <= Cardinality(Orchs)
    BY OwnersFinite DEF HandInv
  <2>3. n \in Nat /\ n <= k
    BY DEF CountInv, CameraInv, CameraTypeOK
  <2>4. k <= MaxDrainAttempts
    BY <2>1, <2>2, CameraAssumption
  <2> QED
    BY <2>2, <2>3, <2>4, CameraAssumption
       DEF HandInv, MissionsOK, CameraInv, CameraTypeOK, RecordingsAreFinalized
<1>2. ~(n > MaxDrainAttempts)
  BY <1>1
<1>3. ref_count' = [ref_count EXCEPT ![d] = 0]
  <2>1. CASE recording[d]
    BY <1>2, <2>1 DEF Shutdown, Drain
  <2>2. CASE ~recording[d]
    <3>1. n = 0 /\ ref_count' = ref_count
      BY <1>1, <2>2 DEF Shutdown, Drain, cameraVars
    <3> QED
      BY <1>1, <3>1
  <2> QED
    BY <2>1, <2>2
<1>4. /\ OwnersIn(owners', d) = {}
      /\ \A c \in Drones \ {d} : OwnersIn(owners', c) = OwnersIn(owners, c)
  BY DEF Shutdown, OwnersIn
<1>5. Cardinality(OwnersIn(owners', d)) = 0
  BY <1>4, FS_EmptySet
<1>6. unmatched' = unmatched
  BY DEF Shutdown, Lose
<1>7. 0 \in Nat /\ 0 <= 0
  OBVIOUS
<1> HIDE DEF n, k
<1> QED
  BY <1>1, <1>3, <1>4, <1>5, <1>6, <1>7, CountSet

LEMMA CountStep ==
  ASSUME CameraInv, CountInv, HandInv, IsFiniteSet(Orchs),
         Cardinality(Orchs) <= MaxDrainAttempts, [RecordingsNext]_recordingsVars
  PROVE  CountInv'
<1>1. CASE UNCHANGED <<ref_count, owners, unmatched>>
  BY <1>1 DEF CountInv
<1>2. CASE LoopStep
  BY <1>1, <1>2 DEF LoopStep, CallUnconnected, CallSends, CallSendFails, ReceiveAck,
     ReceiveFileBegin, ReceiveFileData, NoticeLoss, HandleDroneError, historyVars, cameraVars
<1>3. ASSUME NEW x \in Call, TimeoutStep(x) PROVE CountInv'
  BY <1>1, <1>3 DEF TimeoutStep, Timeout, historyVars, cameraVars
<1>4. ASSUME NEW d \in Drones, DroneStep(d) PROVE CountInv'
  <2>1. CASE DroneLists(d) \/ DronePulls(d)
    BY <1>1, <2>1 DEF DroneLists, DronePulls, historyVars, cameraVars
  <2> QED
    BY <1>4, <2>1, CountDrone DEF DroneStep
<1>5. ASSUME NEW d \in Drones, BreakConnection(d) \/ Reconnect(d) PROVE CountInv'
  BY <1>1, <1>5 DEF BreakConnection, Lose, Reconnect, historyVars, cameraVars
<1>6. ASSUME NEW o \in Orchs, RequestStart(o) \/ EndMission(o), UNCHANGED cameraVars
      PROVE  CountInv'
  BY <1>1, <1>6 DEF RequestStart, EndMission, historyVars, cameraVars
<1>7. ASSUME NEW x \in BrowserCall, Browse(x), UNCHANGED cameraVars PROVE CountInv'
  BY <1>1, <1>7 DEF Browse, historyVars, cameraVars
<1>8. CASE UNCHANGED recordingsVars
  BY <1>1, <1>8 DEF recordingsVars, historyVars, cameraVars
<1> QED
  BY <1>2, <1>3, <1>4, <1>5, <1>6, <1>7, <1>8, CountShutdown DEF RecordingsNext

-----------------------------------------------------------------------------
(* Theorems *)

LEMMA RecordingsInvariant ==
  ASSUME IsFiniteSet(Orchs)
  PROVE  RecordingsSpec => [](CameraInv /\ WaiterInv /\ OutboxOK /\ HandInv)
<1>1. RecordingsInit => WaiterInv /\ OutboxOK /\ HandInv
  BY HandInit DEF RecordingsInit, WaiterInv, Keyed, WaitersAreRegistered, OutboxOK
<1>2. CameraInv /\ WaiterInv /\ OutboxOK /\ HandInv /\ [RecordingsNext]_recordingsVars
      => WaiterInv' /\ OutboxOK' /\ HandInv'
  BY WaiterStep, OutboxStep, HandStep DEF CameraInv
<1> QED
  BY <1>1, <1>2, CameraInvariant, PTL DEF RecordingsSpec

(* Whatever missions start, stop, abort and repeat, whatever of the camera   *)
(* fails and however connections end: the camera of a drone is held exactly  *)
(* while its count is positive, and one file is being written exactly then.  *)
THEOREM RecordingsFinalized == RecordingsSpec => []RecordingsAreFinalized
<1>1. CameraInv => RecordingsAreFinalized
  BY DEF CameraInv
<1> QED
  BY <1>1, CameraInvariant, PTL

(* However calls, acknowledgements, timeouts and ends of connections of any  *)
(* number of drones interleave, the calls that are suspended are those whose *)
(* futures are registered.                                                   *)
THEOREM WaitersRegistered == RecordingsSpec => []WaitersAreRegistered
<1>1. RecordingsInit => WaiterInv /\ OutboxOK
  BY DEF RecordingsInit, WaiterInv, Keyed, WaitersAreRegistered, OutboxOK
<1>2. CameraInv /\ WaiterInv /\ OutboxOK /\ [RecordingsNext]_recordingsVars
      => WaiterInv' /\ OutboxOK'
  BY WaiterStep, OutboxStep DEF CameraInv
<1>3. WaiterInv => WaitersAreRegistered
  BY DEF WaiterInv
<1> QED
  BY <1>1, <1>2, <1>3, CameraInvariant, PTL DEF RecordingsSpec

(* The states of the missions, the calls that wait, the connections and the  *)
(* answers to the browsers have their types, with finitely many missions.    *)
THEOREM RecordingsTyped ==
  ASSUME IsFiniteSet(Orchs)
  PROVE  RecordingsSpec => []RecordingsTypeOK
<1>1. CameraInv /\ WaiterInv /\ HandInv => RecordingsTypeOK
  BY SuspendedFinite
     DEF CameraInv, WaiterInv, Keyed, HandInv, MissionsOK, QueuesOK, RecordingsTypeOK
<1> QED
  BY <1>1, RecordingsInvariant, PTL

LEMMA CountInvariant ==
  ASSUME IsFiniteSet(Orchs), Cardinality(Orchs) <= MaxDrainAttempts
  PROVE  RecordingsSpec => []CountInv
<1>1. RecordingsInit => CountInv
  <2> SUFFICES ASSUME RecordingsInit, NEW d \in Drones
               PROVE  ref_count[d] = 0 /\ Cardinality(OwnersIn(owners, d)) = 0
    BY DEF CountInv
  <2>1. ref_count[d] = 0 /\ OwnersIn(owners, d) = {}
    BY DEF RecordingsInit, CameraInit, OwnersIn
  <2> QED
    BY <2>1, FS_EmptySet
<1>2. CameraInv /\ HandInv /\ CountInv /\ [RecordingsNext]_recordingsVars => CountInv'
  BY CountStep
<1> QED
  BY <1>1, <1>2, RecordingsInvariant, PTL DEF RecordingsSpec

(* As long as a STOP undoes a START the drone has executed, the count of a   *)
(* recording is the number of its owners, whichever commands are late,       *)
(* displaced, lost or cut off by a restart, if the clean-up at exit is       *)
(* allowed as many attempts as there are missions.                           *)
THEOREM OwnersCounted ==
  ASSUME IsFiniteSet(Orchs), Cardinality(Orchs) <= MaxDrainAttempts
  PROVE  RecordingsSpec => []CountIsOwners
<1>1. CountInv => CountIsOwners
  BY DEF CountInv, CountIsOwners, OwnersIn
<1> QED
  BY <1>1, CountInvariant, PTL

(* A recording does not outlive its missions unless a STOP was lost: each    *)
(* STOP that is due is behind its START in the bus or in the inbox.          *)
THEOREM NothingKeepsRecording ==
  ASSUME IsFiniteSet(Orchs), Cardinality(Orchs) <= MaxDrainAttempts
  PROVE  RecordingsSpec => []NoRecordingLeftBehind
<1>1. CameraInv /\ HandInv /\ CountInv => NoRecordingLeftBehind
  <2> SUFFICES ASSUME CameraInv, HandInv, CountInv, NEW d \in Drones,
                      ~lost, bus = <<>>, inbox[d] = <<>>,
                      \A o \in Orchs : DroneOf[o] = d => mission[o] \in {"new", "ended"}
               PROVE  ~recording[d]
    BY DEF NoRecordingLeftBehind
  <2>1. ASSUME NEW o \in OwnersIn(owners, d) PROVE FALSE
    <3>1. o \in Orchs /\ o \in owners /\ DroneOf[o] = d /\ mission[o] \in {"new", "ended"}
      BY <2>1 DEF OwnersIn, HandInv, MissionsOK
    <3>2. HandedOn(o, mission[o], <<>>, <<>>, o \in owners, lost)
      BY <3>1 DEF HandInv, StartsFollowed
    <3>3. \A x : ~Has(<<>>, x)
      BY DEF Has
    <3> QED
      BY <3>1, <3>2, <3>3 DEF HandedOn, Alive
  <2>2. OwnersIn(owners, d) = {}
    BY <2>1
  <2>3. Cardinality(OwnersIn(owners, d)) = 0
    BY <2>2, FS_EmptySet
  <2>4. ref_count[d] \in Nat /\ ref_count[d] <= 0
    BY <2>3 DEF CountInv, CameraInv, CameraTypeOK
  <2> QED
    BY <2>4 DEF CameraInv, RecordingsAreFinalized
<1> QED
  BY <1>1, RecordingsInvariant, CountInvariant, PTL
=============================================================================
