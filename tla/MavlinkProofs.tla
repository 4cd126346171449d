------------------------------ MODULE MavlinkProofs ------------------------------
(***************************************************************************)
(* The safety properties of MavlinkLink for any number of move threads,    *)
(* any number of setpoints, and any bounds.                                *)
(***************************************************************************)
EXTENDS MavlinkLink, FiniteSetTheorems, TLAPS

\* The dispatcher never flies.
OnGround ==
  /\ pc[Dispatcher] \in Connecting \cup {"idle"}
  /\ task[Dispatcher] # "move"
  /\ pc[Dispatcher] # "idle" => task[Dispatcher] # "none"

\* A mover has a result when it is through, and not before.
Booked(t) ==
  /\ task[t] \in {"none", "move"}
  /\ pc[t] \in Connecting => task[t] = "move" /\ result[t] = "none"
  /\ pc[t] \in Flying => result[t] = "none"
  /\ pc[t] \in {"guided?", "send"} => left[t] > 0
  /\ pc[t] = "log" => result[t] # "none"

\* What a mover has sent since the cache has not said GUIDED.
Checked(t) ==
  /\ heartbeat = "GUIDED" => strayed[t] = 0
  /\ method \in {2, 3} => strayed[t] <= 1
  /\ method \in {2, 3} /\ pc[t] = "send" => strayed[t] = 0

IInv ==
  /\ MavTypeOK
  /\ ClosedIsForgotten
  /\ OnGround
  /\ \A t \in Movers : Booked(t) /\ Checked(t)

-----------------------------------------------------------------------------
LEMMA InvInit == MavInit => IInv
<1> SUFFICES ASSUME MavInit PROVE IInv
  OBVIOUS
<1> USE DEF MavInit
<1>1. LinkTypeOK
  BY MavlinkAssumption DEF LinkTypeOK
<1>2. ThreadTypeOK
  BY MavlinkAssumption DEF ThreadTypeOK, Place
<1>3. ClosedIsForgotten
  BY DEF ClosedIsForgotten
<1>4. OnGround
  BY DEF OnGround, Thread
<1>5. ASSUME NEW t \in Movers PROVE Booked(t) /\ Checked(t)
  BY DEF Booked, Checked, Thread, Connecting, Flying
<1> QED
  BY <1>1, <1>2, <1>3, <1>4, <1>5 DEF IInv, MavTypeOK

\* The exception in a thread that connects.
LEMMA RaiseStep ==
  ASSUME IInv, NEW t \in Thread, pc[t] \in Connecting \ {"connected"}, Raise(t),
         LinkTypeOK', ClosedIsForgotten',
         UNCHANGED <<heartbeat, vehicleVars, strayed>>
  PROVE  IInv'
<1> USE DEF IInv, MavTypeOK, vehicleVars
<1>1. task[t] \in {"turn", "telemetry", "move"}
  BY DEF OnGround, Booked, ThreadTypeOK, Thread, Connecting
<1>2. ThreadTypeOK'
  BY <1>1 DEF Raise, ThreadTypeOK, Place, Connecting
<1>3. OnGround'
  BY <1>1 DEF Raise, OnGround, ThreadTypeOK, Thread, Connecting
<1>4. ASSUME NEW u \in Movers PROVE Booked(u)' /\ Checked(u)'
  BY <1>1 DEF Raise, Booked, Checked, ThreadTypeOK, Thread, Connecting, Flying
<1> QED
  BY <1>2, <1>3, <1>4

\* Thread t goes from one step of _ensure_connection to another.
LEMMA ConnectsStep ==
  ASSUME IInv, NEW t \in Thread, NEW from \in Connecting, NEW to \in Connecting,
         Goto(t, from, to), LinkTypeOK', ClosedIsForgotten',
         UNCHANGED <<task, left, result, vehicleVars, strayed>>,
         heartbeat' \in {"none", heartbeat}
  PROVE  IInv'
<1> USE DEF IInv, MavTypeOK, Goto, vehicleVars
<1>1. ThreadTypeOK'
  BY DEF ThreadTypeOK, Place
<1>2. OnGround'
  BY DEF OnGround, ThreadTypeOK, Connecting
<1>3. ASSUME NEW u \in Movers PROVE Booked(u)' /\ Checked(u)'
  BY DEF Booked, Checked, ThreadTypeOK, Thread, Connecting, Flying
<1> QED
  BY <1>1, <1>2, <1>3

\* The steps of _ensure_connection, and the heartbeat it waits for.
LEMMA ConnectionStep ==
  ASSUME IInv, NEW t \in Thread, EnsureConnection(t) \/ Heard(t), UNCHANGED strayed
  PROVE  IInv'
<1> USE DEF linkVars, vehicleVars
<1>0. LinkTypeOK /\ ClosedIsForgotten /\ pc \in [Thread -> Place]
  BY DEF IInv, MavTypeOK, ThreadTypeOK
<1>1. CASE Check(t)
  <2> USE <1>1 DEF Check
  <2> DEFINE to == IF _master = 0 THEN "present?" ELSE "alive?"
  <2>1. Goto(t, "check", to)
    BY DEF Goto
  <2>2. LinkTypeOK'
    BY <1>0 DEF Goto, LinkTypeOK
  <2>3. ClosedIsForgotten'
    BY <1>0 DEF Goto, LinkTypeOK, ClosedIsForgotten
  <2>4. "check" \in Connecting /\ to \in Connecting
    BY DEF Connecting
  <2>5. UNCHANGED <<task, left, result, vehicleVars, strayed>> /\ heartbeat' \in {"none", heartbeat}
    OBVIOUS
  <2> HIDE DEF to
  <2> QED
    BY <2>1, <2>2, <2>3, <2>4, <2>5, ConnectsStep
<1>2. CASE CheckReceiver(t)
  <2> USE <1>2 DEF CheckReceiver
  <2> DEFINE to == IF _receiver_thread = "alive" THEN "connected" ELSE "present?"
  <2>1. Goto(t, "alive?", to)
    BY DEF Goto
  <2>2. LinkTypeOK'
    BY <1>0 DEF Goto, LinkTypeOK
  <2>3. ClosedIsForgotten'
    BY <1>0 DEF Goto, LinkTypeOK, ClosedIsForgotten
  <2>4. "alive?" \in Connecting /\ to \in Connecting
    BY DEF Connecting
  <2>5. UNCHANGED <<task, left, result, vehicleVars, strayed>> /\ heartbeat' \in {"none", heartbeat}
    OBVIOUS
  <2> HIDE DEF to
  <2> QED
    BY <2>1, <2>2, <2>3, <2>4, <2>5, ConnectsStep
<1>3. CASE LookForOld(t)
  <2> USE <1>3 DEF LookForOld
  <2> DEFINE to == IF _master = 0 THEN "clear" ELSE "close"
  <2>1. Goto(t, "present?", to)
    BY DEF Goto
  <2>2. LinkTypeOK'
    BY <1>0 DEF Goto, LinkTypeOK
  <2>3. ClosedIsForgotten'
    BY <1>0 DEF Goto, LinkTypeOK, ClosedIsForgotten
  <2>4. "present?" \in Connecting /\ to \in Connecting
    BY DEF Connecting
  <2>5. UNCHANGED <<task, left, result, vehicleVars, strayed>> /\ heartbeat' \in {"none", heartbeat}
    OBVIOUS
  <2> HIDE DEF to
  <2> QED
    BY <2>1, <2>2, <2>3, <2>4, <2>5, ConnectsStep
<1>4. CASE Close(t)
  <2> USE <1>4 DEF Close
  <2> DEFINE to == "forget"
  <2>1. Goto(t, "close", to)
    BY DEF Goto
  <2>2. LinkTypeOK'
    BY <1>0 DEF Goto, LinkTypeOK
  <2>3. ClosedIsForgotten'
    BY <1>0 DEF Goto, LinkTypeOK, ClosedIsForgotten
  <2>4. "close" \in Connecting /\ to \in Connecting
    BY DEF Connecting
  <2>5. UNCHANGED <<task, left, result, vehicleVars, strayed>> /\ heartbeat' \in {"none", heartbeat}
    OBVIOUS
  <2> HIDE DEF to
  <2> QED
    BY <2>1, <2>2, <2>3, <2>4, <2>5, ConnectsStep
<1>5. CASE Forget(t)
  <2> USE <1>5 DEF Forget
  <2> DEFINE to == "clear"
  <2>1. Goto(t, "forget", to)
    BY DEF Goto
  <2>2. LinkTypeOK'
    BY <1>0 DEF Goto, LinkTypeOK
  <2>3. ClosedIsForgotten'
    BY <1>0 DEF Goto, LinkTypeOK, ClosedIsForgotten
  <2>4. "forget" \in Connecting /\ to \in Connecting
    BY DEF Connecting
  <2>5. UNCHANGED <<task, left, result, vehicleVars, strayed>> /\ heartbeat' \in {"none", heartbeat}
    OBVIOUS
  <2> HIDE DEF to
  <2> QED
    BY <2>1, <2>2, <2>3, <2>4, <2>5, ConnectsStep
<1>6. CASE Clear(t)
  <2> USE <1>6 DEF Clear
  <2> DEFINE to == "open"
  <2>1. Goto(t, "clear", to)
    BY DEF Goto
  <2>2. LinkTypeOK'
    BY <1>0 DEF Goto, LinkTypeOK
  <2>3. ClosedIsForgotten'
    BY <1>0 DEF Goto, LinkTypeOK, ClosedIsForgotten
  <2>4. "clear" \in Connecting /\ to \in Connecting
    BY DEF Connecting
  <2>5. UNCHANGED <<task, left, result, vehicleVars, strayed>> /\ heartbeat' \in {"none", heartbeat}
    OBVIOUS
  <2> HIDE DEF to
  <2> QED
    BY <2>1, <2>2, <2>3, <2>4, <2>5, ConnectsStep
<1>7. CASE OpenLine(t)
  <2> USE <1>7 DEF OpenLine
  <2> DEFINE to == "heartbeat"
  <2>1. Goto(t, "open", to)
    BY DEF Goto
  <2>2. LinkTypeOK'
    BY <1>0, MavlinkAssumption DEF Goto, LinkTypeOK
  <2>3. ClosedIsForgotten'
    BY <1>0 DEF Goto, LinkTypeOK, ClosedIsForgotten
  <2>4. "open" \in Connecting /\ to \in Connecting
    BY DEF Connecting
  <2>5. UNCHANGED <<task, left, result, vehicleVars, strayed>> /\ heartbeat' \in {"none", heartbeat}
    OBVIOUS
  <2> HIDE DEF to
  <2> QED
    BY <2>1, <2>2, <2>3, <2>4, <2>5, ConnectsStep
<1>8. CASE CallWait(t) /\ _master # 0
  <2> USE <1>8 DEF CallWait
  <2> DEFINE to == "waiting"
  <2>1. Goto(t, "heartbeat", to)
    BY DEF Goto
  <2>2. LinkTypeOK'
    BY <1>0 DEF Goto, LinkTypeOK
  <2>3. ClosedIsForgotten'
    BY <1>0 DEF Goto, LinkTypeOK, ClosedIsForgotten
  <2>4. "heartbeat" \in Connecting /\ to \in Connecting
    BY DEF Connecting
  <2>5. UNCHANGED <<task, left, result, vehicleVars, strayed>> /\ heartbeat' \in {"none", heartbeat}
    OBVIOUS
  <2> HIDE DEF to
  <2> QED
    BY <2>1, <2>2, <2>3, <2>4, <2>5, ConnectsStep
<1>9. CASE RequestStreams(t) /\ _master # 0
  <2> USE <1>9 DEF RequestStreams
  <2> DEFINE to == "receiver?"
  <2>1. Goto(t, "streams", to)
    BY DEF Goto
  <2>2. LinkTypeOK'
    BY <1>0 DEF Goto, LinkTypeOK
  <2>3. ClosedIsForgotten'
    BY <1>0 DEF Goto, LinkTypeOK, ClosedIsForgotten
  <2>4. "streams" \in Connecting /\ to \in Connecting
    BY DEF Connecting
  <2>5. UNCHANGED <<task, left, result, vehicleVars, strayed>> /\ heartbeat' \in {"none", heartbeat}
    OBVIOUS
  <2> HIDE DEF to
  <2> QED
    BY <2>1, <2>2, <2>3, <2>4, <2>5, ConnectsStep
<1>10. CASE LookForReceiver(t)
  <2> USE <1>10 DEF LookForReceiver
  <2> DEFINE to == IF _receiver_thread = "alive" THEN "connected" ELSE "create"
  <2>1. Goto(t, "receiver?", to)
    BY DEF Goto
  <2>2. LinkTypeOK'
    BY <1>0 DEF Goto, LinkTypeOK
  <2>3. ClosedIsForgotten'
    BY <1>0 DEF Goto, LinkTypeOK, ClosedIsForgotten
  <2>4. "receiver?" \in Connecting /\ to \in Connecting
    BY DEF Connecting
  <2>5. UNCHANGED <<task, left, result, vehicleVars, strayed>> /\ heartbeat' \in {"none", heartbeat}
    OBVIOUS
  <2> HIDE DEF to
  <2> QED
    BY <2>1, <2>2, <2>3, <2>4, <2>5, ConnectsStep
<1>11. CASE CreateReceiver(t)
  <2> USE <1>11 DEF CreateReceiver
  <2> DEFINE to == "start"
  <2>1. Goto(t, "create", to)
    BY DEF Goto
  <2>2. LinkTypeOK'
    BY <1>0 DEF Goto, LinkTypeOK
  <2>3. ClosedIsForgotten'
    BY <1>0 DEF Goto, LinkTypeOK, ClosedIsForgotten
  <2>4. "create" \in Connecting /\ to \in Connecting
    BY DEF Connecting
  <2>5. UNCHANGED <<task, left, result, vehicleVars, strayed>> /\ heartbeat' \in {"none", heartbeat}
    OBVIOUS
  <2> HIDE DEF to
  <2> QED
    BY <2>1, <2>2, <2>3, <2>4, <2>5, ConnectsStep
<1>12. CASE StartReceiver(t) /\ _receiver_thread # "alive"
  <2> USE <1>12 DEF StartReceiver
  <2> DEFINE to == "connected"
  <2>1. Goto(t, "start", to)
    BY DEF Goto
  <2>2. LinkTypeOK'
    BY <1>0 DEF Goto, LinkTypeOK
  <2>3. ClosedIsForgotten'
    BY <1>0 DEF Goto, LinkTypeOK, ClosedIsForgotten
  <2>4. "start" \in Connecting /\ to \in Connecting
    BY DEF Connecting
  <2>5. UNCHANGED <<task, left, result, vehicleVars, strayed>> /\ heartbeat' \in {"none", heartbeat}
    OBVIOUS
  <2> HIDE DEF to
  <2> QED
    BY <2>1, <2>2, <2>3, <2>4, <2>5, ConnectsStep
<1>13. CASE Heard(t)
  <2> USE <1>13 DEF Heard
  <2> DEFINE to == "streams"
  <2>1. Goto(t, "waiting", to)
    BY DEF Goto
  <2>2. LinkTypeOK'
    BY <1>0 DEF Goto, LinkTypeOK
  <2>3. ClosedIsForgotten'
    BY <1>0 DEF Goto, LinkTypeOK, ClosedIsForgotten
  <2>4. "waiting" \in Connecting /\ to \in Connecting
    BY DEF Connecting
  <2>5. UNCHANGED <<task, left, result, vehicleVars, strayed>> /\ heartbeat' \in {"none", heartbeat}
    OBVIOUS
  <2> HIDE DEF to
  <2> QED
    BY <2>1, <2>2, <2>3, <2>4, <2>5, ConnectsStep
<1>14. CASE \/ OpenFails(t) \/ NotHeard(t)
            \/ (CallWait(t) \/ RequestStreams(t)) /\ _master = 0
            \/ StartReceiver(t) /\ _receiver_thread = "alive"
  <2> USE <1>14 DEF OpenFails, NotHeard, CallWait, RequestStreams, StartReceiver
  <2>1. Raise(t) /\ pc[t] \in Connecting \ {"connected"}
    BY DEF Connecting
  <2>2. UNCHANGED <<linkVars, heartbeat, vehicleVars>>
    OBVIOUS
  <2>3. UNCHANGED conn
    BY <2>1 DEF Raise
  <2>4. LinkTypeOK' /\ ClosedIsForgotten'
    BY <1>0, <2>1, <2>2, <2>3 DEF LinkTypeOK, ClosedIsForgotten, Raise
  <2> QED
    BY <2>1, <2>2, <2>4, RaiseStep
<1>15. CASE CallWait(t)
  BY <1>8, <1>14, <1>15
<1>16. CASE RequestStreams(t)
  BY <1>9, <1>14, <1>16
<1>17. CASE StartReceiver(t)
  BY <1>12, <1>14, <1>17
<1>18. CASE OpenFails(t) \/ NotHeard(t)
  BY <1>14, <1>18
<1> QED
  BY <1>1, <1>2, <1>3, <1>4, <1>5, <1>6, <1>7, <1>10, <1>11, <1>13, <1>15, <1>16, <1>17, <1>18
  DEF EnsureConnection

-----------------------------------------------------------------------------
(* The rest of Next *)

LEMMA ReceiveStep == IInv /\ Receive => IInv'
<1> SUFFICES ASSUME IInv, Receive PROVE IInv'
  OBVIOUS
<1> USE DEF IInv, MavTypeOK, Receive, linkVars, vehicleVars, threadVars
<1>1. LinkTypeOK' /\ ThreadTypeOK'
  BY DEF LinkTypeOK, ThreadTypeOK
<1>2. ClosedIsForgotten' /\ OnGround'
  BY DEF ClosedIsForgotten, OnGround
<1>3. ASSUME NEW u \in Movers PROVE Booked(u)' /\ Checked(u)'
  BY DEF Booked, Checked, ThreadTypeOK
<1> QED
  BY <1>1, <1>2, <1>3

LEMMA PilotStep == IInv /\ ChangeMode /\ UNCHANGED strayed => IInv'
<1> SUFFICES ASSUME IInv, ChangeMode, UNCHANGED strayed PROVE IInv'
  OBVIOUS
<1> USE DEF IInv, MavTypeOK, ChangeMode, linkVars, threadVars
<1>1. LinkTypeOK' /\ ThreadTypeOK'
  BY DEF LinkTypeOK, ThreadTypeOK
<1>2. ClosedIsForgotten' /\ OnGround'
  BY DEF ClosedIsForgotten, OnGround
<1>3. ASSUME NEW u \in Movers PROVE Booked(u)' /\ Checked(u)'
  BY DEF Booked, Checked
<1> QED
  BY <1>1, <1>2, <1>3

LEMMA CollectStep ==
  ASSUME IInv, NEW c \in line, Collect(c), UNCHANGED strayed
  PROVE  IInv'
<1> USE DEF IInv, MavTypeOK, Collect, vehicleVars, threadVars
<1>1. LinkTypeOK' /\ ThreadTypeOK'
  BY DEF LinkTypeOK, ThreadTypeOK
<1>2. ClosedIsForgotten' /\ OnGround'
  BY DEF ClosedIsForgotten, OnGround
<1>3. ASSUME NEW u \in Movers PROVE Booked(u)' /\ Checked(u)'
  BY DEF Booked, Checked
<1> QED
  BY <1>1, <1>2, <1>3

LEMMA PhotoStep ==
  ASSUME IInv, BeginPhoto \/ Turn \/ ReadTelemetry, UNCHANGED strayed
  PROVE  IInv'
<1> USE DEF IInv, MavTypeOK, BeginPhoto, Turn, ReadTelemetry, Goto, linkVars, vehicleVars
<1>1. LinkTypeOK'
  BY DEF LinkTypeOK
<1>2. ThreadTypeOK' /\ ClosedIsForgotten'
  BY DEF ThreadTypeOK, ClosedIsForgotten, Place, Connecting
<1>3. OnGround'
  BY DEF OnGround, ThreadTypeOK, Thread, Connecting
<1>4. ASSUME NEW u \in Movers PROVE Booked(u)' /\ Checked(u)'
  BY MavlinkAssumption DEF Booked, Checked, ThreadTypeOK, Thread
<1> QED
  BY <1>1, <1>2, <1>3, <1>4

\* A mover begins a move, and flies it once it is connected.
LEMMA FlightStep ==
  ASSUME IInv, NEW t \in Thread, (BeginMove(t) /\ UNCHANGED strayed) \/ Fly(t)
  PROVE  IInv'
<1> USE DEF IInv, MavTypeOK
<1>1. t \in Movers
  BY DEF OnGround, BeginMove, Fly, StartMethod, TimeIsOver, NextSetpoint, LookAtMode, LogMove,
         SendSetpoint, Goto, Thread, Connecting
<1>2. UNCHANGED <<linkVars, heartbeat, vehicleVars>>
  BY DEF BeginMove, Fly, StartMethod, TimeIsOver, NextSetpoint, LookAtMode, LogMove, SendSetpoint
<1>3. LinkTypeOK'
  BY <1>2 DEF LinkTypeOK, linkVars, BeginMove, Fly, StartMethod, TimeIsOver, NextSetpoint, LookAtMode,
     LogMove, SendSetpoint
<1>4. pc[t] # "forget" /\ \A u \in Thread \ {t} : pc'[u] = pc[u]
  BY DEF ThreadTypeOK, BeginMove, Fly, StartMethod, TimeIsOver, NextSetpoint, LookAtMode, LogMove,
     SendSetpoint, Goto, Conclude
<1>5. ClosedIsForgotten'
  BY <1>2, <1>4 DEF ClosedIsForgotten, linkVars
<1> USE DEF vehicleVars
<1>6. OnGround'
  BY <1>1, MavlinkAssumption DEF OnGround, ThreadTypeOK, Thread, BeginMove, Fly, StartMethod,
     TimeIsOver, NextSetpoint, LookAtMode, LogMove, SendSetpoint, Goto, Conclude
<1> USE <1>1, <1>2, MavlinkAssumption
<1>7. CASE BeginMove(t) /\ UNCHANGED strayed
  <2> USE <1>7 DEF BeginMove, Goto
  <2>1. ThreadTypeOK'
    BY DEF ThreadTypeOK, Place, Connecting
  <2>2. ASSUME NEW u \in Movers PROVE Booked(u)' /\ Checked(u)'
    BY DEF Booked, Checked, ThreadTypeOK, Thread, Connecting, Flying
  <2> QED
    BY <1>3, <1>5, <1>6, <2>1, <2>2
<1>8. CASE StartMethod(t) /\ UNCHANGED strayed
  <2> USE <1>8 DEF StartMethod, Goto
  <2>1. ThreadTypeOK'
    BY DEF ThreadTypeOK, Place, Flying
  <2>2. ASSUME NEW u \in Movers PROVE Booked(u)' /\ Checked(u)'
    BY DEF Booked, Checked, ThreadTypeOK, Thread, Connecting, Flying
  <2> QED
    BY <1>3, <1>5, <1>6, <2>1, <2>2
<1>9. CASE (NextSetpoint(t) \/ TimeIsOver(t)) /\ UNCHANGED strayed
  <2> USE <1>9 DEF NextSetpoint, TimeIsOver, Goto, Conclude
  <2>1. ThreadTypeOK'
    BY DEF ThreadTypeOK, Place, Flying
  <2>2. ASSUME NEW u \in Movers PROVE Booked(u)' /\ Checked(u)'
    BY DEF Booked, Checked, ThreadTypeOK, Thread, Connecting, Flying
  <2> QED
    BY <1>3, <1>5, <1>6, <2>1, <2>2
<1>10. CASE /\ LookAtMode(t, "ready?", "next") \/ LookAtMode(t, "guided?", "send")
            /\ UNCHANGED strayed
  <2> USE <1>10 DEF LookAtMode, Conclude
  <2>1. ThreadTypeOK'
    BY DEF ThreadTypeOK, Place, Flying
  <2>2. ASSUME NEW u \in Movers PROVE Booked(u)' /\ Checked(u)'
    BY DEF Booked, Checked, ThreadTypeOK, Thread, Connecting, Flying
  <2> QED
    BY <1>3, <1>5, <1>6, <2>1, <2>2
<1>11. CASE SendSetpoint(t)
  <2> USE <1>11 DEF SendSetpoint, Conclude
  <2>1. left[t] > 0
    BY DEF Booked
  <2>2. ThreadTypeOK'
    BY <2>1 DEF ThreadTypeOK, Place, Flying
  <2>3. ASSUME NEW u \in Movers PROVE Booked(u)' /\ Checked(u)'
    BY <2>1 DEF Booked, Checked, ThreadTypeOK, Thread, Connecting, Flying
  <2> QED
    BY <1>3, <1>5, <1>6, <2>2, <2>3
<1>12. CASE LogMove(t) /\ UNCHANGED strayed
  <2> USE <1>12 DEF LogMove, Goto
  <2>1. ThreadTypeOK'
    BY DEF ThreadTypeOK, Place
  <2>2. ASSUME NEW u \in Movers PROVE Booked(u)' /\ Checked(u)'
    BY DEF Booked, Checked, ThreadTypeOK, Thread, Connecting, Flying
  <2> QED
    BY <1>3, <1>5, <1>6, <2>1, <2>2
<1> QED
  BY <1>7, <1>8, <1>9, <1>10, <1>11, <1>12 DEF Fly

LEMMA InvStep == IInv /\ [MavNext]_mavVars => IInv'
<1> SUFFICES ASSUME IInv, [MavNext]_mavVars PROVE IInv'
  OBVIOUS
<1>1. ASSUME NEW t \in Thread, ThreadStep(t) PROVE IInv'
  BY <1>1, ConnectionStep, FlightStep DEF ThreadStep
<1>2. CASE DispatcherStep
  BY <1>2, PhotoStep DEF DispatcherStep
<1>3. ASSUME NEW t \in Thread, Heard(t), UNCHANGED strayed PROVE IInv'
  BY <1>3, ConnectionStep
<1>4. CASE Receive
  BY <1>4, ReceiveStep
<1>5. CASE (BeginPhoto \/ ChangeMode) /\ UNCHANGED strayed
  BY <1>5, PhotoStep, PilotStep
<1>6. ASSUME NEW t \in Movers, BeginMove(t), UNCHANGED strayed PROVE IInv'
  BY <1>6, FlightStep DEF Thread
<1>7. ASSUME NEW c \in line, Collect(c), UNCHANGED strayed PROVE IInv'
  BY <1>7, CollectStep
<1>8. CASE UNCHANGED mavVars
  BY <1>8 DEF IInv, MavTypeOK, LinkTypeOK, ThreadTypeOK, ClosedIsForgotten, OnGround, Booked, Checked,
     mavVars, linkVars, vehicleVars, threadVars
<1> QED
  BY <1>1, <1>2, <1>3, <1>4, <1>5, <1>6, <1>7, <1>8 DEF MavNext

LEMMA Invariant == MavSpec => []IInv
BY InvInit, InvStep, PTL DEF MavSpec

-----------------------------------------------------------------------------
(* Receivers *)

\* Threads that have opened a connection, and may yet start a receiver for it.
Opening == {"heartbeat", "waiting", "streams", "receiver?", "create", "start"}
Debtors == {t \in Thread : pc[t] \in Opening}
Owes(t) == IF pc[t] \in Opening THEN 1 ELSE 0

RInv ==
  /\ IsFiniteSet(Debtors) /\ Cardinality(Debtors) + receivers <= opened
  /\ _receiver_thread = "alive" => receivers > 0
  /\ CacheIsFed

LEMMA DebtStep ==
  ASSUME pc \in [Thread -> Place], IsFiniteSet(Debtors), NEW t \in Thread,
         \A u \in Thread \ {t} : pc'[u] = pc[u]
  PROVE  /\ IsFiniteSet(Debtors') /\ Cardinality(Debtors) \in Nat
         /\ Cardinality(Debtors') = Cardinality(Debtors) + Owes(t)' - Owes(t)
<1>0. Cardinality(Debtors) \in Nat
  BY FS_CardinalityType
<1>1. CASE Owes(t)' = Owes(t)
  <2>1. Debtors' = Debtors
    BY <1>1 DEF Debtors, Owes
  <2>2. Owes(t) \in Int
    BY DEF Owes
  <2> QED
    BY <1>0, <1>1, <2>1, <2>2
<1>2. CASE pc[t] \in Opening /\ pc'[t] \notin Opening
  <2>1. Debtors' = Debtors \ {t} /\ t \in Debtors
    BY <1>2 DEF Debtors
  <2>2. Owes(t) = 1 /\ Owes(t)' = 0
    BY <1>2 DEF Owes
  <2>3. IsFiniteSet(Debtors \ {t}) /\ Cardinality(Debtors \ {t}) = Cardinality(Debtors) - 1
    BY <2>1, FS_RemoveElement
  <2> QED
    BY <1>0, <2>1, <2>2, <2>3
<1>3. CASE pc[t] \notin Opening /\ pc'[t] \in Opening
  <2>1. Debtors' = Debtors \cup {t} /\ t \notin Debtors
    BY <1>3 DEF Debtors
  <2>2. Owes(t) = 0 /\ Owes(t)' = 1
    BY <1>3 DEF Owes
  <2>3. IsFiniteSet(Debtors \cup {t}) /\ Cardinality(Debtors \cup {t}) = Cardinality(Debtors) + 1
    BY <2>1, FS_AddElement
  <2> QED
    BY <1>0, <2>1, <2>2, <2>3
<1> QED
  BY <1>1, <1>2, <1>3 DEF Owes

\* One thread moves: it starts a receiver only where it pays its debt, and makes
\* a debt only where it opens a connection.
LEMMA PayingStep ==
  ASSUME IInv, RInv, NEW t \in Thread,
         \A u \in Thread \ {t} : pc'[u] = pc[u],
         receivers' \in Nat, opened' \in Nat, receivers <= receivers',
         receivers' + Owes(t)' - Owes(t) - receivers <= opened' - opened,
         _receiver_thread' = "alive" => receivers' > 0,
         pc'[t] \in Flying \cup {"connected"} => receivers' > 0
  PROVE  RInv'
<1>1. pc \in [Thread -> Place] /\ receivers \in Nat /\ opened \in Nat
  BY MavlinkAssumption DEF IInv, MavTypeOK, LinkTypeOK, ThreadTypeOK
<1>2. /\ IsFiniteSet(Debtors') /\ Cardinality(Debtors) \in Nat
      /\ Cardinality(Debtors') = Cardinality(Debtors) + Owes(t)' - Owes(t)
  BY <1>1, DebtStep DEF RInv
<1>3. Owes(t) \in Int /\ Owes(t)' \in Int
  BY DEF Owes
<1>4. Cardinality(Debtors') + receivers' <= opened'
  <2> DEFINE n == Cardinality(Debtors)
             m == Cardinality(Debtors')
  <2>1. n + receivers <= opened
    BY DEF RInv
  <2>2. n \in Nat /\ m = n + Owes(t)' - Owes(t)
    BY <1>2
  <2> HIDE DEF n, m
  <2>3. m + receivers' <= opened'
    BY <1>1, <1>3, <2>1, <2>2
  <2> QED
    BY <2>3 DEF m
<1>5. CacheIsFed'
  <2> SUFFICES ASSUME NEW u \in Thread, pc'[u] \in Flying \cup {"connected"}
               PROVE  receivers' > 0
    BY DEF CacheIsFed
  <2>1. CASE u = t
    BY <2>1
  <2>2. CASE u # t
    <3>1. receivers > 0
      BY <2>2 DEF RInv, CacheIsFed
    <3> QED
      BY <1>1, <3>1
  <2> QED
    BY <2>1, <2>2
<1> QED
  BY <1>2, <1>4, <1>5 DEF RInv

LEMMA ThreadPays ==
  ASSUME IInv, IInv', RInv, NEW t \in Thread,
         \/ EnsureConnection(t) \/ Heard(t) \/ Fly(t)
         \/ BeginMove(t)
         \/ t = Dispatcher /\ (BeginPhoto \/ Turn \/ ReadTelemetry)
  PROVE  RInv'
<1>1. /\ pc \in [Thread -> Place] /\ receivers \in Nat /\ opened \in Nat
      /\ receivers' \in Nat /\ opened' \in Nat
  BY MavlinkAssumption DEF IInv, MavTypeOK, LinkTypeOK, ThreadTypeOK
<1>2. /\ _receiver_thread = "alive" => receivers > 0
      /\ pc[t] \in Flying \cup {"connected"} => receivers > 0
  BY DEF RInv, CacheIsFed
<1> USE <1>1, <1>2 DEF Owes, Opening, Flying, Goto, linkVars
<1>3. CASE \/ Check(t) \/ CheckReceiver(t) \/ LookForOld(t) \/ Close(t) \/ Forget(t) \/ Clear(t)
           \/ LookForReceiver(t) \/ CreateReceiver(t) \/ Heard(t)
  <2> USE <1>3 DEF Check, CheckReceiver, LookForOld, Close, Forget, Clear, LookForReceiver,
                   CreateReceiver, Heard
  <2>1. /\ \A u \in Thread \ {t} : pc'[u] = pc[u]
        /\ UNCHANGED <<receivers, opened>>
        /\ _receiver_thread' \in {_receiver_thread, "created"}
    OBVIOUS
  <2>2. \/ pc[t] \notin Opening /\ pc'[t] \notin Opening
        \/ pc[t] \in Opening /\ pc'[t] \in Opening
        \/ pc[t] \in Opening /\ pc'[t] = "connected" /\ _receiver_thread = "alive"
    OBVIOUS
  <2>3. pc'[t] \in Flying \cup {"connected"} => _receiver_thread = "alive"
    OBVIOUS
  <2>4. Owes(t)' <= Owes(t) /\ Owes(t) \in Int /\ Owes(t)' \in Int
    BY <2>2
  <2> HIDE DEF Owes
  <2>5. receivers' + Owes(t)' - Owes(t) - receivers <= opened' - opened
    BY <2>1, <2>4
  <2> QED
    BY <2>1, <2>3, <2>5, PayingStep
<1>4. CASE OpenLine(t)
  <2> USE <1>4 DEF OpenLine
  <2>1. /\ \A u \in Thread \ {t} : pc'[u] = pc[u]
        /\ UNCHANGED <<receivers, _receiver_thread>> /\ opened' = opened + 1
    OBVIOUS
  <2>2. Owes(t)' = 1 /\ Owes(t) = 0 /\ pc'[t] \notin Flying \cup {"connected"}
    OBVIOUS
  <2> QED
    BY <2>1, <2>2, PayingStep
<1>5. CASE OpenFails(t) \/ NotHeard(t) \/ CallWait(t) \/ RequestStreams(t)
  <2> USE <1>5 DEF OpenFails, NotHeard, CallWait, RequestStreams, Raise
  <2>0. task[t] \in {"turn", "telemetry", "move"}
    BY DEF IInv, MavTypeOK, OnGround, Booked, ThreadTypeOK, Thread, Connecting
  <2>1. /\ \A u \in Thread \ {t} : pc'[u] = pc[u]
        /\ UNCHANGED <<receivers, opened, _receiver_thread>>
    OBVIOUS
  <2>2. Owes(t)' <= Owes(t) /\ pc'[t] \notin Flying \cup {"connected"}
    BY <2>0
  <2>3. Owes(t) \in Int /\ Owes(t)' \in Int
    OBVIOUS
  <2>4. receivers' + Owes(t)' - Owes(t) - receivers <= opened' - opened
    BY <2>1, <2>2, <2>3
  <2> QED
    BY <2>1, <2>2, <2>4, PayingStep
<1>6. CASE StartReceiver(t) /\ _receiver_thread # "alive"
  <2> USE <1>6 DEF StartReceiver
  <2>1. /\ \A u \in Thread \ {t} : pc'[u] = pc[u]
        /\ UNCHANGED opened /\ receivers' = receivers + 1
    OBVIOUS
  <2>2. Owes(t)' = 0 /\ Owes(t) = 1
    OBVIOUS
  <2> QED
    BY <2>1, <2>2, PayingStep
<1>7. CASE StartReceiver(t) /\ _receiver_thread = "alive"
  <2> USE <1>7 DEF StartReceiver, Raise
  <2>0. task[t] \in {"turn", "telemetry", "move"}
    BY DEF IInv, MavTypeOK, OnGround, Booked, ThreadTypeOK, Thread, Connecting
  <2>1. /\ \A u \in Thread \ {t} : pc'[u] = pc[u]
        /\ UNCHANGED <<receivers, opened, _receiver_thread>>
    OBVIOUS
  <2>2. Owes(t)' = 0 /\ Owes(t) = 1 /\ pc'[t] \notin Flying \cup {"connected"}
    BY <2>0
  <2> QED
    BY <2>1, <2>2, PayingStep
<1>8. CASE \/ Fly(t) \/ BeginMove(t)
           \/ t = Dispatcher /\ (BeginPhoto \/ Turn \/ ReadTelemetry)
  <2> USE <1>8 DEF Fly, StartMethod, TimeIsOver, NextSetpoint, LogMove, LookAtMode, SendSetpoint,
                   Conclude, BeginMove, BeginPhoto, Turn, ReadTelemetry
  <2>1. /\ \A u \in Thread \ {t} : pc'[u] = pc[u]
        /\ UNCHANGED <<receivers, opened, _receiver_thread>>
    OBVIOUS
  <2>2. Owes(t)' = 0 /\ Owes(t) = 0 /\ (pc'[t] \in Flying \cup {"connected"} => receivers > 0)
    OBVIOUS
  <2> QED
    BY <2>1, <2>2, PayingStep
<1> QED
  BY <1>3, <1>4, <1>5, <1>6, <1>7, <1>8 DEF EnsureConnection

LEMMA RInvStep == IInv /\ IInv' /\ RInv /\ [MavNext]_mavVars => RInv'
<1> SUFFICES ASSUME IInv, IInv', RInv, [MavNext]_mavVars PROVE RInv'
  OBVIOUS
<1>1. ASSUME NEW t \in Thread, ThreadStep(t) \/ Heard(t) PROVE RInv'
  BY <1>1, ThreadPays DEF ThreadStep
<1>2. CASE DispatcherStep \/ BeginPhoto
  BY <1>2, ThreadPays DEF DispatcherStep, Thread
<1>3. ASSUME NEW t \in Movers, BeginMove(t) PROVE RInv'
  BY <1>3, ThreadPays DEF Thread
<1>4. ASSUME UNCHANGED <<pc, receivers, opened, _receiver_thread>> PROVE RInv'
  BY <1>4 DEF RInv, Debtors, CacheIsFed
<1>5. CASE Receive \/ ChangeMode \/ (\E c \in line : Collect(c)) \/ UNCHANGED mavVars
  BY <1>4, <1>5 DEF Receive, ChangeMode, Collect, mavVars, linkVars, threadVars
<1> QED
  BY <1>1, <1>2, <1>3, <1>5 DEF MavNext

LEMMA ReceiversInvariant == MavSpec => [](IInv /\ RInv)
<1>1. MavInit => RInv
  <2> SUFFICES ASSUME MavInit PROVE RInv
    OBVIOUS
  <2>1. Debtors = {}
    BY DEF MavInit, Debtors, Opening
  <2> QED
    BY <2>1, FS_EmptySet DEF MavInit, RInv, CacheIsFed, Flying
<1> QED
  BY <1>1, InvInit, InvStep, RInvStep, PTL DEF MavSpec

-----------------------------------------------------------------------------
(* Theorems *)

(* Whatever threads of moves run beside the dispatcher, and however their    *)
(* steps in _ensure_connection interleave, a closed connection is shared     *)
(* only until the thread that has closed it forgets it.                      *)
THEOREM ClosedForgotten == MavSpec => []ClosedIsForgotten
<1>1. IInv => ClosedIsForgotten
  BY DEF IInv
<1> QED
  BY <1>1, Invariant, PTL

(* However many threads find no receiver at the same time, no more receivers *)
(* are ever started than connections were opened.                            *)
THEOREM ReceiversPaid == MavSpec => []ReceiversArePaid
<1>1. IInv /\ RInv => ReceiversArePaid
  <2> SUFFICES ASSUME IInv, RInv PROVE ReceiversArePaid
    OBVIOUS
  <2>1. Cardinality(Debtors) \in Nat /\ receivers \in Nat /\ opened \in Int
    BY FS_CardinalityType DEF RInv, IInv, MavTypeOK, LinkTypeOK
  <2>2. Cardinality(Debtors) + receivers <= opened
    BY DEF RInv
  <2> HIDE DEF Debtors
  <2> QED
    BY <2>1, <2>2 DEF ReceiversArePaid
<1> QED
  BY <1>1, ReceiversInvariant, PTL

(* Whatever the interleaving, no thread reads the cache or flies before a    *)
(* receiver was started.                                                     *)
THEOREM CacheFed == MavSpec => []CacheIsFed
<1>1. RInv => CacheIsFed
  BY DEF RInv
<1> QED
  BY <1>1, ReceiversInvariant, PTL

(* A move of method 2 or 3 sends at most one setpoint after the cache has    *)
(* ceased to say GUIDED, however long it is and whoever cleared the cache.   *)
THEOREM ModeIsObeyed == MavSpec => []ModeStopsMove
<1>1. IInv => ModeStopsMove
  BY DEF IInv, ModeStopsMove, Checked
<1> QED
  BY <1>1, Invariant, PTL
=============================================================================
