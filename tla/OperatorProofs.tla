----------------------------- MODULE OperatorProofs -----------------------------
(***************************************************************************)
(* Proofs about MissionManager and OperatorUI, for any number of missions, *)
(* runs of one id, browsers, questions and tasks in the queue.             *)
(*                                                                         *)
(* What concerns several runs of one mission id is proved of a manager     *)
(* whose starts do not fail (CalmStarts).  A start that raises leaves its  *)
(* SearchEnded behind after the id is free again, and the next run of the  *)
(* id loses its registration to it.                                        *)
(***************************************************************************)
EXTENDS OperatorUI, HumanInTheLoopProofs

CalmStarts == PromptOk \subseteq {TRUE} /\ 0 \notin Glimpses

OperatorItem == Item \cup StartRequest

LEMMA OperatorCarries ==
  ASSUME ManagerAssumption
  PROVE  Carries(OperatorItem)
<1>1. \A x \in StartRequest : x.type \notin EventTypes
  BY DEF StartRequest, EventTypes, DroneEventTypes, MissionEventTypes, DroneNotice, ChatNotice
<1> QED
  BY <1>1, ItemCarries, CarriesMore DEF OperatorItem


-----------------------------------------------------------------------------
(* The runs of one id *)

Ended(q, i) == q[i].type = "SearchEnded"
Deletes(q, i) == q[i].type = "DeleteSession"
Asks(q, i) == q[i].type = "AskUserConfirmation"

\* The runs `live', the registered ids `act' and the queue q agree: an id is held
\* by one run or by one SearchEnded, the DeleteSession of a run is right behind its
\* SearchEnded, and so is, at some distance, the SearchEnded of a run that has ended
\* behind its questions.
Registered(live, act) ==
  /\ \A o \in live : MissionOf[o] \in act
  /\ \A o, p \in live : MissionOf[o] = MissionOf[p] => o = p
Ending(q, live, act) ==
  \A i \in 1..Len(q) :
    /\ Ended(q, i) \/ Deletes(q, i) =>
         q[i].by \in Orchs /\ \A o \in live : MissionOf[o] # MissionOf[q[i].by]
    /\ Ended(q, i) => MissionOf[q[i].by] \in act
    /\ Deletes(q, i) => i = 1 \/ q[i - 1] = Await(q[i].by, "SearchEnded")
OneEnd(q) ==
  \A i, j \in 1..Len(q) :
    Ended(q, i) /\ Ended(q, j) /\ MissionOf[q[i].by] = MissionOf[q[j].by] => i = j
Released(q, live, act) ==
  \A m \in act :
    \/ \E o \in live : MissionOf[o] = m
    \/ \E i \in 1..Len(q) : Ended(q, i) /\ MissionOf[q[i].by] = m
Asking(q, live) ==
  \A i \in 1..Len(q) :
    Asks(q, i) =>
      \/ q[i].by \in live
      \/ \E j \in 1..Len(q) : i < j /\ q[j] = Await(q[i].by, "SearchEnded")

Runs(q, live, act) ==
  /\ Registered(live, act) /\ Ending(q, live, act) /\ OneEnd(q)
  /\ Released(q, live, act) /\ Asking(q, live)
RunsInv == Runs(tasks, Subscribed, active)

\* No end is said or taken.
LEMMA RunsKept ==
  ASSUME NEW q, NEW r, NEW n, NEW s, Up(q, r, n, s), NEW live, NEW act, Runs(q, live, act),
         s = 1 => ~Ended(q, 1),
         \A i \in Added(r, n) : /\ ~Ended(r, i) /\ ~Deletes(r, i)
                                /\ Asks(r, i) => r[i].by \in live
  PROVE  Runs(r, live, act)
<1> USE DEF Ended, Deletes, Asks
<1>1. /\ \A i \in 1..n : r[i].type \in CommandTypes => i + s \in 1..Len(q) /\ r[i] = q[i + s]
      /\ \A i \in (1 + s)..Len(q) : q[i].type \in CommandTypes =>
                                      i - s \in 1..n /\ r[i - s] = q[i]
      /\ \A i \in 1..Len(r) : i \in 1..n \/ i \in Added(r, n)
      /\ \A i \in 1..n : i \in 1..Len(r)
  BY UpCommands
<1>2. n \in Nat /\ s \in {0, 1} /\ Len(q) \in Nat /\ Len(r) \in Nat
  BY DEF Up
<1>3. ASSUME NEW i \in 1..Len(r), Ended(r, i) \/ Deletes(r, i)
      PROVE  i + s \in 1..Len(q) /\ r[i] = q[i + s]
  BY <1>1, <1>3, FarewellTypes
<1>4. Ending(r, live, act)
  <2>1. ASSUME NEW i \in 1..Len(r), Ended(r, i) \/ Deletes(r, i)
        PROVE  /\ r[i].by \in Orchs /\ \A o \in live : MissionOf[o] # MissionOf[r[i].by]
               /\ Ended(r, i) => MissionOf[r[i].by] \in act
    BY <1>3, <2>1 DEF Runs, Ending
  <2>2. ASSUME NEW i \in 1..Len(r), Deletes(r, i), i # 1
        PROVE  r[i - 1] = Await(r[i].by, "SearchEnded")
    <3>1. i + s \in 1..Len(q) /\ r[i] = q[i + s] /\ i + s # 1
      BY <1>2, <1>3, <2>2
    <3>2. q[(i + s) - 1] = Await(r[i].by, "SearchEnded")
      BY <2>2, <3>1 DEF Runs, Ending
    <3>3. /\ (i + s) - 1 \in (1 + s)..Len(q) /\ ((i + s) - 1) - s = i - 1
      BY <1>2, <2>2, <3>1
    <3>4. q[(i + s) - 1].type \in CommandTypes
      BY <3>2, FarewellTypes DEF Await
    <3> QED
      BY <1>1, <3>2, <3>3, <3>4
  <2> QED
    BY <2>1, <2>2 DEF Ending
<1>5. OneEnd(r)
  <2>1. ASSUME NEW i \in 1..Len(r), NEW j \in 1..Len(r), Ended(r, i), Ended(r, j),
               MissionOf[r[i].by] = MissionOf[r[j].by]
        PROVE  i = j
    <3>1. i + s = j + s
      BY <1>3, <2>1 DEF Runs, OneEnd
    <3> QED
      BY <1>2, <3>1
  <2> QED
    BY <2>1 DEF OneEnd
<1>6. Released(r, live, act)
  <2>1. ASSUME NEW i \in 1..Len(q), Ended(q, i)
        PROVE  i - s \in 1..Len(r) /\ r[i - s] = q[i]
    <3>1. i \in (1 + s)..Len(q)
      BY <1>2, <2>1
    <3> QED
      BY <1>1, <2>1, <3>1, FarewellTypes
  <2> QED
    BY <2>1 DEF Runs, Released
<1>7. Asking(r, live)
  <2>1. ASSUME NEW i \in 1..Len(r), Asks(r, i), r[i].by \notin live
        PROVE  \E j \in 1..Len(r) : i < j /\ r[j] = Await(r[i].by, "SearchEnded")
    <3>1. i \in 1..n /\ i + s \in 1..Len(q) /\ r[i] = q[i + s]
      BY <1>1, <2>1, FarewellTypes
    <3>2. PICK j \in 1..Len(q) : i + s < j /\ q[j] = Await(r[i].by, "SearchEnded")
      BY <2>1, <3>1 DEF Runs, Asking
    <3>3. j \in (1 + s)..Len(q) /\ i < j - s
      BY <1>2, <3>1, <3>2
    <3>4. j - s \in 1..Len(r) /\ r[j - s] = q[j]
      BY <1>1, <3>2, <3>3, FarewellTypes DEF Await
    <3> QED
      BY <3>2, <3>3, <3>4
  <2> QED
    BY <2>1 DEF Asking
<1> QED
  BY <1>4, <1>5, <1>6, <1>7 DEF Runs

\* A run ends, and says so last.
LEMMA RunsParted ==
  ASSUME NEW q, NEW r, NEW n, NEW s, Up(q, r, n, s), NEW live, NEW act, Runs(q, live, act),
         s = 1 => ~Ended(q, 1),
         NEW o \in live, o \in Orchs, n + 2 <= Len(r),
         r[Len(r) - 1] = Await(o, "SearchEnded"), r[Len(r)] = Await(o, "DeleteSession"),
         \A i \in Added(r, n) :
           i < Len(r) - 1 => ~Ended(r, i) /\ ~Deletes(r, i) /\ ~Asks(r, i)
  PROVE  Runs(r, live \ {o}, act)
<1> USE DEF Ended, Deletes, Asks
<1> DEFINE e == Len(r) - 1
<1>1. /\ \A i \in 1..n : r[i].type \in CommandTypes => i + s \in 1..Len(q) /\ r[i] = q[i + s]
      /\ \A i \in (1 + s)..Len(q) : q[i].type \in CommandTypes =>
                                      i - s \in 1..n /\ r[i - s] = q[i]
      /\ \A i \in 1..Len(r) : i \in 1..n \/ i \in Added(r, n)
      /\ \A i \in 1..n : i \in 1..Len(r)
  BY UpCommands
<1>2. n \in Nat /\ s \in {0, 1} /\ Len(q) \in Nat /\ Len(r) \in Nat
  BY DEF Up
<1>3. /\ e \in 1..Len(r) /\ e + 1 = Len(r) /\ n < e
      /\ r[e].type = "SearchEnded" /\ r[e].by = o
      /\ r[e + 1].type = "DeleteSession" /\ r[e + 1].by = o
  BY <1>2 DEF Await
<1> HIDE DEF e
<1>4. ASSUME NEW i \in 1..Len(r), Ended(r, i) \/ Deletes(r, i) \/ Asks(r, i)
      PROVE  \/ i \in 1..n /\ i + s \in 1..Len(q) /\ r[i] = q[i + s]
             \/ i = e /\ Ended(r, i)
             \/ i = e + 1 /\ Deletes(r, i)
  <2>1. CASE i \in 1..n
    BY <1>1, <1>4, <2>1, FarewellTypes
  <2>2. CASE i \in Added(r, n)
    <3>1. ~(i < Len(r) - 1)
      BY <1>4, <2>2
    <3>2. i = Len(r) - 1 \/ i = Len(r)
      BY <1>2, <3>1
    <3>3. i = e \/ i = e + 1
      BY <1>3, <3>2 DEF e
    <3> QED
      BY <1>3, <3>3
  <2> QED
    BY <1>1, <2>1, <2>2
<1>5. /\ MissionOf[o] \in act
      /\ \A p \in live \ {o} : MissionOf[p] # MissionOf[o]
      /\ \A i \in 1..Len(q) : Ended(q, i) => MissionOf[q[i].by] # MissionOf[o]
  BY DEF Runs, Registered, Ending
<1>6. Registered(live \ {o}, act)
  BY DEF Runs, Registered
<1>7. Ending(r, live \ {o}, act)
  <2>1. ASSUME NEW i \in 1..Len(r), Ended(r, i) \/ Deletes(r, i)
        PROVE  /\ r[i].by \in Orchs
               /\ \A p \in live \ {o} : MissionOf[p] # MissionOf[r[i].by]
               /\ Ended(r, i) => MissionOf[r[i].by] \in act
    <3>1. CASE i + s \in 1..Len(q) /\ r[i] = q[i + s]
      BY <2>1, <3>1 DEF Runs, Ending
    <3>2. CASE i = e \/ i = e + 1
      BY <1>3, <1>5, <3>2
    <3> QED
      BY <1>4, <2>1, <3>1, <3>2
  <2>2. ASSUME NEW i \in 1..Len(r), Deletes(r, i), i # 1
        PROVE  r[i - 1] = Await(r[i].by, "SearchEnded")
    <3>1. CASE i \in 1..n /\ i + s \in 1..Len(q) /\ r[i] = q[i + s]
      <4>1. i + s # 1
        BY <1>2, <2>2
      <4>2. q[(i + s) - 1] = Await(r[i].by, "SearchEnded")
        BY <2>2, <3>1, <4>1 DEF Runs, Ending
      <4>3. (i + s) - 1 \in (1 + s)..Len(q) /\ ((i + s) - 1) - s = i - 1
        BY <1>2, <2>2, <3>1
      <4>4. q[(i + s) - 1].type \in CommandTypes
        BY <4>2, FarewellTypes DEF Await
      <4> QED
        BY <1>1, <4>2, <4>3, <4>4
    <3>2. CASE i = e + 1
      <4>1. i - 1 = e
        BY <1>2, <1>3, <3>2
      <4> QED
        BY <1>3, <3>2, <4>1 DEF e
    <3> QED
      BY <1>4, <2>2, <3>1, <3>2
  <2> QED
    BY <2>1, <2>2 DEF Ending
<1>8. OneEnd(r)
  <2>1. ASSUME NEW i \in 1..Len(r), Ended(r, i), i # e
        PROVE  i + s \in 1..Len(q) /\ r[i] = q[i + s] /\ MissionOf[r[i].by] # MissionOf[o]
    BY <1>4, <1>5, <2>1
  <2>2. ASSUME NEW i \in 1..Len(r), NEW j \in 1..Len(r), Ended(r, i), Ended(r, j),
               MissionOf[r[i].by] = MissionOf[r[j].by], i # e, j # e
        PROVE  i = j
    <3>1. i + s = j + s
      BY <2>1, <2>2 DEF Runs, OneEnd
    <3> QED
      BY <1>2, <3>1
  <2> QED
    BY <1>3, <2>1, <2>2 DEF OneEnd
<1>9. Released(r, live \ {o}, act)
  <2>1. ASSUME NEW i \in 1..Len(q), Ended(q, i)
        PROVE  i - s \in 1..Len(r) /\ r[i - s] = q[i]
    <3>1. i \in (1 + s)..Len(q)
      BY <1>2, <2>1
    <3> QED
      BY <1>1, <2>1, <3>1, FarewellTypes
  <2>2. ASSUME NEW m \in act, \A p \in live \ {o} : MissionOf[p] # m
        PROVE  \E i \in 1..Len(r) : Ended(r, i) /\ MissionOf[r[i].by] = m
    <3>1. CASE m = MissionOf[o]
      BY <1>3, <3>1
    <3>2. CASE m # MissionOf[o]
      <4>1. PICK i \in 1..Len(q) : Ended(q, i) /\ MissionOf[q[i].by] = m
        BY <2>2, <3>2 DEF Runs, Released
      <4> QED
        BY <2>1, <4>1
    <3> QED
      BY <3>1, <3>2
  <2> QED
    BY <2>2 DEF Released
<1>10. Asking(r, live \ {o})
  <2>1. ASSUME NEW i \in 1..Len(r), Asks(r, i), r[i].by \notin live \ {o}
        PROVE  \E j \in 1..Len(r) : i < j /\ r[j] = Await(r[i].by, "SearchEnded")
    <3>1. i \in 1..n /\ i + s \in 1..Len(q) /\ r[i] = q[i + s]
      BY <1>4, <2>1
    <3>2. CASE r[i].by = o
      BY <1>2, <1>3, <3>1, <3>2 DEF e
    <3>3. CASE r[i].by # o
      <4>1. PICK j \in 1..Len(q) : i + s < j /\ q[j] = Await(r[i].by, "SearchEnded")
        BY <2>1, <3>1, <3>3 DEF Runs, Asking
      <4>2. j \in (1 + s)..Len(q) /\ i < j - s
        BY <1>2, <3>1, <4>1
      <4>3. j - s \in 1..Len(r) /\ r[j - s] = q[j]
        BY <1>1, <4>1, <4>2, FarewellTypes DEF Await
      <4> QED
        BY <4>1, <4>2, <4>3
    <3> QED
      BY <3>2, <3>3
  <2> QED
    BY <2>1 DEF Asking
<1> QED
  BY <1>6, <1>7, <1>8, <1>9, <1>10 DEF Runs

\* A SearchEnded is taken, and its id is free.
LEMMA RunsReleased ==
  ASSUME NEW Q, NEW q \in Seq(Q), q # <<>>, NEW live, NEW act, Runs(q, live, act), Ended(q, 1)
  PROVE  Runs(Tail(q), live, act \ {MissionOf[q[1].by]})
<1> USE DEF Ended, Deletes, Asks
<1> DEFINE r == Tail(q)
           m == MissionOf[q[1].by]
<1>1. /\ Len(q) \in Nat /\ Len(r) \in Nat /\ Len(r) + 1 = Len(q) /\ 1 \in 1..Len(q)
      /\ \A i \in 1..Len(r) : i + 1 \in 1..Len(q) /\ r[i] = q[i + 1]
      /\ \A i \in 1..Len(q) : i # 1 => i - 1 \in 1..Len(r) /\ r[i - 1] = q[i]
  OBVIOUS
<1> HIDE DEF r
<1>2. ASSUME NEW i \in 1..Len(q), Ended(q, i), i # 1
      PROVE  MissionOf[q[i].by] # m
  BY <1>1, <1>2 DEF Runs, OneEnd
<1> HIDE DEF m
<1>3. Registered(live, act \ {m})
  BY <1>1 DEF Runs, Registered, Ending, m
<1>4. Ending(r, live, act \ {m})
  <2>1. ASSUME NEW i \in 1..Len(r), Ended(r, i) \/ Deletes(r, i)
        PROVE  /\ r[i].by \in Orchs /\ \A o \in live : MissionOf[o] # MissionOf[r[i].by]
               /\ Ended(r, i) => MissionOf[r[i].by] \in act \ {m}
    <3>1. i + 1 \in 1..Len(q) /\ r[i] = q[i + 1] /\ i + 1 # 1
      BY <1>1
    <3> QED
      BY <1>2, <2>1, <3>1 DEF Runs, Ending
  <2>2. ASSUME NEW i \in 1..Len(r), Deletes(r, i), i # 1
        PROVE  r[i - 1] = Await(r[i].by, "SearchEnded")
    <3>1. i + 1 \in 1..Len(q) /\ r[i] = q[i + 1] /\ i + 1 # 1 /\ (i + 1) - 1 = i
      BY <1>1
    <3>2. i \in 1..Len(q) /\ r[i - 1] = q[i]
      BY <1>1, <2>2
    <3>3. q[(i + 1) - 1] = Await(q[i + 1].by, "SearchEnded")
      BY <2>2, <3>1 DEF Runs, Ending
    <3> QED
      BY <3>1, <3>2, <3>3
  <2> QED
    BY <2>1, <2>2 DEF Ending
<1>5. OneEnd(r)
  <2>1. ASSUME NEW i \in 1..Len(r), NEW j \in 1..Len(r), Ended(r, i), Ended(r, j),
               MissionOf[r[i].by] = MissionOf[r[j].by]
        PROVE  i = j
    <3>1. i + 1 = j + 1
      BY <1>1, <2>1 DEF Runs, OneEnd
    <3> QED
      BY <3>1
  <2> QED
    BY <2>1 DEF OneEnd
<1>6. Released(r, live, act \ {m})
  <2>1. ASSUME NEW k \in act \ {m}, \A o \in live : MissionOf[o] # k
        PROVE  \E i \in 1..Len(r) : Ended(r, i) /\ MissionOf[r[i].by] = k
    <3>1. PICK i \in 1..Len(q) : Ended(q, i) /\ MissionOf[q[i].by] = k
      BY <2>1 DEF Runs, Released
    <3>2. i - 1 \in 1..Len(r) /\ r[i - 1] = q[i]
      BY <1>1, <3>1 DEF m
    <3> QED
      BY <3>1, <3>2
  <2> QED
    BY <2>1 DEF Released
<1>7. Asking(r, live)
  <2>1. ASSUME NEW i \in 1..Len(r), Asks(r, i), r[i].by \notin live
        PROVE  \E j \in 1..Len(r) : i < j /\ r[j] = Await(r[i].by, "SearchEnded")
    <3>1. i + 1 \in 1..Len(q) /\ r[i] = q[i + 1]
      BY <1>1
    <3>2. PICK j \in 1..Len(q) : i + 1 < j /\ q[j] = Await(r[i].by, "SearchEnded")
      BY <2>1, <3>1 DEF Runs, Asking
    <3>3. j - 1 \in 1..Len(r) /\ r[j - 1] = q[j] /\ i < j - 1
      BY <1>1, <3>2
    <3> QED
      BY <3>2, <3>3
  <2> QED
    BY <2>1 DEF Asking
<1> QED
  BY <1>3, <1>4, <1>5, <1>6, <1>7 DEF Runs, r, m

\* A run begins under an id that is free.
LEMMA RunsBegun ==
  ASSUME NEW r, Len(r) \in Nat, NEW live, NEW act, Runs(r, live, act),
         Len(r) # 0 => ~Deletes(r, 1), NEW p \in Orchs, MissionOf[p] \notin act
  PROVE  Runs(r, live \cup {p}, act \cup {MissionOf[p]})
<1> USE DEF Ended, Deletes, Asks
<1>1. ASSUME NEW i \in 1..Len(r), Ended(r, i)
      PROVE  MissionOf[r[i].by] # MissionOf[p]
  BY <1>1 DEF Runs, Ending
<1>2. ASSUME NEW i \in 1..Len(r), Deletes(r, i)
      PROVE  MissionOf[r[i].by] # MissionOf[p]
  <2>1. i # 1
    BY <1>2
  <2>2. i - 1 \in 1..Len(r) /\ r[i - 1] = Await(r[i].by, "SearchEnded")
    BY <1>2, <2>1 DEF Runs, Ending
  <2>3. Ended(r, i - 1) /\ r[i - 1].by = r[i].by
    BY <2>2 DEF Await
  <2> QED
    BY <1>1, <2>2, <2>3
<1>3. Registered(live \cup {p}, act \cup {MissionOf[p]})
  BY DEF Runs, Registered
<1>4. Ending(r, live \cup {p}, act \cup {MissionOf[p]})
  BY <1>1, <1>2 DEF Runs, Ending
<1>5. Released(r, live \cup {p}, act \cup {MissionOf[p]}) /\ Asking(r, live \cup {p})
  BY DEF Runs, Released, Asking
<1> QED
  BY <1>3, <1>4, <1>5 DEF Runs

-----------------------------------------------------------------------------
(* The manager's steps *)

\* Another component takes a task, or publishes, or both.
Attends(q, news) ==
  /\ Served(q, news)
  /\ q # tasks => Task.type # "SearchEnded"

ManagerStep(Q) ==
  \/ HandleStartMission
  \/ HandleMissionEnded
  \/ /\ UNCHANGED active
     /\ \/ \E o \in Orchs : AwaitedDone(o) \/ StartCancelled(o) \/ Handle(o)
        \/ \E q, news \in Seq(Q) : Attends(q, news)

\* A step of a run.
LEMMA RunsMission ==
  ASSUME OrchAssumption, NEW Q, Carries(Q), MissionInv(Q), RunsInv, UNCHANGED active,
         NEW o \in Orchs, AwaitedDone(o) \/ StartCancelled(o) \/ Handle(o)
  PROVE  RunsInv'
<1> USE DEF MissionInv
<1>1. state[o] # "NEW" /\ Writes(o)
  BY UnderWay DEF Writes
<1>2. Follows(Q, o, tasks')
  BY <1>1, MissionFollows
<1>3. PICK n \in Nat, s \in {0, 1} :
        /\ Up(tasks, tasks', n, s)
        /\ s = 1 => Task.type \notin CommandTypes
        /\ Parts(o, n, tasks') \/ Commands(o, n, tasks') \/ Continues(o, n, tasks')
  BY <1>2, FollowedUp
<1>4. s = 1 => ~Ended(tasks, 1)
  BY <1>3, FarewellTypes DEF Ended, Task, Up
<1>5. \A p \in Orchs \ {o} : state'[p] = state[p]
  BY <1>1, OthersKept DEF Ledger
<1>6. Len(tasks') \in Nat
  BY <1>3 DEF Up
<1>7. CASE Parts(o, n, tasks')
  <2>1. o \in Subscribed /\ Subscribed' = Subscribed \ {o}
    BY <1>1, <1>5, <1>7 DEF Parts, Subscribed
  <2>2. \A i \in Added(tasks', n) :
          i < Len(tasks') - 1 =>
            ~Ended(tasks', i) /\ ~Deletes(tasks', i) /\ ~Asks(tasks', i)
    BY <1>7 DEF Parts, Await, Ended, Deletes, Asks
  <2>3. Runs(tasks', Subscribed \ {o}, active)
    BY <1>3, <1>4, <1>7, <2>1, <2>2, RunsParted DEF Parts, RunsInv
  <2> QED
    BY <2>1, <2>3 DEF RunsInv
<1>8. CASE Commands(o, n, tasks')
  <2>1. Subscribed' = Subscribed
    BY <1>1, <1>5, <1>8 DEF Commands, Subscribed
  <2>2. \A i \in Added(tasks', n) : tasks'[i].type = "ExecuteMove"
    BY <1>6, <1>8 DEF Commands, Added, ExecuteMove
  <2>3. Runs(tasks', Subscribed, active)
    BY <1>3, <1>4, <2>2, RunsKept DEF RunsInv, Ended, Deletes, Asks
  <2> QED
    BY <2>1, <2>3 DEF RunsInv
<1>9. CASE Continues(o, n, tasks')
  <2>1. Subscribed' = Subscribed
    BY <1>1, <1>5, <1>9 DEF Continues, Subscribed
  <2>2. ASSUME NEW i \in Added(tasks', n)
        PROVE  /\ ~Ended(tasks', i) /\ ~Deletes(tasks', i)
               /\ Asks(tasks', i) => tasks'[i].by \in Subscribed
    <3>1. /\ tasks'[i].type \in Quiet /\ tasks'[i].by = o
          /\ Asks(tasks', i) => HandleVlmAnalysis(o)
      BY <1>9 DEF Continues, Proper, Asks
    <3>2. HandleVlmAnalysis(o) => o \in Subscribed
      <4>1. Handles(o, "VlmAnalysisCompleted") => state[o] = "WAITING_FOR_VLM"
        BY HandlesEvent DEF Expected
      <4> QED
        BY <4>1 DEF HandleVlmAnalysis, Subscribed
    <3> QED
      BY <3>1, <3>2 DEF Quiet, Ended, Deletes
  <2>3. Runs(tasks', Subscribed, active)
    BY <1>3, <1>4, <2>2, RunsKept DEF RunsInv
  <2> QED
    BY <2>1, <2>3 DEF RunsInv
<1> QED
  BY <1>3, <1>7, <1>8, <1>9

\* Another component's.
LEMMA RunsService ==
  ASSUME NEW Q, tasks \in Seq(Q), RunsInv, UNCHANGED active,
         NEW q \in Seq(Q), NEW news \in Seq(Q), Attends(q, news)
  PROVE  RunsInv'
<1>1. Served(q, news) /\ (q # tasks => Task.type # "SearchEnded")
  BY DEF Attends
<1>2. PICK s \in {0, 1} : /\ Len(q) + s = Len(tasks)
                          /\ \A i \in 1..Len(q) : tasks'[i] = tasks[i + s]
  BY <1>1, ServedKeeps
<1>3. /\ tasks' \in Seq(Q) /\ Len(tasks') = Len(q) + Len(news)
      /\ \A i \in Added(tasks', Len(q)) : /\ i - Len(q) \in 1..Len(news)
                                          /\ tasks'[i] = news[i - Len(q)]
  BY <1>1, ServedKeeps
<1>4. Up(tasks, tasks', Len(q), s)
  BY <1>2, <1>3 DEF Up
<1>5. s = 1 => ~Ended(tasks, 1)
  <2>1. s = 1 => q # tasks /\ Task = tasks[1]
    BY <1>2 DEF Task
  <2> QED
    BY <1>1, <2>1 DEF Ended
<1>6. \A i \in Added(tasks', Len(q)) : /\ ~Ended(tasks', i) /\ ~Deletes(tasks', i)
                                       /\ ~Asks(tasks', i)
  BY <1>1, <1>3, FarewellTypes DEF Served, IsNews, Ended, Deletes, Asks
<1>7. Runs(tasks', Subscribed, active)
  BY <1>4, <1>5, <1>6, RunsKept DEF RunsInv
<1>8. Subscribed' = Subscribed
  BY <1>1 DEF Served, orchVars, Subscribed
<1> QED
  BY <1>7, <1>8 DEF RunsInv

\* A request to start a mission is one of those the interfaces make.
LEMMA RequestTyped ==
  ASSUME ManagerAssumption, NEW x \in OperatorItem, x.type = "StartMission"
  PROVE  /\ x.by \in Orchs /\ x.glimpses \in Glimpses /\ x.prompt_ok \in BOOLEAN
         /\ CalmStarts => x.glimpses # 0 /\ x.prompt_ok
<1>1. x \notin Item
  BY DEF Item, Items, Events, SimpleCommand, Flight, Question, Analyses, WakeUp, Awaited,
         DroneNotice, ChatNotice
<1>2. x \in StartRequest
  BY <1>1 DEF OperatorItem
<1> QED
  BY <1>2 DEF StartRequest, ManagerAssumption, CalmStarts

\* A start that is accepted and does not fail.
LEMMA RunsStart ==
  ASSUME OrchAssumption, ManagerAssumption, CalmStarts, MissionInv(OperatorItem), RunsInv,
         HandleStartMission
  PROVE  RunsInv'
<1> USE DEF MissionInv, MissionTypeOK
<1> DEFINE p == Task.by
           x == Await(p, "CreateNewSession")
<1>1. /\ tasks \in Seq(OperatorItem) /\ tasks # <<>> /\ Task \in OperatorItem
      /\ Task = tasks[1] /\ Task.type = "StartMission" /\ MissionOf[p] \notin active
  BY DEF HandleStartMission, Task
<1>2. p \in Orchs /\ Task.glimpses # 0 /\ Task.prompt_ok
  BY <1>1, RequestTyped
<1>3. /\ tasks' = Append(Tail(tasks), x)
      /\ state[p] = "NEW" /\ state' = [state EXCEPT ![p] = "IDLE"]
      /\ active' = active \cup {MissionOf[p]}
  BY <1>1, <1>2 DEF HandleStartMission, Start, Goto
<1>4. x.type = "CreateNewSession"
  BY DEF Await
<1> HIDE DEF p, x
<1>5. /\ Len(tasks') \in Nat /\ Len(tasks') = Len(tasks) /\ Len(tasks) - 1 \in Nat
      /\ \A i \in 1..(Len(tasks) - 1) : tasks'[i] = tasks[i + 1]
      /\ tasks'[Len(tasks)] = x
  BY <1>1, <1>3
<1>6. Up(tasks, tasks', Len(tasks) - 1, 1)
  BY <1>5 DEF Up
<1>7. Runs(tasks', Subscribed, active)
  <2>1. ~Ended(tasks, 1)
    BY <1>1 DEF Ended
  <2>2. \A i \in Added(tasks', Len(tasks) - 1) : tasks'[i] = x
    BY <1>5 DEF Added
  <2>3. \A i \in Added(tasks', Len(tasks) - 1) :
          ~Ended(tasks', i) /\ ~Deletes(tasks', i) /\ ~Asks(tasks', i)
    BY <1>4, <2>2 DEF Ended, Deletes, Asks
  <2> QED
    BY <1>6, <2>1, <2>3, RunsKept DEF RunsInv
<1>8. ~Deletes(tasks', 1)
  <2>1. CASE Len(tasks) = 1
    BY <1>4, <1>5, <2>1 DEF Deletes
  <2>2. CASE Len(tasks) # 1
    <3>1. 2 \in 1..Len(tasks) /\ tasks'[1] = tasks[2]
      BY <1>5, <2>2
    <3>2. Deletes(tasks, 2) => tasks[2 - 1] = Await(tasks[2].by, "SearchEnded")
      BY <3>1 DEF RunsInv, Runs, Ending
    <3>3. ~Deletes(tasks, 2)
      BY <1>1, <3>2 DEF Await
    <3> QED
      BY <3>1, <3>3 DEF Deletes
  <2> QED
    BY <2>1, <2>2
<1>9. Runs(tasks', Subscribed \cup {p}, active \cup {MissionOf[p]})
  BY <1>1, <1>2, <1>5, <1>7, <1>8, RunsBegun
<1>10. Subscribed' = Subscribed \cup {p}
  BY <1>2, <1>3 DEF Subscribed
<1> QED
  BY <1>3, <1>9, <1>10 DEF RunsInv

LEMMA RunsEnd ==
  ASSUME NEW Q, tasks \in Seq(Q), RunsInv, HandleMissionEnded
  PROVE  RunsInv'
<1>1. /\ tasks # <<>> /\ Ended(tasks, 1) /\ Task = tasks[1]
      /\ tasks' = Tail(tasks) /\ active' = active \ {MissionOf[tasks[1].by]}
      /\ Subscribed' = Subscribed
  BY DEF HandleMissionEnded, Ended, Task, orchVars, Subscribed
<1>2. Runs(Tail(tasks), Subscribed, active \ {MissionOf[tasks[1].by]})
  BY <1>1, RunsReleased DEF RunsInv
<1> QED
  BY <1>1, <1>2 DEF RunsInv

\* A start and an end are steps of the missions, and of services.
LEMMA ManagerIsMission ==
  ASSUME ManagerAssumption, tasks \in Seq(OperatorItem), ManagerStep(OperatorItem)
  PROVE  MissionNext(OperatorItem)
<1>1. CASE HandleStartMission
  <2>1. Task \in OperatorItem /\ Task.type = "StartMission"
    BY <1>1 DEF HandleStartMission, Task
  <2>2. Task.by \in Orchs /\ Task.glimpses \in Glimpses /\ Task.prompt_ok \in BOOLEAN
    BY <2>1, RequestTyped
  <2>3. Task.type \notin CommandTypes \cup EventTypes
    BY <2>1 DEF CommandTypes, Awaited, EventTypes, DroneEventTypes, MissionEventTypes,
                DroneNotice, ChatNotice
  <2>4. Starts(Task.by)
    BY <1>1, <2>2, <2>3 DEF HandleStartMission, Starts
  <2> QED
    BY <2>2, <2>4 DEF MissionNext, Writes
<1>2. CASE HandleMissionEnded
  <2>1. Task.type \notin EventTypes
    BY <1>2, FarewellTypes, CommandIsNoEvent DEF HandleMissionEnded
  <2> QED
    BY <1>2, <2>1, TakenServes DEF HandleMissionEnded, MissionNext
<1>3. CASE \E o \in Orchs : AwaitedDone(o) \/ StartCancelled(o) \/ Handle(o)
  BY <1>3 DEF MissionNext, Writes
<1>4. CASE \E q, news \in Seq(OperatorItem) : Attends(q, news)
  BY <1>4 DEF Attends, Serves, MissionNext
<1> QED
  BY <1>1, <1>2, <1>3, <1>4 DEF ManagerStep

LEMMA RunsStep ==
  ASSUME OrchAssumption, ManagerAssumption, CalmStarts, MissionInv(OperatorItem), RunsInv,
         ManagerStep(OperatorItem)
  PROVE  RunsInv'
<1>1. tasks \in Seq(OperatorItem) /\ Carries(OperatorItem)
  BY OperatorCarries DEF MissionInv
<1> QED
  BY <1>1, RunsMission, RunsService, RunsStart, RunsEnd DEF ManagerStep

LEMMA RunsInit ==
  ASSUME ManagerInit
  PROVE  RunsInv
<1>1. tasks = <<>> /\ Subscribed = {} /\ active = {}
  BY DEF ManagerInit, Init, Subscribed
<1>2. Len(<<>>) = 0
  OBVIOUS
<1> QED
  BY <1>1, <1>2 DEF RunsInv, Runs, Registered, Ending, OneEnd, Released, Asking

\* What the invariant says.
LEMMA RunsSay ==
  ASSUME NEW Q, tasks \in Seq(Q), RunsInv
  PROVE  OneLivePerMission /\ RunsAreSeparate /\ IdIsReleased
<1>1. OneLivePerMission
  BY DEF RunsInv, Runs, Registered, OneLivePerMission
<1>2. RunsAreSeparate
  BY DEF RunsInv, Runs, Registered, Ending, RunsAreSeparate, Ended, Deletes
<1>3. IdIsReleased
  BY DEF RunsInv, Runs, Released, IdIsReleased, Ended
<1> QED
  BY <1>1, <1>2, <1>3

-----------------------------------------------------------------------------
(* Managers *)

LEMMA TakenAttends ==
  ASSUME NEW Q, tasks \in Seq(Q), UNCHANGED <<orchVars, active>>,
         \/ tasks' = tasks
         \/ /\ tasks # <<>> /\ Task.type \notin EventTypes \cup {"SearchEnded"}
            /\ tasks' = Tail(tasks)
  PROVE  ManagerStep(Q)
<1>1. tasks' \in Seq(Q) /\ Served(tasks', <<>>)
  BY TakenServes
<1>2. Attends(tasks', <<>>)
  BY <1>1 DEF Attends
<1>3. <<>> \in Seq(Q)
  OBVIOUS
<1> QED
  BY <1>1, <1>2, <1>3 DEF ManagerStep

LEMMA PublishAttends ==
  ASSUME NEW Q, tasks \in Seq(Q), UNCHANGED <<orchVars, active>>,
         NEW e \in Q, IsNews(e), tasks' = Publish(tasks, e)
  PROVE  ManagerStep(Q)
<1>1. Served(tasks, News(e)) /\ News(e) \in Seq(Q)
  BY PublishServes, NewsPublished
<1> QED
  BY <1>1 DEF Attends, ManagerStep

\* A request to start a mission.
LEMMA RequestAttends ==
  ASSUME tasks \in Seq(OperatorItem), NEW o \in Orchs, RequestStart(o)
  PROVE  ManagerStep(OperatorItem)
<1>1. PICK x \in StartRequest : tasks' = Append(tasks, x) /\ x.type = "StartMission"
  BY DEF RequestStart, StartRequest
<1>2. IsNews(x) /\ x \in OperatorItem
  BY <1>1 DEF IsNews, CommandTypes, Awaited, EventTypes, DroneEventTypes, MissionEventTypes,
              DroneNotice, ChatNotice, OperatorItem
<1>3. <<x>> \in Seq(OperatorItem) /\ Served(tasks, <<x>>)
  BY <1>1, <1>2, AppendServes DEF RequestStart
<1> QED
  BY <1>3 DEF RequestStart, Attends, ManagerStep

\* What is said outside of the missions.
LEMMA SpokenAttends ==
  ASSUME tasks \in Seq(OperatorItem), UNCHANGED active,
         DroneSpeaks \/ ChatSpeaks \/ OperatorSpeaks
  PROVE  /\ ManagerStep(OperatorItem)
         /\ \E e \in Event : e.to = Subscribed /\ tasks' = Publish(tasks, e)
<1>1. PICK e \in Event : e.to = Subscribed /\ Announce(e)
  BY Spoken
<1>2. e \in OperatorItem /\ IsNews(e)
  BY <1>1, ItemIs DEF OperatorItem, IsNews, Event, DroneNotice, ChatNotice, CommandTypes,
                      Awaited
<1>3. tasks' = Publish(tasks, e) /\ UNCHANGED orchVars
  BY <1>1 DEF Announce
<1>4. ManagerStep(OperatorItem)
  BY <1>2, <1>3, PublishAttends
<1> QED
  BY <1>1, <1>3, <1>4

LEMMA AnswersSpeak ==
  ASSUME OrchAssumption, NEW o \in Orchs, DroneAnswers(o)
  PROVE  DroneSpeaks
  BY DEF OrchAssumption, DroneAnswers, DroneSpeaks, DroneNotice

LEMMA TakeAttends ==
  ASSUME NEW Q, tasks \in Seq(Q), UNCHANGED active, TakeCommand, Task.type # "SearchEnded"
  PROVE  ManagerStep(Q)
<1>1. Task.type \notin EventTypes \cup {"SearchEnded"}
  BY CommandIsNoEvent DEF TakeCommand
<1> QED
  BY <1>1, TakenAttends DEF TakeCommand

LEMMA RefusedAttends ==
  ASSUME NEW Q, tasks \in Seq(Q), StartRefused
  PROVE  ManagerStep(Q)
<1>1. Task.type \notin EventTypes \cup {"SearchEnded"}
  BY DEF StartRefused, EventTypes, DroneEventTypes, MissionEventTypes, DroneNotice, ChatNotice
<1> QED
  BY <1>1, TakenAttends DEF StartRefused

LEMMA ManagerNextSteps ==
  ASSUME tasks \in Seq(OperatorItem), [ManagerNext]_managerVars
  PROVE  ManagerStep(OperatorItem)
<1>1. CASE UNCHANGED managerVars
  BY <1>1, TakenAttends DEF managerVars, vars
<1>2. CASE StartRefused
  BY <1>2, RefusedAttends
<1>3. CASE HandleStartMission \/ HandleMissionEnded
  BY <1>3 DEF ManagerStep
<1>4. CASE Elsewhere
  <2>1. CASE TakeCommand /\ Task.type # "SearchEnded"
    BY <1>4, <2>1, TakeAttends DEF Elsewhere
  <2>2. CASE \E o \in Orchs : AwaitedDone(o) \/ StartCancelled(o) \/ Handle(o)
    BY <1>4, <2>2 DEF Elsewhere, ManagerStep
  <2>3. CASE DroneSpeaks \/ ChatSpeaks \/ OperatorSpeaks
    BY <1>4, <2>3, SpokenAttends DEF Elsewhere
  <2> QED
    BY <1>4, <2>1, <2>2, <2>3 DEF Elsewhere
<1>5. CASE \E o \in Orchs : RequestStart(o)
  BY <1>5, RequestAttends
<1> QED
  BY <1>1, <1>2, <1>3, <1>4, <1>5 DEF ManagerNext

LEMMA ManagerMissions == ManagerSpec => []MissionInv(OperatorItem)
<1>1. ManagerInit => MissionInv(OperatorItem)
  BY MissionInit DEF ManagerInit
<1>2. MissionInv(OperatorItem) /\ [ManagerNext]_managerVars => MissionInv(OperatorItem)'
  <2>1. MissionInv(OperatorItem) => tasks \in Seq(OperatorItem)
    BY DEF MissionInv
  <2> QED
    BY <2>1, OrchAssumption, ManagerAssumption, OperatorCarries, ManagerNextSteps,
       ManagerIsMission, MissionNextInv
<1> QED
  BY <1>1, <1>2, PTL DEF ManagerSpec

LEMMA ManagerRuns ==
  ASSUME CalmStarts
  PROVE  ManagerSpec => []RunsInv
<1>1. ManagerInit => RunsInv
  BY RunsInit
<1>2. MissionInv(OperatorItem) /\ RunsInv /\ [ManagerNext]_managerVars => RunsInv'
  <2>1. MissionInv(OperatorItem) => tasks \in Seq(OperatorItem)
    BY DEF MissionInv
  <2> QED
    BY <2>1, OrchAssumption, ManagerAssumption, ManagerNextSteps, RunsStep
<1> QED
  BY <1>1, <1>2, ManagerMissions, PTL DEF ManagerSpec

-----------------------------------------------------------------------------
(* The interfaces: types *)

CliOK ==
  /\ active_mission_id \in Missions \cup {Nothing}
  /\ pending_confirmation \in Moves \cup {NoMove}
  /\ pending_confirmation # NoMove => active_mission_id # Nothing
GuiOK ==
  /\ gui \in [Missions -> View]
  /\ \A m \in Missions : gui[m].waiting => gui[m].move \in Moves
Page == [mission : Missions \cup {Nothing}, waiting : BOOLEAN, move : Moves \cup {NoMove}]
PagesOK ==
  /\ page \in [Browsers -> Page]
  /\ to_page \in [Browsers -> Seq(View)]
  /\ clicks \in [Browsers -> Seq(Decisions)]
  /\ \A b \in Browsers :
       page[b].mission = Nothing => clicks[b] = <<>> /\ to_page[b] = <<>> /\ ~page[b].waiting
HistoryOK ==
  /\ asked \in [Missions -> Moves \cup {NoMove}]
  /\ answered_by \in [Missions -> SUBSET {"cli", "gui"}]
  /\ disturbed \in [Missions -> BOOLEAN]
UiTypeOK == CliOK /\ GuiOK /\ PagesOK /\ HistoryOK

\* What a command says.
LEMMA CommandTyped ==
  ASSUME NEW x \in OperatorItem
  PROVE  /\ x.type = "SearchEnded" => x.by \in Orchs
         /\ x.type = "AskUserConfirmation" => x.by \in Orchs /\ x.move \in Moves
<1> SUFFICES ASSUME x.type \in {"SearchEnded", "AskUserConfirmation"}
             PROVE  /\ x.by \in Orchs
                    /\ x.type = "AskUserConfirmation" => x.move \in Moves
  OBVIOUS
<1>1. x \notin Events(Photos) /\ x \notin StartRequest /\ x \notin WakeUp
  BY DEF Events, StartRequest, WakeUp, DroneNotice, ChatNotice
<1>2. x \in SimpleCommand \cup Flight \cup Question \cup Analyses(Photos)
  BY <1>1 DEF OperatorItem, Item, Items
<1> QED
  BY <1>2 DEF SimpleCommand, Flight, Question, Analyses, Awaited

\* A state of the GUI that is shown is sent to the pages of its mission.
LEMMA ShowTyped ==
  ASSUME OperatorAssumption, UiTypeOK, NEW m \in Missions, NEW view \in View,
         view.waiting => view.move \in Moves, Show(m, view), UNCHANGED <<page, clicks>>
  PROVE  GuiOK' /\ PagesOK'
<1> USE DEF UiTypeOK
<1>1. GuiOK'
  <2>1. gui' = [gui EXCEPT ![m] = view] /\ gui \in [Missions -> View]
    BY DEF Show, GuiOK
  <2>2. gui' \in [Missions -> View]
    BY <2>1
  <2>3. \A k \in Missions : gui'[k] = IF k = m THEN view ELSE gui[k]
    BY <2>1
  <2> QED
    BY <2>2, <2>3 DEF GuiOK
<1>2. to_page' \in [Browsers -> Seq(View)]
  <2>1. \A b \in Browsers : Append(to_page[b], view) \in Seq(View)
    BY DEF PagesOK
  <2> QED
    BY <2>1 DEF Show, Broadcast, PagesOK
<1>3. ASSUME NEW b \in Browsers, page[b].mission = Nothing
      PROVE  clicks[b] = <<>> /\ to_page'[b] = <<>> /\ ~page[b].waiting
  <2>1. b \notin Watching(m)
    BY <1>3 DEF OperatorAssumption, Watching
  <2> QED
    BY <1>3, <2>1 DEF Show, Broadcast, PagesOK
<1> QED
  BY <1>1, <1>2, <1>3 DEF PagesOK

\* The state that is shown is one of the GUI's.
LEMMA StartShownTyped ==
  ASSUME OperatorAssumption, UiTypeOK, NEW m \in Missions, MissionStartShown(m)
  PROVE  CliOK' /\ GuiOK' /\ PagesOK'
<1>1. gui[m] \in View
  BY DEF UiTypeOK, GuiOK
<1> DEFINE view == [gui[m] EXCEPT !.known = TRUE, !.waiting = FALSE]
<1>2. view \in View /\ ~view.waiting
  BY <1>1 DEF View
<1>3. Show(m, view) /\ UNCHANGED <<page, clicks>>
  BY DEF MissionStartShown
<1> HIDE DEF view
<1> QED
  BY <1>2, <1>3, ShowTyped DEF MissionStartShown, cliVars, UiTypeOK, CliOK

LEMMA EndShownTyped ==
  ASSUME OperatorAssumption, UiTypeOK, NEW m \in Missions, SearchEndShown(m)
  PROVE  CliOK' /\ GuiOK' /\ PagesOK'
<1>1. gui[m] \in View
  BY DEF UiTypeOK, GuiOK
<1> DEFINE view == [gui[m] EXCEPT !.known = TRUE, !.waiting = FALSE]
<1>2. view \in View /\ ~view.waiting
  BY <1>1 DEF View
<1>3. Show(m, view) /\ UNCHANGED <<page, clicks>>
  BY DEF SearchEndShown
<1> HIDE DEF view
<1> QED
  BY <1>2, <1>3, ShowTyped DEF SearchEndShown, cliVars, UiTypeOK, CliOK

LEMMA AskShownTyped ==
  ASSUME OperatorAssumption, UiTypeOK, NEW m \in Missions, NEW move \in Moves,
         AskConfirmation(m, move)
  PROVE  CliOK' /\ GuiOK' /\ PagesOK'
<1> DEFINE view == [known |-> TRUE, waiting |-> TRUE, move |-> move]
<1>1. view \in View /\ view.move \in Moves
  BY DEF View
<1>2. Show(m, view) /\ UNCHANGED <<page, clicks>>
  BY DEF AskConfirmation
<1> HIDE DEF view
<1> QED
  BY <1>1, <1>2, ShowTyped DEF AskConfirmation, UiTypeOK, CliOK, OperatorAssumption

\* The decision that is published.
LEMMA DecisionIsItem ==
  ASSUME NEW m \in Missions, NEW decision \in Decisions, NEW move \in Moves
  PROVE  /\ Decision(m, decision, move) \in OperatorItem
         /\ IsNews(Decision(m, decision, move))
<1>1. Subscribed \subseteq Orchs
  BY DEF Subscribed
<1>2. Decision(m, decision, move) \in Item
  BY <1>1 DEF Decision, Item, Items, Events
<1> QED
  BY <1>2 DEF OperatorItem, Decision, IsNews, CommandTypes, Awaited

LEMMA CliDecidesTyped ==
  ASSUME OrchAssumption, OperatorAssumption, tasks \in Seq(OperatorItem), UiTypeOK, CliDecides
  PROVE  UiTypeOK' /\ ManagerStep(OperatorItem)
<1> USE DEF UiTypeOK
<1>1. active_mission_id \in Missions /\ pending_confirmation \in Moves
  BY DEF CliDecides, CliOK
<1>2. PICK decision \in Decisions :
        tasks' = Publish(tasks, Decision(active_mission_id, decision, pending_confirmation))
  BY DEF CliDecides
<1>3. ManagerStep(OperatorItem)
  <2> DEFINE e == Decision(active_mission_id, decision, pending_confirmation)
  <2>1. e \in OperatorItem /\ IsNews(e) /\ tasks' = Publish(tasks, e)
    BY <1>1, <1>2, DecisionIsItem
  <2> HIDE DEF e
  <2> QED
    BY <2>1, PublishAttends DEF CliDecides
<1>4. CliOK' /\ GuiOK' /\ PagesOK'
  BY DEF CliDecides, CliOK, GuiOK, PagesOK, pageVars
<1>5. HistoryOK'
  BY <1>1 DEF CliDecides, HistoryOK
<1> QED
  BY <1>3, <1>4, <1>5

\* Pages.
LEMMA PageStepTyped ==
  ASSUME OperatorAssumption, UiTypeOK, NEW b \in Browsers,
         \/ ReceiveState(b) \/ ClosePage(b) \/ Click(b)
         \/ \E m \in Missions : OpenPage(b, m)
  PROVE  UiTypeOK'
<1> USE DEF UiTypeOK, pageVars, cliVars, historyVars
<1>1. CliOK' /\ GuiOK' /\ HistoryOK'
  BY DEF ReceiveState, ClosePage, Click, OpenPage, CliOK, GuiOK, HistoryOK
<1>2. /\ page \in [Browsers -> Page] /\ to_page \in [Browsers -> Seq(View)]
      /\ clicks \in [Browsers -> Seq(Decisions)]
      /\ \A c \in Browsers :
           page[c].mission = Nothing => clicks[c] = <<>> /\ to_page[c] = <<>> /\ ~page[c].waiting
  BY DEF PagesOK
<1>3. CASE ReceiveState(b)
  <2> DEFINE view == Head(to_page[b])
  <2>1. view \in View /\ Tail(to_page[b]) \in Seq(View) /\ page[b].mission # Nothing
    BY <1>2, <1>3 DEF ReceiveState
  <2>2. view.waiting \in BOOLEAN /\ view.move \in Moves \cup {NoMove}
    BY <2>1 DEF View
  <2>3. page' = [page EXCEPT ![b] = [page[b] EXCEPT !.waiting = view.waiting,
                                                    !.move = view.move]]
    BY <1>2, <1>3 DEF ReceiveState
  <2> HIDE DEF view
  <2>4. [page[b] EXCEPT !.waiting = view.waiting, !.move = view.move] \in Page
    BY <1>2, <2>2 DEF Page
  <2>5. page' \in [Browsers -> Page]
    BY <1>2, <2>3, <2>4
  <2>6. to_page' \in [Browsers -> Seq(View)] /\ clicks' = clicks
    BY <1>2, <1>3, <2>1 DEF ReceiveState
  <2>7. \A c \in Browsers : c # b => page'[c] = page[c] /\ to_page'[c] = to_page[c]
    BY <1>2, <1>3, <2>3 DEF ReceiveState
  <2>8. page'[b].mission = page[b].mission
    BY <1>2, <2>3 DEF Page
  <2> QED
    BY <1>1, <1>2, <2>1, <2>5, <2>6, <2>7, <2>8 DEF PagesOK
<1>4. CASE ClosePage(b)
  <2>1. ClosedPage \in Page /\ ~ClosedPage.waiting
    BY DEF ClosedPage, Page
  <2>2. /\ page' = [page EXCEPT ![b] = ClosedPage]
        /\ to_page' = [to_page EXCEPT ![b] = <<>>] /\ clicks' = [clicks EXCEPT ![b] = <<>>]
    BY <1>4 DEF ClosePage
  <2>3. page' \in [Browsers -> Page]
    BY <1>2, <2>1, <2>2
  <2>4. to_page' \in [Browsers -> Seq(View)] /\ clicks' \in [Browsers -> Seq(Decisions)]
    BY <1>2, <2>2
  <2> QED
    BY <1>1, <1>2, <2>1, <2>2, <2>3, <2>4 DEF PagesOK
<1>5. CASE Click(b)
  <2>1. PICK decision \in Decisions :
          clicks' = [clicks EXCEPT ![b] = Append(clicks[b], decision)]
    BY <1>5 DEF Click
  <2>2. Append(clicks[b], decision) \in Seq(Decisions)
    BY <1>2
  <2>3. clicks' \in [Browsers -> Seq(Decisions)]
    BY <1>2, <2>1, <2>2
  <2>4. page' = [page EXCEPT ![b] = [page[b] EXCEPT !.waiting = FALSE]] /\ to_page' = to_page
    BY <1>2, <1>5 DEF Click
  <2>5. /\ [page[b] EXCEPT !.waiting = FALSE] \in Page
        /\ [page[b] EXCEPT !.waiting = FALSE].mission = page[b].mission
    BY <1>2 DEF Page
  <2>6. page' \in [Browsers -> Page] /\ page'[b].mission = page[b].mission
    BY <1>2, <2>4, <2>5
  <2>7. \A c \in Browsers : c # b => page'[c] = page[c] /\ clicks'[c] = clicks[c]
    BY <1>2, <2>1, <2>4
  <2>8. page[b].mission # Nothing
    BY <1>2, <1>5 DEF Click
  <2> QED
    BY <1>1, <1>2, <2>3, <2>4, <2>6, <2>7, <2>8 DEF PagesOK
<1>6. CASE \E m \in Missions : OpenPage(b, m)
  <2>1. PICK m \in Missions : OpenPage(b, m)
    BY <1>6
  <2>2. gui[m] \in View
    BY DEF GuiOK
  <2>3. page' = [page EXCEPT ![b] = [page[b] EXCEPT !.mission = m]] /\ clicks' = clicks
    BY <1>2, <2>1 DEF OpenPage
  <2>4. /\ [page[b] EXCEPT !.mission = m] \in Page
        /\ [page[b] EXCEPT !.mission = m].mission = m
    BY <1>2 DEF Page
  <2>5. page' \in [Browsers -> Page] /\ page'[b].mission # Nothing
    BY <1>2, <2>3, <2>4 DEF OperatorAssumption
  <2>6. \A c \in Browsers : c # b => page'[c] = page[c]
    BY <1>2, <2>3
  <2>7. \A c \in Browsers : Append(to_page[c], gui[m]) \in Seq(View)
    BY <1>2, <2>2
  <2>8. to_page' = [c \in Browsers |-> IF c \in Watching(m) \cup {b}
                                       THEN Append(to_page[c], gui[m]) ELSE to_page[c]]
    BY <2>1 DEF OpenPage
  <2>9. to_page' \in [Browsers -> Seq(View)]
    BY <1>2, <2>7, <2>8
  <2>10. \A c \in Browsers : c # b /\ page[c].mission = Nothing => to_page'[c] = to_page[c]
    BY <2>8 DEF Watching, OperatorAssumption
  <2> QED
    BY <1>1, <1>2, <2>3, <2>5, <2>6, <2>9, <2>10 DEF PagesOK
<1> QED
  BY <1>3, <1>4, <1>5, <1>6

LEMMA ReceiveClickTyped ==
  ASSUME OrchAssumption, OperatorAssumption, tasks \in Seq(OperatorItem), UiTypeOK,
         NEW b \in Browsers, ReceiveClick(b)
  PROVE  UiTypeOK' /\ ManagerStep(OperatorItem)
<1> USE DEF UiTypeOK
<1> DEFINE m == ClickOn(b)
           view == [gui[m] EXCEPT !.waiting = FALSE, !.move = NoMove]
           e == Decision(m, Head(clicks[b]), gui[m].move)
<1>1. /\ page \in [Browsers -> Page] /\ to_page \in [Browsers -> Seq(View)]
      /\ clicks \in [Browsers -> Seq(Decisions)]
      /\ \A c \in Browsers :
           page[c].mission = Nothing => clicks[c] = <<>> /\ to_page[c] = <<>> /\ ~page[c].waiting
  BY DEF PagesOK
<1>2. /\ m \in Missions /\ Head(clicks[b]) \in Decisions /\ Tail(clicks[b]) \in Seq(Decisions)
      /\ clicks' = [clicks EXCEPT ![b] = Tail(clicks[b])] /\ clicks[b] # <<>>
  BY <1>1 DEF ReceiveClick, ClickOn, Page
<1>3. clicks' \in [Browsers -> Seq(Decisions)]
  BY <1>1, <1>2
<1>4. /\ page' = page /\ CliOK'
      /\ UNCHANGED <<orchVars, active, asked, disturbed>>
  BY DEF ReceiveClick, cliVars, CliOK
<1>5. \A c \in Browsers : page[c].mission = Nothing => clicks'[c] = <<>>
  BY <1>1, <1>2
<1>6. CASE gui[m].waiting
  <2>1. /\ tasks' = Publish(tasks, e) /\ Show(m, view)
        /\ answered_by' = [answered_by EXCEPT ![m] = @ \cup {"gui"}]
    BY <1>6 DEF ReceiveClick
  <2>2. gui[m] \in View /\ gui[m].move \in Moves
    BY <1>2, <1>6 DEF GuiOK
  <2>3. e \in OperatorItem /\ IsNews(e)
    BY <1>2, <2>2, DecisionIsItem
  <2>4. view \in View /\ ~view.waiting
    BY <2>2 DEF View
  <2>5. HistoryOK'
    BY <1>2, <1>4, <2>1 DEF HistoryOK
  <2> HIDE DEF e, view, m
  <2>6. ManagerStep(OperatorItem)
    BY <1>4, <2>1, <2>3, PublishAttends
  <2>7. GuiOK'
    <3>1. gui' = [gui EXCEPT ![m] = view] /\ gui \in [Missions -> View]
      BY <2>1 DEF Show, GuiOK
    <3> QED
      BY <1>2, <2>4, <3>1 DEF GuiOK
  <2>8. to_page' \in [Browsers -> Seq(View)]
    <3>1. \A c \in Browsers : Append(to_page[c], view) \in Seq(View)
      BY <1>1, <2>4
    <3> QED
      BY <1>1, <2>1, <3>1 DEF Show, Broadcast
  <2>9. \A c \in Browsers : page[c].mission = Nothing => to_page'[c] = <<>>
    BY <1>1, <1>2, <2>1 DEF Show, Broadcast, Watching, OperatorAssumption
  <2> QED
    BY <1>1, <1>3, <1>4, <1>5, <2>5, <2>6, <2>7, <2>8, <2>9 DEF PagesOK
<1>7. CASE ~gui[m].waiting
  <2>1. UNCHANGED <<tasks, gui, to_page, answered_by>>
    BY <1>7 DEF ReceiveClick
  <2>2. ManagerStep(OperatorItem)
    BY <1>4, <2>1, TakenAttends
  <2>3. GuiOK' /\ HistoryOK'
    BY <1>4, <2>1 DEF GuiOK, HistoryOK
  <2> QED
    BY <1>1, <1>3, <1>4, <1>5, <2>1, <2>2, <2>3 DEF PagesOK
<1> QED
  BY <1>6, <1>7

-----------------------------------------------------------------------------
(* The interfaces: every step is one of the manager's *)

\* A start that is accepted or refused is shown, and wipes the history of its id.
LEMMA StartStepTyped ==
  ASSUME OrchAssumption, ManagerAssumption, OperatorAssumption, tasks \in Seq(OperatorItem),
         UiTypeOK, StartStep
  PROVE  UiTypeOK' /\ ManagerStep(OperatorItem)
<1> DEFINE m == MissionOf[Task.by]
<1>1. Task \in OperatorItem /\ Task.type = "StartMission"
  BY DEF StartStep, Task
<1>2. m \in Missions
  BY <1>1, RequestTyped DEF OrchAssumption
<1>3. /\ MissionStartShown(m) /\ asked' = asked
      /\ answered_by' = answered_by \/ answered_by' = [answered_by EXCEPT ![m] = {}]
      /\ \E d \in BOOLEAN : disturbed' = [disturbed EXCEPT ![m] = d]
      /\ HandleStartMission \/ StartRefused
  BY DEF StartStep
<1>4. ManagerStep(OperatorItem)
  BY <1>3, RefusedAttends DEF ManagerStep
<1> HIDE DEF m
<1>5. CliOK' /\ GuiOK' /\ PagesOK'
  BY <1>2, <1>3, StartShownTyped
<1>6. HistoryOK'
  <2>1. asked' \in [Missions -> Moves \cup {NoMove}]
    BY <1>3 DEF UiTypeOK, HistoryOK
  <2>2. answered_by' \in [Missions -> SUBSET {"cli", "gui"}]
    BY <1>2, <1>3 DEF UiTypeOK, HistoryOK
  <2>3. disturbed' \in [Missions -> BOOLEAN]
    BY <1>2, <1>3 DEF UiTypeOK, HistoryOK
  <2> QED
    BY <2>1, <2>2, <2>3 DEF HistoryOK
<1> QED
  BY <1>4, <1>5, <1>6 DEF UiTypeOK

\* The interfaces hear of a question and of an end.
LEMMA HeardStepTyped ==
  ASSUME OrchAssumption, OperatorAssumption, tasks \in Seq(OperatorItem), UiTypeOK,
         AskStep \/ EndStep \/ OtherCommand
  PROVE  UiTypeOK' /\ ManagerStep(OperatorItem)
<1>1. CASE AskStep
  <2>1. Task \in OperatorItem /\ Task.type = "AskUserConfirmation"
    BY <1>1 DEF AskStep, Task
  <2>2. MissionOf[Task.by] \in Missions /\ Task.move \in Moves
    BY <2>1, CommandTyped DEF OrchAssumption
  <2>3. CliOK' /\ GuiOK' /\ PagesOK'
    BY <1>1, <2>2, AskShownTyped DEF AskStep
  <2>4. ManagerStep(OperatorItem)
    BY <1>1, TakeAttends DEF AskStep
  <2>5. HistoryOK'
    BY <1>1 DEF AskStep, historyVars, UiTypeOK, HistoryOK
  <2> QED
    BY <2>3, <2>4, <2>5 DEF UiTypeOK
<1>2. CASE EndStep
  <2>1. Task \in OperatorItem /\ Task.type = "SearchEnded"
    BY <1>2 DEF EndStep, HandleMissionEnded, Task
  <2>2. MissionOf[Task.by] \in Missions
    BY <2>1, CommandTyped DEF OrchAssumption
  <2>3. CliOK' /\ GuiOK' /\ PagesOK'
    BY <1>2, <2>2, EndShownTyped DEF EndStep
  <2>4. ManagerStep(OperatorItem)
    BY <1>2 DEF EndStep, ManagerStep
  <2>5. HistoryOK'
    BY <1>2 DEF EndStep, historyVars, UiTypeOK, HistoryOK
  <2> QED
    BY <2>3, <2>4, <2>5 DEF UiTypeOK
<1>3. CASE OtherCommand
  <2>1. ManagerStep(OperatorItem)
    BY <1>3, TakeAttends DEF OtherCommand
  <2>2. UNCHANGED <<uiVars, historyVars>>
    BY <1>3 DEF OtherCommand
  <2> QED
    BY <2>1, <2>2
    DEF uiVars, cliVars, pageVars, historyVars, UiTypeOK, CliOK, GuiOK, PagesOK, HistoryOK
<1> QED
  BY <1>1, <1>2, <1>3

LEMMA MissionStepTyped ==
  ASSUME OrchAssumption, OperatorAssumption, MissionInv(OperatorItem), Carries(OperatorItem),
         UiTypeOK, MissionStep
  PROVE  UiTypeOK' /\ ManagerStep(OperatorItem)
<1>1. PICK o \in Orchs :
        /\ AwaitedDone(o) \/ Handle(o)
        /\ asked' = IF state'[o] = "WAITING_FOR_USER" /\ state[o] # "WAITING_FOR_USER"
                    THEN [asked EXCEPT ![MissionOf[o]] = Task.move] ELSE asked
  BY DEF MissionStep
<1>2. UNCHANGED <<active, uiVars, answered_by, disturbed>>
  BY DEF MissionStep
<1>3. ManagerStep(OperatorItem)
  BY <1>1, <1>2 DEF ManagerStep
<1>4. asked' \in [Missions -> Moves \cup {NoMove}]
  <2>1. asked \in [Missions -> Moves \cup {NoMove}] /\ MissionOf[o] \in Missions
    BY DEF UiTypeOK, HistoryOK, OrchAssumption
  <2>2. CASE state'[o] = "WAITING_FOR_USER" /\ state[o] # "WAITING_FOR_USER"
    <3>1. Task.move \in Moves
      BY <1>1, <2>2, EntersAsking DEF MissionInv
    <3> QED
      BY <1>1, <2>1, <2>2, <3>1
  <2>3. CASE ~(state'[o] = "WAITING_FOR_USER" /\ state[o] # "WAITING_FOR_USER")
    BY <1>1, <2>1, <2>3
  <2> QED
    BY <2>2, <2>3
<1> QED
  BY <1>2, <1>3, <1>4
  DEF uiVars, cliVars, pageVars, UiTypeOK, CliOK, GuiOK, PagesOK, HistoryOK

\* What happens without the missions and the commands.
LEMMA OutsideStepTyped ==
  ASSUME OrchAssumption, OperatorAssumption, tasks \in Seq(OperatorItem), UiTypeOK,
         Environment \/ \E o \in Orchs : CliSearch(o) \/ ApiStartMission(o)
  PROVE  UiTypeOK' /\ ManagerStep(OperatorItem)
<1>1. CASE Environment
  <2>1. PICK o \in Subscribed : DroneAnswers(o) \/ ChatSpeaks
    BY <1>1 DEF Environment
  <2>2. o \in Orchs /\ UNCHANGED active
    BY <1>1 DEF Environment, Subscribed
  <2>3. ManagerStep(OperatorItem)
    BY <2>1, <2>2, AnswersSpeak, SpokenAttends
  <2>4. UNCHANGED <<uiVars, historyVars>>
    BY <1>1 DEF Environment
  <2> QED
    BY <2>3, <2>4
    DEF uiVars, cliVars, pageVars, historyVars, UiTypeOK, CliOK, GuiOK, PagesOK, HistoryOK
<1>2. CASE \E o \in Orchs : CliSearch(o)
  <2>1. PICK o \in Orchs : CliSearch(o)
    BY <1>2
  <2>2. ManagerStep(OperatorItem)
    BY <2>1, RequestAttends DEF CliSearch
  <2>3. CliOK'
    BY <2>1 DEF CliSearch, UiTypeOK, CliOK, OrchAssumption
  <2>4. UNCHANGED <<gui, pageVars, historyVars>>
    BY <2>1 DEF CliSearch
  <2> QED
    BY <2>2, <2>3, <2>4 DEF pageVars, historyVars, UiTypeOK, GuiOK, PagesOK, HistoryOK
<1>3. CASE \E o \in Orchs : ApiStartMission(o)
  <2>1. PICK o \in Orchs : ApiStartMission(o)
    BY <1>3
  <2>2. ManagerStep(OperatorItem)
    BY <2>1, RequestAttends DEF ApiStartMission
  <2>3. UNCHANGED <<uiVars, historyVars>>
    BY <2>1 DEF ApiStartMission
  <2> QED
    BY <2>2, <2>3
    DEF uiVars, cliVars, pageVars, historyVars, UiTypeOK, CliOK, GuiOK, PagesOK, HistoryOK
<1> QED
  BY <1>1, <1>2, <1>3

LEMMA OperatorSteps ==
  ASSUME OrchAssumption, ManagerAssumption, OperatorAssumption, MissionInv(OperatorItem),
         UiTypeOK, [OperatorNext]_operatorVars
  PROVE  UiTypeOK' /\ ManagerStep(OperatorItem)
<1>1. tasks \in Seq(OperatorItem) /\ Carries(OperatorItem)
  BY OperatorCarries DEF MissionInv
<1>2. CASE UNCHANGED operatorVars
  <2>1. UNCHANGED <<managerVars, uiVars, historyVars>>
    BY <1>2 DEF operatorVars
  <2>2. ManagerStep(OperatorItem)
    BY <1>1, <2>1, TakenAttends DEF managerVars, vars
  <2> QED
    BY <2>1, <2>2
    DEF uiVars, cliVars, pageVars, historyVars, UiTypeOK, CliOK, GuiOK, PagesOK, HistoryOK
<1>3. CASE StartStep
  BY <1>1, <1>3, StartStepTyped
<1>4. CASE AskStep \/ EndStep \/ OtherCommand
  BY <1>1, <1>4, HeardStepTyped
<1>5. CASE MissionStep
  BY <1>1, <1>5, MissionStepTyped
<1>6. CASE Environment \/ \E o \in Orchs : CliSearch(o) \/ ApiStartMission(o)
  BY <1>1, <1>6, OutsideStepTyped
<1>7. CASE CliDecides
  BY <1>1, <1>7, CliDecidesTyped
<1>8. CASE \E b \in Browsers : ReceiveClick(b)
  BY <1>1, <1>8, ReceiveClickTyped
<1>9. CASE \E b \in Browsers : \/ ReceiveState(b) \/ ClosePage(b) \/ Click(b)
                               \/ \E m \in Missions : OpenPage(b, m)
  <2>1. PICK b \in Browsers : \/ ReceiveState(b) \/ ClosePage(b) \/ Click(b)
                              \/ \E m \in Missions : OpenPage(b, m)
    BY <1>9
  <2>2. UiTypeOK'
    BY <2>1, PageStepTyped
  <2>3. UNCHANGED managerVars
    BY <2>1 DEF ReceiveState, ClosePage, Click, OpenPage
  <2>4. ManagerStep(OperatorItem)
    BY <1>1, <2>3, TakenAttends DEF managerVars, vars
  <2> QED
    BY <2>2, <2>4
<1> QED
  BY <1>2, <1>3, <1>4, <1>5, <1>6, <1>7, <1>8, <1>9 DEF OperatorNext

LEMMA OperatorStart ==
  ASSUME OrchAssumption, OperatorAssumption, OperatorInit
  PROVE  MissionInv(OperatorItem) /\ UiTypeOK
<1>1. MissionInv(OperatorItem)
  BY MissionInit DEF OperatorInit, ManagerInit
<1>2. CliOK /\ HistoryOK
  BY DEF OperatorInit, CliOK, HistoryOK
<1>3. Unknown \in View /\ ~Unknown.waiting /\ ClosedPage \in Page /\ ~ClosedPage.waiting
  BY DEF Unknown, View, ClosedPage, Page
<1>4. GuiOK
  BY <1>3 DEF OperatorInit, GuiOK
<1>5. <<>> \in Seq(View) /\ <<>> \in Seq(Decisions)
  OBVIOUS
<1>6. PagesOK
  BY <1>3, <1>5 DEF OperatorInit, PagesOK
<1> QED
  BY <1>1, <1>2, <1>4, <1>6 DEF UiTypeOK

LEMMA OperatorMissions == OperatorSpec => [](MissionInv(OperatorItem) /\ UiTypeOK)
<1> DEFINE Inv == MissionInv(OperatorItem) /\ UiTypeOK
<1>1. OperatorInit => Inv
  BY OrchAssumption, OperatorAssumption, OperatorStart
<1>2. Inv /\ [OperatorNext]_operatorVars => Inv'
  <2>1. MissionInv(OperatorItem) => tasks \in Seq(OperatorItem)
    BY DEF MissionInv
  <2> QED
    BY <2>1, OrchAssumption, ManagerAssumption, OperatorAssumption, OperatorCarries,
       OperatorSteps, ManagerIsMission, MissionNextInv
<1> QED
  BY <1>1, <1>2, PTL DEF OperatorSpec

LEMMA OperatorRuns ==
  ASSUME CalmStarts
  PROVE  OperatorSpec => []RunsInv
<1> DEFINE Inv == MissionInv(OperatorItem) /\ UiTypeOK
<1>1. OperatorInit => RunsInv
  BY RunsInit DEF OperatorInit
<1>2. Inv /\ RunsInv /\ [OperatorNext]_operatorVars => RunsInv'
  BY OrchAssumption, ManagerAssumption, OperatorAssumption, OperatorSteps, RunsStep
<1> QED
  BY <1>1, <1>2, OperatorMissions, PTL DEF OperatorSpec

-----------------------------------------------------------------------------
(* The theorems about the manager *)

(* An id is held by one run: as long as starts do not fail, two             *)
(* orchestrators of one mission never run together, whatever is requested   *)
(* while a run ends and whatever is queued.                                 *)
THEOREM OneRunPerId ==
  ASSUME CalmStarts
  PROVE  OperatorSpec => []OneLivePerMission
<1>1. UiTypeOK /\ MissionInv(OperatorItem) /\ RunsInv => OneLivePerMission
  BY RunsSay DEF MissionInv
<1> QED
  BY <1>1, OperatorMissions, OperatorRuns, PTL

(* A run keeps its registration and its conversation: the SearchEnded and   *)
(* the DeleteSession of an earlier run of its id are gone when it begins.   *)
THEOREM EarlierRunIsOver ==
  ASSUME CalmStarts
  PROVE  OperatorSpec => []RunsAreSeparate
<1>1. UiTypeOK /\ MissionInv(OperatorItem) /\ RunsInv => RunsAreSeparate
  BY RunsSay DEF MissionInv
<1> QED
  BY <1>1, OperatorMissions, OperatorRuns, PTL

(* An id is not lost: it is registered only while a run holds it or its     *)
(* SearchEnded is queued.                                                   *)
THEOREM IdComesFree ==
  ASSUME CalmStarts
  PROVE  OperatorSpec => []IdIsReleased
<1>1. UiTypeOK /\ MissionInv(OperatorItem) /\ RunsInv => IdIsReleased
  BY RunsSay DEF MissionInv
<1> QED
  BY <1>1, OperatorMissions, OperatorRuns, PTL

(* The same of the manager alone, whose missions meet any event.            *)
THEOREM ManagerKeepsRunsApart ==
  ASSUME CalmStarts
  PROVE  ManagerSpec => [](OneLivePerMission /\ RunsAreSeparate /\ IdIsReleased)
<1>1. MissionInv(OperatorItem) /\ RunsInv
        => OneLivePerMission /\ RunsAreSeparate /\ IdIsReleased
  BY RunsSay DEF MissionInv
<1> QED
  BY <1>1, ManagerMissions, ManagerRuns, PTL

(* Behind the manager and the interfaces, with late clicks, repeated        *)
(* answers and failing starts, each mission still keeps its promise.        *)
THEOREM OperatorKeepsPromise == OperatorSpec => KeepsPromise
<1>1. OperatorInit => Init
  BY DEF OperatorInit, ManagerInit
<1>2. MissionInv(OperatorItem) /\ UiTypeOK /\ [OperatorNext]_operatorVars
        => [Promise!Next]_(Promise!promiseVars)
  <2>1. MissionInv(OperatorItem) => tasks \in Seq(OperatorItem)
    BY DEF MissionInv
  <2> QED
    BY <2>1, OrchAssumption, ManagerAssumption, OperatorAssumption, OperatorCarries,
       OperatorSteps, ManagerIsMission, PromiseStep
<1> QED
  BY <1>1, <1>2, PromiseInit, OperatorMissions, PTL
  DEF OperatorSpec, KeepsPromise, Promise!Spec

-----------------------------------------------------------------------------
(* The pages *)

\* The last state on its way to a page is the server's; a page that has received
\* them all shows it, up to the buttons its own click has hidden.
Agrees(p, view) == /\ p.waiting = view.waiting
                   /\ view.waiting => p.move = view.move
PageUpToDate(b) ==
  page[b].mission # Nothing =>
    IF to_page[b] # <<>>
    THEN to_page[b][Len(to_page[b])] = gui[page[b].mission]
    ELSE \/ Agrees(page[b], gui[page[b].mission])
         \/ clicks[b] # <<>> /\ ~page[b].waiting
PagesInv == \A b \in Browsers : PageUpToDate(b)

\* A step shows a state, or is a page's own, or does not concern the pages.
LEMMA PagesHear ==
  ASSUME OrchAssumption, ManagerAssumption, tasks \in Seq(OperatorItem), UiTypeOK,
         [OperatorNext]_operatorVars
  PROVE  \/ UNCHANGED <<gui, pageVars>>
         \/ \E m \in Missions, view \in View : Show(m, view) /\ UNCHANGED <<page, clicks>>
         \/ \E b \in Browsers : \/ ReceiveState(b) \/ ClosePage(b) \/ Click(b) \/ ReceiveClick(b)
                                \/ \E m \in Missions : OpenPage(b, m)
<1> DEFINE Shows == \E m \in Missions, view \in View :
                      Show(m, view) /\ UNCHANGED <<page, clicks>>
<1>1. CASE UNCHANGED operatorVars
  BY <1>1 DEF operatorVars, uiVars
<1>2. CASE StartStep
  <2>1. Task \in OperatorItem /\ Task.type = "StartMission"
    BY <1>2 DEF StartStep, Task
  <2>2. MissionOf[Task.by] \in Missions
    BY <2>1, RequestTyped DEF OrchAssumption
  <2>3. [gui[MissionOf[Task.by]] EXCEPT !.known = TRUE, !.waiting = FALSE] \in View
    BY <2>2 DEF UiTypeOK, GuiOK, View
  <2>4. Shows
    BY <1>2, <2>2, <2>3 DEF StartStep, MissionStartShown
  <2> QED
    BY <2>4
<1>3. CASE AskStep
  <2>1. Task \in OperatorItem /\ Task.type = "AskUserConfirmation"
    BY <1>3 DEF AskStep, Task
  <2>2. MissionOf[Task.by] \in Missions /\ Task.move \in Moves
    BY <2>1, CommandTyped DEF OrchAssumption
  <2>3. [known |-> TRUE, waiting |-> TRUE, move |-> Task.move] \in View
    BY <2>2 DEF View
  <2>4. Shows
    BY <1>3, <2>2, <2>3 DEF AskStep, AskConfirmation
  <2> QED
    BY <2>4
<1>4. CASE EndStep
  <2>1. Task \in OperatorItem /\ Task.type = "SearchEnded"
    BY <1>4 DEF EndStep, HandleMissionEnded, Task
  <2>2. MissionOf[Task.by] \in Missions
    BY <2>1, CommandTyped DEF OrchAssumption
  <2>3. [gui[MissionOf[Task.by]] EXCEPT !.known = TRUE, !.waiting = FALSE] \in View
    BY <2>2 DEF UiTypeOK, GuiOK, View
  <2>4. Shows
    BY <1>4, <2>2, <2>3 DEF EndStep, SearchEndShown
  <2> QED
    BY <2>4
<1>5. CASE MissionStep \/ OtherCommand \/ Environment
  BY <1>5 DEF MissionStep, OtherCommand, Environment, uiVars
<1>6. CASE CliDecides \/ \E o \in Orchs : CliSearch(o) \/ ApiStartMission(o)
  BY <1>6 DEF CliDecides, CliSearch, ApiStartMission, uiVars
<1> QED
  BY <1>1, <1>2, <1>3, <1>4, <1>5, <1>6 DEF OperatorNext

\* A page that has not been told anything.
LEMMA PageKept ==
  ASSUME PagesInv, NEW b \in Browsers, page'[b] = page[b], to_page'[b] = to_page[b],
         clicks'[b] = clicks[b],
         page[b].mission # Nothing => gui'[page[b].mission] = gui[page[b].mission]
  PROVE  PageUpToDate(b)'
  BY DEF PagesInv, PageUpToDate, Agrees

\* A page the server has just sent its state to.
LEMMA PageTold ==
  ASSUME NEW b \in Browsers, UiTypeOK, NEW view \in View, to_page'[b] = Append(to_page[b], view),
         page'[b].mission # Nothing => gui'[page'[b].mission] = view
  PROVE  PageUpToDate(b)'
<1>1. to_page[b] \in Seq(View)
  BY DEF UiTypeOK, PagesOK
<1>2. to_page'[b] # <<>> /\ to_page'[b][Len(to_page'[b])] = view
  BY <1>1
<1> QED
  BY <1>2 DEF PageUpToDate

LEMMA PagesShown ==
  ASSUME OperatorAssumption, UiTypeOK, PagesInv, NEW m \in Missions, NEW view \in View,
         Show(m, view), page' = page, NEW b \in Browsers,
         clicks'[b] = clicks[b] \/ page[b].mission = m
  PROVE  PageUpToDate(b)'
<1>1. /\ gui' = [gui EXCEPT ![m] = view] /\ gui \in [Missions -> View]
      /\ page[b].mission \in Missions \cup {Nothing}
  BY DEF Show, UiTypeOK, GuiOK, PagesOK, Page
<1>2. CASE page[b].mission = m
  <2>1. to_page'[b] = Append(to_page[b], view)
    BY <1>2 DEF Show, Broadcast, Watching
  <2>2. gui'[page'[b].mission] = view
    BY <1>1, <1>2
  <2> QED
    BY <2>1, <2>2, PageTold
<1>3. CASE page[b].mission # m
  <2>1. to_page'[b] = to_page[b]
    BY <1>3 DEF Show, Broadcast, Watching
  <2>2. page[b].mission # Nothing => gui'[page[b].mission] = gui[page[b].mission]
    BY <1>1, <1>3
  <2> QED
    BY <1>3, <2>1, <2>2, PageKept
<1> QED
  BY <1>2, <1>3

LEMMA PagesStep ==
  ASSUME OperatorAssumption, UiTypeOK, PagesInv, NEW b \in Browsers,
         \/ ReceiveState(b) \/ ClosePage(b) \/ Click(b)
         \/ \E m \in Missions : OpenPage(b, m)
  PROVE  PagesInv'
<1> USE DEF PagesInv
<1>1. /\ page \in [Browsers -> Page] /\ to_page \in [Browsers -> Seq(View)]
      /\ clicks \in [Browsers -> Seq(Decisions)] /\ gui \in [Missions -> View] /\ gui' = gui
      /\ page[b].mission = Nothing => to_page[b] = <<>>
  BY DEF UiTypeOK, PagesOK, GuiOK, ReceiveState, ClosePage, Click, OpenPage
<1>2. CASE ReceiveState(b)
  <2>1. \A c \in Browsers \ {b} : page'[c] = page[c] /\ to_page'[c] = to_page[c]
                                  /\ clicks'[c] = clicks[c]
    BY <1>1, <1>2 DEF ReceiveState
  <2>2. /\ to_page[b] # <<>> /\ to_page'[b] = Tail(to_page[b]) /\ page[b].mission # Nothing
        /\ page' = [page EXCEPT ![b] = [page[b] EXCEPT !.waiting = Head(to_page[b]).waiting,
                                                       !.move = Head(to_page[b]).move]]
    BY <1>1, <1>2 DEF ReceiveState
  <2> DEFINE view == Head(to_page[b])
  <2>3. view \in View
    BY <1>1, <2>2
  <2> HIDE DEF view
  <2>4. /\ page'[b].mission = page[b].mission /\ page'[b].waiting = view.waiting
        /\ page'[b].move = view.move
    <3>1. page'[b] = [page[b] EXCEPT !.waiting = view.waiting, !.move = view.move]
      BY <1>1, <2>2 DEF view
    <3>2. page[b] \in Page
      BY <1>1
    <3> QED
      BY <3>1, <3>2 DEF Page
  <2>5. to_page[b][Len(to_page[b])] = gui[page[b].mission]
    BY <2>2 DEF PageUpToDate
  <2>6. PageUpToDate(b)'
    <3>1. CASE to_page'[b] = <<>>
      <4> DEFINE q == to_page[b]
      <4>1. q \in Seq(View) /\ q # <<>> /\ Tail(q) = <<>>
        BY <1>1, <2>2, <3>1
      <4>2. view = q[1]
        BY DEF view
      <4> HIDE DEF q
      <4>3. Len(q) = 1
        <5>1. Len(Tail(q)) = Len(q) - 1 /\ Len(q) \in Nat
          BY <4>1
        <5>2. Len(<<>>) = 0
          OBVIOUS
        <5>3. Len(Tail(q)) = 0
          BY <4>1, <5>2, Zenon
        <5> QED
          BY <5>1, <5>3
      <4>4. view = to_page[b][Len(to_page[b])]
        BY <4>2, <4>3 DEF q
      <4> QED
        BY <1>1, <2>4, <2>5, <3>1, <4>4 DEF PageUpToDate, Agrees
    <3>2. CASE to_page'[b] # <<>>
      <4>1. to_page'[b][Len(to_page'[b])] = to_page[b][Len(to_page[b])]
        BY <1>1, <2>2, <3>2
      <4> QED
        BY <1>1, <2>4, <2>5, <3>2, <4>1 DEF PageUpToDate
    <3> QED
      BY <3>1, <3>2
  <2> QED
    BY <1>1, <2>1, <2>6, PageKept
<1>3. CASE ClosePage(b)
  <2>1. \A c \in Browsers \ {b} : page'[c] = page[c] /\ to_page'[c] = to_page[c]
                                  /\ clicks'[c] = clicks[c]
    BY <1>1, <1>3 DEF ClosePage
  <2>2. PageUpToDate(b)'
    BY <1>1, <1>3 DEF ClosePage, ClosedPage, PageUpToDate
  <2> QED
    BY <1>1, <2>1, <2>2, PageKept
<1>4. CASE Click(b)
  <2>1. \A c \in Browsers \ {b} : page'[c] = page[c] /\ to_page'[c] = to_page[c]
                                  /\ clicks'[c] = clicks[c]
    BY <1>1, <1>4 DEF Click
  <2>2. page' = [page EXCEPT ![b] = [page[b] EXCEPT !.waiting = FALSE]] /\ to_page' = to_page
    BY <1>1, <1>4 DEF Click
  <2>3. page'[b].mission = page[b].mission /\ ~page'[b].waiting
    BY <1>1, <2>2 DEF Page
  <2>4. clicks'[b] # <<>>
    BY <1>1, <1>4 DEF Click
  <2>5. PageUpToDate(b)'
    BY <1>1, <2>2, <2>3, <2>4 DEF PageUpToDate
  <2> QED
    BY <1>1, <2>1, <2>5, PageKept
<1>5. CASE \E m \in Missions : OpenPage(b, m)
  <2>1. PICK m \in Missions : OpenPage(b, m)
    BY <1>5
  <2>2. page' = [page EXCEPT ![b] = [page[b] EXCEPT !.mission = m]] /\ clicks' = clicks
    BY <1>1, <2>1 DEF OpenPage
  <2>3. gui[m] \in View /\ page'[b].mission = m
    BY <1>1, <2>2 DEF Page
  <2>4. ASSUME NEW c \in Browsers, c \in Watching(m) \cup {b}
        PROVE  to_page'[c] = Append(to_page[c], gui[m]) /\ page'[c].mission = m
    BY <1>1, <2>1, <2>2, <2>3, <2>4 DEF OpenPage, Watching
  <2>5. ASSUME NEW c \in Browsers, c \notin Watching(m) \cup {b}
        PROVE  to_page'[c] = to_page[c] /\ page'[c] = page[c]
    BY <1>1, <2>1, <2>2, <2>5 DEF OpenPage, Watching
  <2>6. ASSUME NEW c \in Browsers
        PROVE  PageUpToDate(c)'
    <3>1. CASE c \in Watching(m) \cup {b}
      BY <1>1, <2>3, <2>4, <3>1, PageTold
    <3>2. CASE c \notin Watching(m) \cup {b}
      BY <1>1, <2>2, <2>5, <3>2, PageKept
    <3> QED
      BY <3>1, <3>2
  <2> QED
    BY <2>6
<1> QED
  BY <1>2, <1>3, <1>4, <1>5

\* A click is taken for an answer, which all pages are told, or dropped.
LEMMA PagesClick ==
  ASSUME OperatorAssumption, UiTypeOK, PagesInv, NEW b \in Browsers, ReceiveClick(b)
  PROVE  PagesInv'
<1> DEFINE m == ClickOn(b)
           view == [gui[m] EXCEPT !.waiting = FALSE, !.move = NoMove]
<1>1. /\ page \in [Browsers -> Page] /\ clicks \in [Browsers -> Seq(Decisions)]
      /\ gui \in [Missions -> View] /\ page' = page /\ m = page[b].mission
      /\ clicks[b] # <<>> /\ clicks' = [clicks EXCEPT ![b] = Tail(clicks[b])]
      /\ page[b].mission = Nothing => clicks[b] = <<>>
  BY DEF UiTypeOK, PagesOK, GuiOK, ReceiveClick, ClickOn
<1>2. m \in Missions /\ m # Nothing
  BY <1>1 DEF Page
<1>3. \A c \in Browsers \ {b} : clicks'[c] = clicks[c]
  BY <1>1
<1>4. CASE gui[m].waiting
  <2>1. Show(m, view)
    BY <1>4 DEF ReceiveClick
  <2>2. view \in View
    BY <1>1, <1>2 DEF View
  <2> HIDE DEF view, m
  <2>3. \A c \in Browsers : clicks'[c] = clicks[c] \/ page[c].mission = m
    BY <1>1, <1>3
  <2> QED
    BY <1>1, <1>2, <2>1, <2>2, <2>3, PagesShown DEF PagesInv
<1>5. CASE ~gui[m].waiting
  <2>1. gui' = gui /\ to_page' = to_page
    BY <1>5 DEF ReceiveClick
  <2>2. PageUpToDate(b)
    BY DEF PagesInv
  <2> DEFINE p == page[b]
  <2>3. p.waiting \in BOOLEAN /\ gui[m].waiting \in BOOLEAN /\ p.mission = m
    BY <1>1, <1>2 DEF Page, View
  <2>4. to_page[b] = <<>> => Agrees(p, gui[m])
    BY <1>1, <1>2, <1>5, <2>2, <2>3 DEF PageUpToDate, Agrees
  <2>5. PageUpToDate(b)'
    <3>1. page'[b] = p /\ gui'[page'[b].mission] = gui[m] /\ to_page'[b] = to_page[b]
      BY <1>1, <2>1
    <3>2. to_page[b] # <<>> => to_page[b][Len(to_page[b])] = gui[m]
      BY <1>2, <2>2, <2>3 DEF PageUpToDate
    <3> HIDE DEF p, m
    <3>3. CASE to_page[b] # <<>>
      BY <3>1, <3>2, <3>3 DEF PageUpToDate
    <3>4. CASE to_page[b] = <<>>
      BY <2>4, <3>1, <3>4 DEF PageUpToDate, Agrees
    <3> QED
      BY <3>3, <3>4
  <2> QED
    BY <1>1, <1>3, <2>1, <2>5, PageKept DEF PagesInv
<1> QED
  BY <1>4, <1>5

(* No page is left with a question that is closed, or without one that is   *)
(* open, for any number of pages that open, close and answer at any time:   *)
(* once it has received everything it shows what the server holds.          *)
THEOREM PagesInStep == OperatorSpec => []PagesCatchUp
<1> DEFINE Inv == MissionInv(OperatorItem) /\ UiTypeOK
<1>1. OperatorInit => PagesInv
  BY DEF OperatorInit, PagesInv, PageUpToDate, ClosedPage
<1>2. Inv /\ PagesInv /\ [OperatorNext]_operatorVars => PagesInv'
  <2> SUFFICES ASSUME Inv, PagesInv, [OperatorNext]_operatorVars
               PROVE  PagesInv'
    OBVIOUS
  <2>1. CASE UNCHANGED <<gui, pageVars>>
    BY <2>1 DEF pageVars, PagesInv, PageUpToDate, Agrees
  <2>2. CASE \E m \in Missions, view \in View : Show(m, view) /\ UNCHANGED <<page, clicks>>
    BY <2>2, OperatorAssumption, PagesShown DEF PagesInv
  <2>3. CASE \E b \in Browsers : \/ ReceiveState(b) \/ ClosePage(b) \/ Click(b)
                                 \/ ReceiveClick(b) \/ \E m \in Missions : OpenPage(b, m)
    BY <2>3, OperatorAssumption, PagesStep, PagesClick
  <2>4. tasks \in Seq(OperatorItem)
    BY DEF MissionInv
  <2> QED
    BY <2>1, <2>2, <2>3, <2>4, OrchAssumption, ManagerAssumption, PagesHear
<1>3. PagesInv => PagesCatchUp
  BY DEF PagesInv, PageUpToDate, Agrees, PagesCatchUp
<1> QED
  BY <1>1, <1>2, <1>3, OperatorMissions, PTL DEF OperatorSpec

-----------------------------------------------------------------------------
(* What the interfaces show of a run *)

LEMMA ConfirmingIsTopic == Confirming \in Topics
  BY DEF Topics

LEMMA ConfirmingOpens ==
  ASSUME NEW p, ~Begins(p)
  PROVE  ~Opens(Confirming, p)
  BY DEF Begins, Opens, Confirming, Analysing

Shown(c, m) == IF c = "gui" THEN gui[m].waiting
                            ELSE pending_confirmation # NoMove /\ active_mission_id = m
ShownMove(c, m) == IF c = "gui" THEN gui[m].move ELSE pending_confirmation

\* A run that waits for the operator can be answered.
Held(o) ==
  state[o] = "WAITING_FOR_USER" /\ ~disturbed[MissionOf[o]]
    => gui[MissionOf[o]].waiting \/ ~None(Confirming, tasks, o)

\* While c alone answers, the proposal is in one place: on its way to the
\* interfaces, shown by c, on its way back, or approved.
Alone(c, o) ==
  LET m == MissionOf[o]
  IN  answered_by[m] \subseteq {c} =>
        /\ state[o] # "WAITING_FOR_USER" => None(Confirming, tasks, o)
        /\ Only(Confirming, tasks, o, asked[m])
        /\ Shown(c, m) => /\ state[o] = "WAITING_FOR_USER" /\ None(Confirming, tasks, o)
                          /\ ShownMove(c, m) = asked[m]
        /\ MoveOpen(o) => current_move[o] = asked[m]

Faces(o) == Held(o) /\ Alone("gui", o) /\ Alone("cli", o)
CliInv == pending_confirmation # NoMove => active_mission_id \in active
FacesInv == CliInv /\ \A o \in Subscribed : Faces(o)

\* Nothing happens to the question of o, or it is wiped by a start that is refused.
Undisturbed(o) ==
  LET m == MissionOf[o]
  IN  /\ state'[o] = state[o] /\ current_move'[o] = current_move[o]
      /\ pending_command'[o] = pending_command[o]
      /\ asked'[m] = asked[m] /\ answered_by'[m] = answered_by[m]
      /\ \/ gui'[m] = gui[m] /\ disturbed'[m] = disturbed[m]
         \/ ~gui'[m].waiting /\ disturbed'[m]
      /\ \/ pending_confirmation' = pending_confirmation /\ active_mission_id' = active_mission_id
         \/ pending_confirmation' = NoMove
         \/ active_mission_id' # m

LEMMA FacesKept ==
  ASSUME NEW o, Faces(o), Same(Confirming, tasks, tasks', o), Undisturbed(o)
  PROVE  Faces(o)'
<1> DEFINE m == MissionOf[o]
<1>1. /\ None(Confirming, tasks', o) <=> None(Confirming, tasks, o)
      /\ \A move : Only(Confirming, tasks, o, move) => Only(Confirming, tasks', o, move)
  BY DEF Same, Fewer
<1>2. /\ gui'[m].waiting => gui'[m] = gui[m]
      /\ disturbed[m] => disturbed'[m]
      /\ MoveOpen(o)' <=> MoveOpen(o)
      /\ state'[o] = state[o] /\ current_move'[o] = current_move[o]
      /\ asked'[m] = asked[m] /\ answered_by'[m] = answered_by[m]
  BY DEF Undisturbed, MoveOpen
<1>3. /\ Shown("gui", m)' => Shown("gui", m) /\ ShownMove("gui", m)' = ShownMove("gui", m)
      /\ Shown("cli", m)' => Shown("cli", m) /\ ShownMove("cli", m)' = ShownMove("cli", m)
  BY <1>2 DEF Shown, ShownMove, Undisturbed
<1>4. Held(o)'
  <2>1. gui[m].waiting => gui'[m].waiting \/ disturbed'[m]
    BY DEF Undisturbed
  <2> QED
    BY <1>1, <1>2, <2>1 DEF Faces, Held
<1>5. Alone("gui", o)' /\ Alone("cli", o)'
  BY <1>1, <1>2, <1>3 DEF Faces, Alone
<1> QED
  BY <1>4, <1>5 DEF Faces

\* Nothing concerns the interfaces or the missions.
LEMMA FacesIdle ==
  ASSUME FacesInv, UNCHANGED <<orchVars, active, cliVars, gui, historyVars>>,
         \A o \in Orchs : Same(Confirming, tasks, tasks', o)
  PROVE  FacesInv'
<1>1. Subscribed' = Subscribed /\ Subscribed \subseteq Orchs
  BY DEF orchVars, Subscribed
<1>2. \A o \in Orchs : Undisturbed(o)
  BY DEF orchVars, cliVars, historyVars, Undisturbed
<1>3. CliInv'
  BY DEF FacesInv, CliInv, cliVars
<1> QED
  BY <1>1, <1>2, <1>3, FacesKept DEF FacesInv

LEMMA SameAll ==
  ASSUME NEW q, NEW o
  PROVE  Same(Confirming, q, q, o)
  BY DEF Same, Fewer

\* A task at the head that is no question is taken.
LEMMA TakenTokens ==
  ASSUME NEW Q, tasks \in Seq(Q), tasks # <<>>, tasks' = Tail(tasks), NEW o,
         Task.type \notin {"AskUserConfirmation", "UserDecisionReceived"}
  PROVE  Same(Confirming, tasks, tasks', o)
<1>1. ~Token(Confirming, Head(tasks), o)
  BY DEF Token, Confirming, Task
<1> QED
  BY ConfirmingIsTopic, <1>1, TailTokens

LEMMA PublishedTokens ==
  ASSUME NEW Q, tasks \in Seq(Q), NEW x \in Q, NEW o, ~Token(Confirming, x, o),
         tasks' = Publish(tasks, x) \/ tasks' = Append(tasks, x)
  PROVE  Same(Confirming, tasks, tasks', o)
  BY ConfirmingIsTopic, SameAll, AppendTokens DEF Publish

LEMMA FacesCommand ==
  ASSUME tasks \in Seq(OperatorItem), FacesInv, OtherCommand
  PROVE  FacesInv'
<1>1. /\ tasks # <<>> /\ tasks' = Tail(tasks)
      /\ Task.type \notin {"AskUserConfirmation", "UserDecisionReceived"}
      /\ UNCHANGED <<orchVars, active, uiVars, historyVars>>
  BY CommandIsNoEvent DEF OtherCommand, TakeCommand, EventTypes, MissionEventTypes
<1> QED
  BY <1>1, TakenTokens, FacesIdle DEF uiVars

LEMMA FacesEnvironment ==
  ASSUME tasks \in Seq(OperatorItem), OrchAssumption, FacesInv, Environment
  PROVE  FacesInv'
<1>1. PICK o \in Subscribed :
        \/ DroneAnswers(o)
        \/ ChatSpeaks
  BY DEF Environment
<1>2. DroneSpeaks \/ ChatSpeaks
  BY <1>1, AnswersSpeak DEF Subscribed
<1>3. PICK e \in Event : Announce(e) /\ e.type # "UserDecisionReceived"
  BY <1>2, Spoken
<1>4. e \in OperatorItem /\ tasks' = Publish(tasks, e) /\ UNCHANGED orchVars
  BY <1>3, ItemIs DEF OperatorItem, Announce
<1>5. \A p \in Orchs : ~Token(Confirming, e, p)
  BY <1>3 DEF Token, Confirming, Event, DroneNotice, ChatNotice
<1> QED
  BY <1>4, <1>5, PublishedTokens, FacesIdle DEF Environment, uiVars

LEMMA FacesRequest ==
  ASSUME tasks \in Seq(OperatorItem), FacesInv, NEW p \in Orchs,
         CliSearch(p) \/ ApiStartMission(p)
  PROVE  FacesInv'
<1>1. RequestStart(p)
  BY DEF CliSearch, ApiStartMission
<1>2. PICK x \in StartRequest : tasks' = Append(tasks, x) /\ x.type = "StartMission"
  BY <1>1 DEF RequestStart, StartRequest
<1>3. \A o \in Orchs : Same(Confirming, tasks, tasks', o)
  BY <1>2, PublishedTokens DEF OperatorItem, Token, Confirming
<1>4. CASE ApiStartMission(p)
  BY <1>1, <1>3, <1>4, FacesIdle DEF ApiStartMission, RequestStart, uiVars
<1>5. CASE CliSearch(p)
  <2>1. /\ UNCHANGED <<orchVars, active, pending_confirmation, gui, historyVars>>
        /\ pending_confirmation = NoMove
    BY <1>1, <1>5 DEF CliSearch, RequestStart
  <2>2. \A o \in Orchs : Undisturbed(o)
    BY <2>1 DEF orchVars, historyVars, Undisturbed
  <2>3. Subscribed' = Subscribed /\ Subscribed \subseteq Orchs
    BY <2>1 DEF orchVars, Subscribed
  <2>4. CliInv'
    BY <2>1 DEF CliInv
  <2> QED
    BY <1>3, <2>2, <2>3, <2>4, FacesKept DEF FacesInv
<1> QED
  BY <1>4, <1>5

\* A mission's end is shown when its id comes free.
LEMMA FacesEnd ==
  ASSUME OrchAssumption, tasks \in Seq(OperatorItem), UiTypeOK, RunsInv, FacesInv, EndStep
  PROVE  FacesInv'
<1> DEFINE m == MissionOf[Task.by]
<1>1. /\ tasks # <<>> /\ tasks' = Tail(tasks) /\ Task.type = "SearchEnded" /\ Task = tasks[1]
      /\ active' = active \ {m} /\ UNCHANGED orchVars /\ UNCHANGED historyVars
  BY DEF EndStep, HandleMissionEnded, Task
<1>2. \A o \in Subscribed : MissionOf[o] # m
  BY <1>1 DEF RunsInv, Runs, Ending, Ended
<1>3. gui' = [gui EXCEPT ![m] = [gui[m] EXCEPT !.known = TRUE, !.waiting = FALSE]]
  BY DEF EndStep, SearchEndShown, Show
<1>4. IF active_mission_id = m
      THEN active_mission_id' = Nothing /\ pending_confirmation' = NoMove
      ELSE UNCHANGED cliVars
  BY DEF EndStep, SearchEndShown
<1> HIDE DEF m
<1>5. Subscribed' = Subscribed /\ Subscribed \subseteq Orchs
  BY <1>1 DEF orchVars, Subscribed
<1>6. ASSUME NEW o \in Subscribed
      PROVE  Undisturbed(o)
  <2>1. MissionOf[o] \in Missions /\ gui \in [Missions -> View]
    BY <1>5 DEF OrchAssumption, UiTypeOK, GuiOK
  <2>2. gui'[MissionOf[o]] = gui[MissionOf[o]]
    BY <1>2, <1>3, <2>1
  <2> QED
    BY <1>1, <1>4, <2>2 DEF orchVars, historyVars, cliVars, Undisturbed
<1>7. \A o \in Orchs : Same(Confirming, tasks, tasks', o)
  BY <1>1, TakenTokens
<1>8. CliInv'
  BY <1>1, <1>4 DEF FacesInv, CliInv, cliVars
<1> QED
  BY <1>5, <1>6, <1>7, <1>8, FacesKept DEF FacesInv

\* A start that is accepted finds nothing of an earlier run.
LEMMA NoneBeforeStart ==
  ASSUME NEW Q, MissionInv(Q), RunsInv, NEW o \in Orchs, state[o] = "NEW",
         MissionOf[o] \notin active
  PROVE  None(Confirming, tasks, o)
<1>1. ASSUME NEW i \in 1..Len(tasks), Asks(tasks, i), tasks[i].by = o
      PROVE  FALSE
  <2>1. o \notin Subscribed
    BY DEF Subscribed
  <2>2. PICK j \in 1..Len(tasks) : tasks[j] = Await(o, "SearchEnded")
    BY <1>1, <2>1 DEF RunsInv, Runs, Asking
  <2>3. Ended(tasks, j) /\ tasks[j].by = o
    BY <2>2 DEF Ended, Await
  <2> QED
    BY <2>3 DEF RunsInv, Runs, Ending
<1>2. ASSUME NEW i \in 1..Len(tasks), tasks[i].type = "UserDecisionReceived"
      PROVE  o \notin tasks[i].to
  BY <1>2 DEF MissionInv, Addressed, EventTypes, MissionEventTypes
<1> QED
  BY <1>1, <1>2 DEF None, Token, Confirming, Asks

LEMMA FacesStart ==
  ASSUME OrchAssumption, ManagerAssumption, CalmStarts, MissionInv(OperatorItem), UiTypeOK,
         RunsInv, FacesInv, StartStep, HandleStartMission
  PROVE  FacesInv'
<1>1. /\ tasks \in Seq(OperatorItem) /\ tasks # <<>> /\ Task \in OperatorItem
      /\ Task = tasks[1] /\ Task.type = "StartMission" /\ MissionOf[Task.by] \notin active
  BY DEF HandleStartMission, Task, MissionInv
<1>2. Task.by \in Orchs /\ Task.glimpses # 0 /\ Task.prompt_ok
  BY <1>1, RequestTyped
<1>p. PICK p \in Orchs : p = Task.by
  BY <1>2
<1> DEFINE m == MissionOf[p]
           x == Await(p, "CreateNewSession")
<1>q. m = MissionOf[Task.by] /\ m \notin active
  BY <1>1, <1>p
<1>3. /\ state[p] = "NEW" /\ state' = [state EXCEPT ![p] = "IDLE"]
      /\ tasks' = Append(Tail(tasks), x)
      /\ active' = active \cup {m} /\ UNCHANGED <<pending_command, current_move>>
  <2> QED
    BY <1>1, <1>2, <1>p DEF HandleStartMission, Start, Goto, MissionInv, MissionTypeOK
<1>4. /\ answered_by' = [answered_by EXCEPT ![m] = {}]
      /\ disturbed' = [disturbed EXCEPT ![m] = FALSE]
      /\ asked' = asked /\ cliVars' = cliVars
      /\ gui' = [gui EXCEPT ![m] = [gui[m] EXCEPT !.known = TRUE, !.waiting = FALSE]]
  <2>1. ~StartRefused
    BY <1>q DEF StartRefused
  <2> QED
    BY <1>q, <2>1 DEF StartStep, MissionStartShown, Show
<1>5. x \in OperatorItem /\ x.type = "CreateNewSession"
  <2>1. x \in SimpleCommand
    BY <1>2 DEF Await, SimpleCommand, Awaited
  <2> QED
    BY <2>1 DEF Await, OperatorItem, Item, Items
<1>6. m \in Missions /\ state \in [Orchs -> MissionState] /\ gui \in [Missions -> View]
      /\ answered_by \in [Missions -> SUBSET {"cli", "gui"}]
      /\ disturbed \in [Missions -> BOOLEAN]
  BY <1>2 DEF OrchAssumption, MissionInv, MissionTypeOK, UiTypeOK, GuiOK, HistoryOK
<1>7. None(Confirming, tasks, p)
  BY <1>q, <1>2, <1>3, NoneBeforeStart
<1> HIDE DEF m, x
<1>8. ASSUME NEW o \in Orchs
      PROVE  Same(Confirming, tasks, tasks', o)
  <2>1. ~Token(Confirming, Head(tasks), o)
    BY <1>1 DEF Token, Confirming, Task
  <2>2. Same(Confirming, tasks, Tail(tasks), o) /\ Tail(tasks) \in Seq(OperatorItem)
    BY ConfirmingIsTopic, <1>1, <2>1, TailTokens
  <2>3. ~Token(Confirming, x, o)
    BY <1>5 DEF Token, Confirming
  <2>4. Same(Confirming, Tail(tasks), Append(Tail(tasks), x), o)
    BY ConfirmingIsTopic, <1>5, <2>2, <2>3, AppendTokens
  <2> QED
    BY ConfirmingIsTopic, <1>3, <2>2, <2>4, SameMoves
<1>9. Subscribed' = Subscribed \cup {p} /\ Subscribed \subseteq Orchs
  BY <1>2, <1>3, <1>6 DEF Subscribed
<1>10. ASSUME NEW o \in Subscribed
       PROVE  Faces(o)'
  <2>1. o # p /\ MissionOf[o] # m /\ o \in Orchs /\ MissionOf[o] \in Missions
    BY <1>q, <1>3 DEF Subscribed, RunsInv, Runs, Registered, OrchAssumption
  <2>2. Undisturbed(o)
    BY <1>2, <1>3, <1>4, <1>6, <2>1 DEF Undisturbed, cliVars
  <2> QED
    BY <1>8, <2>1, <2>2, FacesKept DEF FacesInv
<1>11. Faces(p)'
  <2>1. None(Confirming, tasks', p)
    BY <1>2, <1>7, <1>8 DEF Same, Fewer
  <2>2. state'[p] = "IDLE" /\ ~gui'[m].waiting /\ m = MissionOf[p]
    <3>1. gui[m] \in View
      BY <1>6
    <3>2. ~[gui[m] EXCEPT !.known = TRUE, !.waiting = FALSE].waiting
      BY <3>1 DEF View
    <3> QED
      BY <1>2, <1>3, <1>4, <1>6, <3>2 DEF m
  <2>3. ~(pending_confirmation' # NoMove /\ active_mission_id' = m)
    BY <1>q, <1>4 DEF FacesInv, CliInv, cliVars
  <2>4. ~MoveOpen(p)' /\ Held(p)'
    BY <2>2 DEF MoveOpen, Held
  <2>5. Alone("gui", p)' /\ Alone("cli", p)'
    BY ConfirmingIsTopic, <2>1, <2>2, <2>3, <2>4, NoneIsOnly DEF Alone, Shown
  <2> QED
    BY <2>4, <2>5 DEF Faces
<1>12. CliInv'
  BY <1>3, <1>4 DEF FacesInv, CliInv, cliVars
<1> QED
  BY <1>9, <1>10, <1>11, <1>12 DEF FacesInv

\* A start that is refused wipes the question of the run it meets.
LEMMA FacesRefused ==
  ASSUME OrchAssumption, ManagerAssumption, tasks \in Seq(OperatorItem), UiTypeOK, FacesInv,
         StartStep, StartRefused
  PROVE  FacesInv'
<1> DEFINE m == MissionOf[Task.by]
<1>1. /\ tasks # <<>> /\ Task \in OperatorItem /\ Task.type = "StartMission"
      /\ tasks' = Tail(tasks) /\ UNCHANGED <<orchVars, active>> /\ m \in active
  BY DEF StartRefused, Task
<1>2. m \in Missions
  BY <1>1, RequestTyped DEF OrchAssumption
<1>3. ~HandleStartMission
  BY <1>1 DEF HandleStartMission
<1>4. /\ disturbed' = [disturbed EXCEPT ![m] = TRUE] /\ UNCHANGED <<answered_by, asked, cliVars>>
      /\ gui' = [gui EXCEPT ![m] = [gui[m] EXCEPT !.known = TRUE, !.waiting = FALSE]]
  BY <1>3 DEF StartStep, MissionStartShown, Show
<1>5. gui \in [Missions -> View] /\ disturbed \in [Missions -> BOOLEAN]
  BY DEF UiTypeOK, GuiOK, HistoryOK
<1> HIDE DEF m
<1>6. /\ disturbed'[m] /\ ~gui'[m].waiting
      /\ \A k \in Missions : k # m => gui'[k] = gui[k] /\ disturbed'[k] = disturbed[k]
  BY <1>2, <1>4, <1>5 DEF View
<1>7. \A o \in Orchs : MissionOf[o] \in Missions
  BY DEF OrchAssumption
<1>8. ASSUME NEW o \in Orchs
      PROVE  Undisturbed(o)
  <2>1. \/ gui'[MissionOf[o]] = gui[MissionOf[o]] /\ disturbed'[MissionOf[o]] = disturbed[MissionOf[o]]
        \/ ~gui'[MissionOf[o]].waiting /\ disturbed'[MissionOf[o]]
    BY <1>6, <1>7
  <2> QED
    BY <1>1, <1>4, <2>1 DEF orchVars, cliVars, Undisturbed
<1>9. \A o \in Orchs : Same(Confirming, tasks, tasks', o)
  BY <1>1, TakenTokens
<1>10. Subscribed' = Subscribed /\ Subscribed \subseteq Orchs /\ CliInv'
  BY <1>1, <1>4 DEF orchVars, Subscribed, FacesInv, CliInv, cliVars
<1> QED
  BY <1>8, <1>9, <1>10, FacesKept DEF FacesInv

\* A question is shown: by the GUI, and by the CLI if it watches the mission.
LEMMA FacesAsk ==
  ASSUME OrchAssumption, tasks \in Seq(OperatorItem), UiTypeOK, RunsInv, FacesInv, AskStep
  PROVE  FacesInv'
<1>1. /\ tasks # <<>> /\ tasks' = Tail(tasks) /\ Task.type = "AskUserConfirmation"
      /\ Task = tasks[1] /\ 1 \in 1..Len(tasks) /\ Task = Head(tasks) /\ Task \in OperatorItem
      /\ UNCHANGED orchVars /\ UNCHANGED <<active, historyVars, active_mission_id>>
  BY DEF AskStep, TakeCommand, AskConfirmation, Task
<1>2. Task.by \in Orchs /\ Task.move \in Moves
  BY <1>1, CommandTyped
<1>3. PICK p \in Orchs, v \in Moves : p = Task.by /\ v = Task.move
  BY <1>2
<1> DEFINE m == MissionOf[p]
           view == [known |-> TRUE, waiting |-> TRUE, move |-> v]
<1>4. /\ gui' = [gui EXCEPT ![m] = view]
      /\ pending_confirmation' = IF active_mission_id = m THEN v ELSE pending_confirmation
  BY <1>3 DEF AskStep, AskConfirmation, Show
<1>5. m \in active /\ \A o \in Subscribed : MissionOf[o] = m => o = p
  <2>1. CASE p \in Subscribed
    BY <2>1 DEF RunsInv, Runs, Registered
  <2>2. CASE p \notin Subscribed
    <3>1. PICK j \in 1..Len(tasks) : tasks[j] = Await(p, "SearchEnded")
      BY <1>1, <1>3, <2>2 DEF RunsInv, Runs, Asking, Asks
    <3>2. Ended(tasks, j) /\ tasks[j].by = p
      BY <3>1 DEF Ended, Await
    <3> QED
      BY <3>2 DEF RunsInv, Runs, Ending
  <2> QED
    BY <2>1, <2>2
<1>6. m \in Missions /\ gui \in [Missions -> View]
  BY DEF OrchAssumption, UiTypeOK, GuiOK
<1>7. gui'[m] = view /\ \A k \in Missions : k # m => gui'[k] = gui[k]
  BY <1>4, <1>6
<1>8. Subscribed' = Subscribed /\ Subscribed \subseteq Orchs
  BY <1>1 DEF orchVars, Subscribed
<1>9. v # NoMove
  BY DEF OrchAssumption
<1> HIDE DEF m
<1>10. ASSUME NEW o \in Subscribed, o # p
       PROVE  Faces(o)'
  <2>1. o \in Orchs /\ MissionOf[o] # m /\ MissionOf[o] \in Missions
    BY <1>5, <1>8, <1>10 DEF OrchAssumption
  <2>2. Undisturbed(o)
    BY <1>1, <1>4, <1>7, <2>1 DEF orchVars, historyVars, Undisturbed
  <2>3. ~Token(Confirming, Head(tasks), o)
    BY <1>1, <1>3, <1>10 DEF Token, Confirming
  <2>4. Same(Confirming, tasks, tasks', o)
    BY ConfirmingIsTopic, <1>1, <2>3, TailTokens
  <2> QED
    BY <1>10, <2>2, <2>4, FacesKept DEF FacesInv
<1>11. ASSUME p \in Subscribed
       PROVE  Faces(p)'
  <2>1. Token(Confirming, Head(tasks), p) /\ ~None(Confirming, tasks, p)
    BY <1>1, <1>3 DEF Token, Confirming, None
  <2>2. m = MissionOf[p] /\ gui'[m].waiting /\ gui'[m].move = v
    BY <1>7 DEF m
  <2>3. Held(p)'
    BY <2>2 DEF Held
  <2>4. /\ state'[p] = state[p] /\ asked'[m] = asked[m] /\ answered_by'[m] = answered_by[m]
        /\ current_move'[p] = current_move[p] /\ pending_command'[p] = pending_command[p]
    BY <1>1 DEF orchVars, historyVars
  <2>5. active_mission_id' = m => pending_confirmation' = v
    BY <1>1, <1>4
  <2>6. ASSUME NEW c \in {"cli", "gui"}
        PROVE  Alone(c, p)'
    <3>1. SUFFICES ASSUME answered_by[m] \subseteq {c}
                   PROVE  Alone(c, p)'
      BY <2>2, <2>4 DEF Alone
    <3>2. Alone(c, p)
      BY <1>11 DEF FacesInv, Faces
    <3>3. state[p] = "WAITING_FOR_USER" /\ Only(Confirming, tasks, p, asked[m])
      BY <2>1, <2>2, <3>1, <3>2 DEF Alone
    <3>4. asked[m] = v
      BY <1>1, <1>3, <2>1, <3>3 DEF Only
    <3>5. None(Confirming, tasks', p) /\ Only(Confirming, tasks', p, asked[m])
      BY ConfirmingIsTopic, <1>1, <2>1, <3>3, TailTokens, NoneIsOnly DEF Only
    <3>6. Shown(c, m)' => ShownMove(c, m)' = v
      BY <2>2, <2>5 DEF Shown, ShownMove
    <3>7. ~MoveOpen(p)'
      BY <2>4, <3>3 DEF MoveOpen
    <3> QED
      BY <2>2, <2>4, <3>3, <3>4, <3>5, <3>6, <3>7 DEF Alone
  <2> QED
    BY <2>3, <2>6 DEF Faces
<1>12. CliInv'
  BY <1>1, <1>4, <1>5 DEF FacesInv, CliInv
<1> QED
  BY <1>8, <1>10, <1>11, <1>12 DEF FacesInv

\* Interface c answers the question it shows.
LEMMA FacesAnswered ==
  ASSUME OrchAssumption, MissionInv(OperatorItem), UiTypeOK, FacesInv,
         NEW c \in {"cli", "gui"}, NEW m \in Missions, NEW decision \in Decisions, NEW v \in Moves,
         Shown(c, m), ShownMove(c, m) = v,
         tasks' = Publish(tasks, Decision(m, decision, v)),
         answered_by' = [answered_by EXCEPT ![m] = @ \cup {c}],
         UNCHANGED <<orchVars, asked, disturbed>>,
         UNCHANGED active_mission_id,
         ~Shown(c, m)',
         \/ gui' = gui /\ pending_confirmation' = NoMove
         \/ /\ \A k \in Missions : k # m => gui'[k] = gui[k]
            /\ pending_confirmation' = pending_confirmation
  PROVE  \A o \in Subscribed : Faces(o)'
<1> DEFINE e == Decision(m, decision, v)
<1>1. /\ e \in OperatorItem /\ e.type = "UserDecisionReceived" /\ e.to = Subscribed
      /\ e.mission = m /\ e.move = v
  <2>1. Subscribed \subseteq Orchs
    BY DEF Subscribed
  <2>2. e \in Event
    BY <2>1 DEF Decision, Event
  <2> QED
    BY <2>2, ItemIs DEF Decision, OperatorItem
<1>2. tasks' = Publish(tasks, e)
  OBVIOUS
<1> HIDE DEF e
<1>3. tasks \in Seq(OperatorItem) /\ answered_by \in [Missions -> SUBSET {"cli", "gui"}]
  BY DEF MissionInv, UiTypeOK, HistoryOK
<1>4. ASSUME NEW o \in Subscribed, MissionOf[o] # m
      PROVE  Faces(o)'
  <2>1. MissionOf[o] \in Missions
    BY DEF OrchAssumption, Subscribed
  <2>2. Undisturbed(o)
    BY <1>3, <1>4, <2>1 DEF orchVars, Undisturbed
  <2>3. ~Token(Confirming, e, o)
    BY <1>1, <1>4 DEF Token, Confirming
  <2>4. Same(Confirming, tasks, tasks', o)
    BY <1>1, <1>2, <1>3, <2>3, PublishedTokens DEF Publish
  <2> QED
    BY <2>2, <2>4, FacesKept DEF FacesInv
<1>5. ASSUME NEW o \in Subscribed, MissionOf[o] = m
      PROVE  Faces(o)'
  <2>1. Token(Confirming, e, o) /\ tasks' = Append(tasks, e)
    BY <1>1, <1>2, <1>5 DEF Token, Confirming, Publish
  <2>2. /\ ~None(Confirming, tasks', o)
        /\ None(Confirming, tasks, o) => Only(Confirming, tasks', o, v)
    BY ConfirmingIsTopic, <1>1, <1>3, <2>1, AppendTokens
  <2>3. /\ state'[o] = state[o] /\ asked'[m] = asked[m] /\ answered_by'[m] = answered_by[m] \cup {c}
        /\ current_move'[o] = current_move[o] /\ pending_command'[o] = pending_command[o]
    BY <1>3 DEF orchVars
  <2>4. Held(o)'
    BY <2>2 DEF Held
  <2>5. ASSUME NEW d \in {"cli", "gui"}
        PROVE  Alone(d, o)'
    <3>1. SUFFICES ASSUME answered_by'[m] \subseteq {d}
                   PROVE  Alone(d, o)'
      BY <1>5 DEF Alone
    <3>2. c = d /\ answered_by[m] \subseteq {c}
      BY <2>3, <3>1
    <3>3. Alone(c, o)
      BY DEF FacesInv, Faces
    <3>4. state[o] = "WAITING_FOR_USER" /\ None(Confirming, tasks, o) /\ asked[m] = v
      BY <1>5, <3>2, <3>3 DEF Alone
    <3>5. ~MoveOpen(o)'
      BY <2>3, <3>4 DEF MoveOpen
    <3> QED
      BY <1>5, <2>2, <2>3, <3>2, <3>4, <3>5 DEF Alone
  <2> QED
    BY <2>4, <2>5 DEF Faces
<1> QED
  BY <1>4, <1>5

LEMMA FacesDecides ==
  ASSUME OrchAssumption, MissionInv(OperatorItem), UiTypeOK, FacesInv, CliDecides
  PROVE  FacesInv'
<1> DEFINE m == active_mission_id
           v == pending_confirmation
<1>1. PICK decision \in Decisions : tasks' = Publish(tasks, Decision(m, decision, v))
  BY DEF CliDecides
<1>2. m \in Missions /\ v \in Moves /\ v # NoMove
  BY OperatorAssumption DEF CliDecides, UiTypeOK, CliOK
<1>3. PICK k \in Missions, w \in Moves : k = m /\ w = v
  BY <1>2
<1>4. /\ answered_by' = [answered_by EXCEPT ![k] = @ \cup {"cli"}]
      /\ pending_confirmation' = NoMove
      /\ UNCHANGED <<orchVars, asked, disturbed>> /\ UNCHANGED <<active, active_mission_id>>
      /\ gui' = gui
  BY <1>3 DEF CliDecides
<1>5. Shown("cli", k) /\ ShownMove("cli", k) = w /\ ~Shown("cli", k)'
  BY <1>2, <1>3, <1>4 DEF Shown, ShownMove
<1>6. tasks' = Publish(tasks, Decision(k, decision, w))
  BY <1>1, <1>3
<1>7. \A o \in Subscribed : Faces(o)'
  BY <1>4, <1>5, <1>6, FacesAnswered
<1>8. Subscribed' = Subscribed /\ CliInv'
  BY <1>4 DEF orchVars, Subscribed, CliInv
<1> QED
  BY <1>7, <1>8 DEF FacesInv

LEMMA FacesClick ==
  ASSUME OrchAssumption, MissionInv(OperatorItem), UiTypeOK, FacesInv,
         NEW b \in Browsers, ReceiveClick(b)
  PROVE  FacesInv'
<1>1. clicks[b] \in Seq(Decisions) /\ clicks[b] # <<>> /\ page[b].mission # Nothing
      /\ page[b].mission \in Missions
  BY DEF ReceiveClick, UiTypeOK, PagesOK, Page
<1>2. PICK m \in Missions, decision \in Decisions : m = ClickOn(b) /\ decision = Head(clicks[b])
  BY <1>1 DEF ClickOn
<1>3. UNCHANGED <<orchVars, asked, disturbed>> /\ UNCHANGED <<active, cliVars>>
  BY DEF ReceiveClick
<1>4. CASE ~gui[m].waiting
  <2>1. UNCHANGED <<orchVars, active, cliVars, gui, historyVars>> /\ tasks' = tasks
    BY <1>2, <1>4 DEF ReceiveClick, historyVars
  <2> QED
    BY <2>1, SameAll, FacesIdle
<1>5. CASE gui[m].waiting
  <2>1. gui \in [Missions -> View] /\ gui[m].move \in Moves
    BY <1>5 DEF UiTypeOK, GuiOK
  <2>2. PICK v \in Moves : v = gui[m].move
    BY <2>1
  <2>3. /\ tasks' = Publish(tasks, Decision(m, decision, v))
        /\ gui' = [gui EXCEPT ![m] = [gui[m] EXCEPT !.waiting = FALSE, !.move = NoMove]]
        /\ answered_by' = [answered_by EXCEPT ![m] = @ \cup {"gui"}]
    BY <1>2, <1>5, <2>2 DEF ReceiveClick, Show
  <2>4. ~gui'[m].waiting /\ \A k \in Missions : k # m => gui'[k] = gui[k]
    BY <2>1, <2>3 DEF View
  <2>5. Shown("gui", m) /\ ShownMove("gui", m) = v /\ ~Shown("gui", m)'
    BY <1>5, <2>2, <2>4 DEF Shown, ShownMove
  <2>6. UNCHANGED active_mission_id /\ UNCHANGED pending_confirmation
    BY <1>3 DEF cliVars
  <2>7. \A o \in Subscribed : Faces(o)'
    BY <1>3, <2>3, <2>4, <2>5, <2>6, FacesAnswered
  <2>8. Subscribed' = Subscribed /\ CliInv'
    BY <1>3 DEF orchVars, cliVars, Subscribed, FacesInv, CliInv
  <2> QED
    BY <2>7, <2>8 DEF FacesInv
<1> QED
  BY <1>4, <1>5

-----------------------------------------------------------------------------
(* A step of a mission, and its question *)

\* A mission that begins to ask.
LEMMA FacesBegins ==
  ASSUME NEW Q, Carries(Q), MissionInv(Q), NEW p \in Orchs, Faces(p), Begins(p),
         UNCHANGED uiVars, UNCHANGED <<answered_by, disturbed>>,
         asked'[MissionOf[p]] = Task.move
  PROVE  Faces(p)'
<1> DEFINE m == MissionOf[p]
<1>1. /\ ~None(Confirming, tasks', p) /\ state[p] = "WAITING_FOR_VLM" /\ state'[p] = "WAITING_FOR_USER"
      /\ None(Confirming, tasks, p) => Only(Confirming, tasks', p, Task.move)
  BY AskedTokens DEF Begins, MissionInv
<1>2. Held(p)'
  BY <1>1 DEF Held
<1>3. ASSUME NEW c \in {"cli", "gui"}
      PROVE  Alone(c, p)'
  <2>1. SUFFICES ASSUME answered_by[m] \subseteq {c}
                 PROVE  Alone(c, p)'
    BY DEF Alone
  <2>2. Alone(c, p)
    BY DEF Faces
  <2>3. None(Confirming, tasks, p) /\ ~Shown(c, m)
    BY <1>1, <2>1, <2>2 DEF Alone
  <2>4. ~Shown(c, m)'
    BY <2>3 DEF Shown, uiVars, cliVars
  <2>5. ~MoveOpen(p)'
    BY <1>1 DEF MoveOpen
  <2> QED
    BY <1>1, <2>3, <2>4, <2>5 DEF Alone
<1> QED
  BY <1>2, <1>3 DEF Faces

\* A mission that is answered.
LEMMA FacesReply ==
  ASSUME NEW Q, Carries(Q), MissionInv(Q), NEW p \in Orchs, Faces(p),
         UserConfirms(p) \/ UserWarns(p),
         UNCHANGED uiVars, UNCHANGED <<asked, answered_by, disturbed>>
  PROVE  Faces(p)'
<1> DEFINE m == MissionOf[p]
<1>1. Handles(p, "UserDecisionReceived") /\ tasks \in Seq(Q)
  BY DEF UserConfirms, UserWarns, MissionInv
<1>2. Token(Confirming, Task, p) /\ ~None(Confirming, tasks, p) /\ Task.move \in Moves
  <2>1. /\ tasks # <<>> /\ p \in Task.to /\ Task.type = "UserDecisionReceived"
        /\ Task.mission = MissionOf[p] /\ Task.move \in Moves
    BY <1>1, TaskCarries DEF Handles, Concerns, EventFor, DroneEventTypes, DroneNotice, Proposing
  <2>2. 1 \in 1..Len(tasks) /\ Task = tasks[1]
    BY <1>1, <2>1 DEF Task
  <2> QED
    BY <2>1, <2>2 DEF Token, Confirming, None
<1>3. PICK x \in Q : /\ tasks' = Append(Rest(p), x) /\ ~Token(Confirming, x, p)
                     /\ state'[p] # "WAITING_FOR_USER"
                     /\ MoveOpen(p)' => current_move'[p] = Task.move
  <2> USE DEF MissionInv, MissionTypeOK, Goto
  <2>1. ExecuteMove(p, Task.move) \in Q /\ GetPhoto(p) \in Q
    BY <1>2 DEF Carries, OwnItems
  <2>2. ~Token(Confirming, ExecuteMove(p, Task.move), p) /\ ~Token(Confirming, GetPhoto(p), p)
    BY DEF Token, Confirming, ExecuteMove, GetPhoto
  <2>3. CASE UserConfirms(p)
    BY <2>1, <2>2, <2>3 DEF UserConfirms
  <2>4. CASE UserWarns(p)
    BY <2>1, <2>2, <2>4 DEF UserWarns, MoveOpen
  <2> QED
    BY <2>3, <2>4
<1>4. Held(p)'
  BY <1>3 DEF Held
<1>5. ASSUME NEW c \in {"cli", "gui"}
      PROVE  Alone(c, p)'
  <2>1. SUFFICES ASSUME answered_by[m] \subseteq {c}
                 PROVE  Alone(c, p)'
    BY DEF Alone
  <2>2. Alone(c, p)
    BY DEF Faces
  <2>3. Only(Confirming, tasks, p, asked[m]) /\ ~Shown(c, m)
    BY <1>2, <2>1, <2>2 DEF Alone
  <2>4. None(Confirming, tasks', p) /\ Task.move = asked[m]
    <3>1. None(Confirming, Rest(p), p) /\ Task.move = asked[m]
      BY ConfirmingIsTopic, <1>1, <2>3, AnsweredTokens DEF Only, Confirming
    <3>2. Rest(p) \in Seq(Q)
      BY ConfirmingIsTopic, <1>1, RestTokens DEF Handles
    <3> QED
      BY ConfirmingIsTopic, <1>3, <3>1, <3>2, AppendTokens DEF Same, Fewer
  <2>5. ~Shown(c, m)'
    BY <2>3 DEF Shown, uiVars, cliVars
  <2> QED
    BY ConfirmingIsTopic, <1>3, <2>4, <2>5, NoneIsOnly DEF Alone
<1> QED
  BY <1>4, <1>5 DEF Faces

\* Any other step of it that does not end it.
LEMMA FacesGoesOn ==
  ASSUME NEW Q, Carries(Q), MissionInv(Q), NEW p \in Orchs, Faces(p),
         AwaitedDone(p) \/ Handle(p), GoesOn(p), ~Begins(p),
         UNCHANGED uiVars, UNCHANGED <<asked, answered_by, disturbed>>
  PROVE  Faces(p)'
<1> DEFINE m == MissionOf[p]
<1>1. Follows(Q, p, tasks')
  BY MissionFollows DEF Writes, MissionInv
<1>2. Fewer(Confirming, tasks, tasks', p)
  BY ConfirmingIsTopic, ConfirmingOpens, <1>1, MissionTokens DEF Begins, MissionInv
<1>3. Held(p)'
  BY DEF Held, Faces, GoesOn, uiVars
<1>4. ASSUME NEW c \in {"cli", "gui"}
      PROVE  Alone(c, p)'
  <2>1. SUFFICES ASSUME answered_by[m] \subseteq {c}
                 PROVE  Alone(c, p)'
    BY DEF Alone
  <2>2. Alone(c, p)
    BY DEF Faces
  <2>3. /\ state[p] # "WAITING_FOR_USER" => None(Confirming, tasks', p)
        /\ Only(Confirming, tasks', p, asked[m])
        /\ Shown(c, m) => None(Confirming, tasks', p)
    BY <1>2, <2>1, <2>2 DEF Alone, Fewer
  <2>4. Shown(c, m)' = Shown(c, m) /\ ShownMove(c, m)' = ShownMove(c, m)
    BY DEF Shown, ShownMove, uiVars, cliVars
  <2>5. MoveOpen(p)' => current_move'[p] = asked[m]
    BY <2>1, <2>2 DEF Alone, GoesOn
  <2> QED
    BY <2>1, <2>2, <2>3, <2>4, <2>5 DEF Alone, GoesOn
<1> QED
  BY <1>3, <1>4 DEF Faces

LEMMA FacesMission ==
  ASSUME OrchAssumption, MissionInv(OperatorItem), Carries(OperatorItem), RunsInv, FacesInv,
         UiTypeOK, MissionStep
  PROVE  FacesInv'
<1>1. PICK p \in Orchs :
        /\ AwaitedDone(p) \/ Handle(p)
        /\ asked' = IF state'[p] = "WAITING_FOR_USER" /\ state[p] # "WAITING_FOR_USER"
                    THEN [asked EXCEPT ![MissionOf[p]] = Task.move] ELSE asked
  BY DEF MissionStep
<1>2. UNCHANGED active /\ UNCHANGED uiVars /\ UNCHANGED <<answered_by, disturbed>>
  BY DEF MissionStep
<1>3. Subscribed' \subseteq Subscribed /\ Subscribed \subseteq Orchs
  BY <1>1, UnderWayKept DEF Subscribed
<1>4. \/ Begins(p) \/ UserConfirms(p) \/ UserWarns(p) \/ state'[p] = "ENDED" \/ GoesOn(p)
  BY <1>1, OwnStep
<1>5. Begins(p) => state[p] = "WAITING_FOR_VLM"
  BY HandlesEvent DEF Begins, HandleVlmAnalysis, Expected
<1>6. ~Begins(p) => asked' = asked
  BY <1>1, <1>4 DEF GoesOn, UserConfirms, UserWarns, Goto, MissionInv, MissionTypeOK
<1>7. asked \in [Missions -> Moves \cup {NoMove}] /\ MissionOf[p] \in Missions
  BY DEF UiTypeOK, HistoryOK, OrchAssumption
<1>8. Follows(OperatorItem, p, tasks')
  BY <1>1, MissionFollows DEF Writes, MissionInv
<1>9. ASSUME NEW o \in Subscribed', o # p
      PROVE  Faces(o)'
  <2>1. o \in Subscribed /\ o \in Orchs /\ MissionOf[o] \in Missions
    BY <1>3 DEF OrchAssumption
  <2>2. UNCHANGED Ledger(o)
    BY <1>1, <1>9, <2>1, OthersKept DEF Writes, MissionInv
  <2>3. Same(Confirming, tasks, tasks', o)
    BY ConfirmingIsTopic, <1>8, <1>9, <2>1, MissionTokens DEF MissionInv
  <2>4. asked'[MissionOf[o]] = asked[MissionOf[o]]
    <3>1. CASE Begins(p)
      <4>1. MissionOf[o] # MissionOf[p]
        BY <1>5, <1>9, <2>1, <3>1 DEF Subscribed, RunsInv, Runs, Registered
      <4> QED
        BY <1>1, <1>7, <4>1
    <3> QED
      BY <1>6, <3>1
  <2>5. Undisturbed(o)
    BY <1>2, <2>2, <2>4 DEF Ledger, uiVars, cliVars, Undisturbed
  <2> QED
    BY <2>1, <2>3, <2>5, FacesKept DEF FacesInv
<1>10. ASSUME p \in Subscribed'
       PROVE  Faces(p)'
  <2>1. Faces(p) /\ state'[p] # "ENDED"
    BY <1>3, <1>10 DEF FacesInv, Subscribed
  <2>2. CASE Begins(p)
    <3>1. asked'[MissionOf[p]] = Task.move
      BY <1>1, <1>5, <1>7, <2>2 DEF Begins
    <3> QED
      BY <1>2, <2>1, <2>2, <3>1, FacesBegins
  <2>3. CASE ~Begins(p) /\ (UserConfirms(p) \/ UserWarns(p))
    BY <1>2, <1>6, <2>1, <2>3, FacesReply
  <2>4. CASE ~Begins(p) /\ GoesOn(p)
    BY <1>1, <1>2, <1>6, <2>1, <2>4, FacesGoesOn
  <2> QED
    BY <1>4, <2>1, <2>2, <2>3, <2>4
<1>11. CliInv'
  BY <1>2 DEF FacesInv, CliInv, uiVars, cliVars
<1> QED
  BY <1>9, <1>10, <1>11 DEF FacesInv

-----------------------------------------------------------------------------
(* The theorems about questions and answers *)

LEMMA FacesInit ==
  ASSUME OperatorInit
  PROVE  FacesInv
  BY DEF OperatorInit, ManagerInit, Init, Subscribed, FacesInv, CliInv

LEMMA FacesStep ==
  ASSUME OrchAssumption, ManagerAssumption, OperatorAssumption, CalmStarts,
         MissionInv(OperatorItem), UiTypeOK, RunsInv, FacesInv, [OperatorNext]_operatorVars
  PROVE  FacesInv'
<1>1. tasks \in Seq(OperatorItem) /\ Carries(OperatorItem)
  BY OperatorCarries DEF MissionInv
<1>2. CASE UNCHANGED operatorVars
  <2>1. UNCHANGED <<orchVars, active, cliVars, gui, historyVars>> /\ tasks' = tasks
    BY <1>2 DEF operatorVars, managerVars, vars, uiVars
  <2> QED
    BY <2>1, SameAll, FacesIdle
<1>3. CASE StartStep
  <2>1. HandleStartMission \/ StartRefused
    BY <1>3 DEF StartStep
  <2> QED
    BY <1>1, <1>3, <2>1, FacesStart, FacesRefused
<1>4. CASE AskStep
  BY <1>1, <1>4, FacesAsk
<1>5. CASE EndStep
  BY <1>1, <1>5, FacesEnd
<1>6. CASE OtherCommand
  BY <1>1, <1>6, FacesCommand
<1>7. CASE MissionStep
  BY <1>1, <1>7, FacesMission
<1>8. CASE Environment
  BY <1>1, <1>8, FacesEnvironment
<1>9. CASE \E o \in Orchs : CliSearch(o) \/ ApiStartMission(o)
  BY <1>1, <1>9, FacesRequest
<1>10. CASE CliDecides
  BY <1>10, FacesDecides
<1>11. CASE \E b \in Browsers : ReceiveClick(b)
  BY <1>11, FacesClick
<1>12. CASE \E b \in Browsers : \/ ReceiveState(b) \/ ClosePage(b) \/ Click(b)
                                \/ \E m \in Missions : OpenPage(b, m)
  <2>1. UNCHANGED <<orchVars, active, cliVars, gui, historyVars>> /\ tasks' = tasks
    BY <1>12 DEF ReceiveState, ClosePage, Click, OpenPage, managerVars, vars
  <2> QED
    BY <2>1, SameAll, FacesIdle
<1> QED
  BY <1>2, <1>3, <1>4, <1>5, <1>6, <1>7, <1>8, <1>9, <1>10, <1>11, <1>12 DEF OperatorNext

LEMMA OperatorFaces ==
  ASSUME CalmStarts
  PROVE  OperatorSpec => []FacesInv
<1> DEFINE Inv == MissionInv(OperatorItem) /\ UiTypeOK
<1>1. OperatorInit => FacesInv
  BY FacesInit
<1>2. Inv /\ RunsInv /\ FacesInv /\ [OperatorNext]_operatorVars => FacesInv'
  BY OrchAssumption, ManagerAssumption, OperatorAssumption, FacesStep
<1> QED
  BY <1>1, <1>2, OperatorMissions, OperatorRuns, PTL DEF OperatorSpec

LEMMA FacesSay ==
  ASSUME MissionInv(OperatorItem), UiTypeOK, FacesInv
  PROVE  QuestionIsHeld /\ ApprovedIsAsked
<1>1. ASSUME NEW o \in Subscribed, state[o] = "WAITING_FOR_USER", ~disturbed[MissionOf[o]]
      PROVE  \/ gui[MissionOf[o]].waiting
             \/ QueuedFor(MissionOf[o], "AskUserConfirmation")
             \/ QueuedFor(MissionOf[o], "UserDecisionReceived")
  <2>1. gui[MissionOf[o]].waiting \/ ~None(Confirming, tasks, o)
    BY <1>1 DEF FacesInv, Faces, Held
  <2> QED
    BY <2>1 DEF None, Token, Confirming, QueuedFor
<1>2. QuestionIsHeld
  BY <1>1 DEF QuestionIsHeld, UiTypeOK, CliOK
<1>3. ASSUME NEW o \in Subscribed, state[o] \in {"WAITING_FOR_ACK", "FLYING"},
             answered_by[MissionOf[o]] # {"cli", "gui"}
      PROVE  current_move[o] = asked[MissionOf[o]]
  <2>1. answered_by[MissionOf[o]] \in SUBSET {"cli", "gui"}
    BY OrchAssumption DEF Subscribed, UiTypeOK, HistoryOK, OrchAssumption
  <2>2. answered_by[MissionOf[o]] \subseteq {"gui"} \/ answered_by[MissionOf[o]] \subseteq {"cli"}
    BY <1>3, <2>1
  <2> QED
    BY <1>3, <2>2 DEF FacesInv, Faces, Alone, MoveOpen
<1> QED
  BY <1>2, <1>3 DEF ApprovedIsAsked

(* A mission that waits for the operator is never stuck on a question that  *)
(* nobody holds: whatever pages, clicks and other missions do, the GUI holds *)
(* it, or it is queued, or its answer is, unless the id was started again.  *)
THEOREM NoQuestionIsLost ==
  ASSUME CalmStarts
  PROVE  OperatorSpec => []QuestionIsHeld
<1>1. MissionInv(OperatorItem) /\ UiTypeOK /\ FacesInv => QuestionIsHeld
  BY FacesSay
<1> QED
  BY <1>1, OperatorMissions, OperatorFaces, PTL

(* An answer confirms the question it was given to: while one interface     *)
(* answers a mission, the move it flies is the one it has asked about last. *)
THEOREM AnswerIsToTheQuestion ==
  ASSUME CalmStarts
  PROVE  OperatorSpec => []ApprovedIsAsked
<1>1. MissionInv(OperatorItem) /\ UiTypeOK /\ FacesInv => ApprovedIsAsked
  BY FacesSay
<1> QED
  BY <1>1, OperatorMissions, OperatorFaces, PTL
=============================================================================
