----------------------------- MODULE FlightProofs -----------------------------
(***************************************************************************)
(* Proofs about SearchSystem that count: what is queued, sent and reported *)
(* of each move, each photo and each decision of the operator.             *)
(***************************************************************************)
EXTENDS SearchSystemProofs, SequenceTheorems

\* How many items of queue q are in S.
Indices(q, S) == {i \in 1..Len(q) : q[i] \in S}
Count(q, S) == Cardinality(Indices(q, S))

-----------------------------------------------------------------------------
(* Counting in queues *)

LEMMA CountNat ==
  ASSUME NEW Q, NEW q \in Seq(Q), NEW S
  PROVE  /\ IsFiniteSet(Indices(q, S)) /\ Count(q, S) \in Nat
         /\ Count(q, S) = 0 <=> \A i \in 1..Len(q) : q[i] \notin S
         /\ Count(q, S) <= Len(q)
<1>1. IsFiniteSet(1..Len(q)) /\ Cardinality(1..Len(q)) = Len(q)
  <2>1. Len(q) \in Nat /\ Len(q) \in Int /\ 1 \in Int
    OBVIOUS
  <2>2. /\ IsFiniteSet(1..Len(q))
        /\ Cardinality(1..Len(q)) = IF 1 > Len(q) THEN 0 ELSE Len(q) - 1 + 1
    BY <2>1, FS_Interval
  <2> QED
    BY <2>1, <2>2
<1>2. Indices(q, S) \in SUBSET (1..Len(q))
  BY DEF Indices
<1>3. IsFiniteSet(Indices(q, S)) /\ Cardinality(Indices(q, S)) <= Len(q)
  BY <1>1, <1>2, FS_Subset
<1>4. Cardinality(Indices(q, S)) \in Nat
  BY <1>3, FS_CardinalityType
<1>5. Cardinality(Indices(q, S)) = 0 <=> Indices(q, S) = {}
  BY <1>3, FS_EmptySet
<1> QED
  BY <1>3, <1>4, <1>5 DEF Count, Indices

LEMMA CountCat ==
  ASSUME NEW Q, NEW a \in Seq(Q), NEW b \in Seq(Q), NEW S
  PROVE  Count(a \o b, S) = Count(a, S) + Count(b, S)
<1> DEFINE n == Len(a)
           A == Indices(a, S)
           B == Indices(b, S)
           C == {n + i : i \in B}
           f == [i \in B |-> n + i]
<1>1. n \in Nat /\ Len(a \o b) = n + Len(b) /\ Len(b) \in Nat
  OBVIOUS
<1>2. Indices(a \o b, S) = A \cup C
  <2>1. ASSUME NEW i \in Indices(a \o b, S)
        PROVE  i \in A \cup C
    <3>1. CASE i <= n
      BY <1>1, <2>1, <3>1 DEF Indices
    <3>2. CASE i > n
      <4>1. i - n \in 1..Len(b) /\ (a \o b)[i] = b[i - n] /\ n + (i - n) = i
        BY <1>1, <2>1, <3>2 DEF Indices
      <4> QED
        BY <2>1, <4>1 DEF Indices
    <3> QED
      BY <1>1, <2>1, <3>1, <3>2 DEF Indices
  <2>2. ASSUME NEW i \in A
        PROVE  i \in Indices(a \o b, S)
    BY <1>1, <2>2 DEF Indices
  <2>3. ASSUME NEW i \in B
        PROVE  n + i \in Indices(a \o b, S)
    <3>1. n + i \in 1..Len(a \o b) /\ (a \o b)[n + i] = b[i]
      BY <1>1, <2>3 DEF Indices
    <3> QED
      BY <2>3, <3>1 DEF Indices
  <2> QED
    BY <2>1, <2>2, <2>3
<1>3. IsFiniteSet(A) /\ IsFiniteSet(B) /\ Count(a, S) \in Nat /\ Count(b, S) \in Nat
  BY CountNat
<1>4. ExistsBijection(B, C)
  <2>1. B \subseteq Int
    BY <1>1 DEF Indices
  <2>2. f \in [B -> C] /\ \A x, y \in B : f[x] = f[y] => x = y
    BY <1>1, <2>1
  <2>3. \A z \in C : \E x \in B : f[x] = z
    OBVIOUS
  <2>4. f \in Bijection(B, C)
    BY <2>2, <2>3 DEF Bijection, Injection, Surjection, IsInjective
  <2> QED
    BY <2>4 DEF ExistsBijection
<1>5. IsFiniteSet(C) /\ Cardinality(C) = Cardinality(B)
  BY <1>3, <1>4, FS_Bijection
<1>6. A \cap C = {}
  <2>1. \A i \in A : i <= n
    BY <1>1 DEF Indices
  <2>2. \A i \in C : i \in Int /\ i > n
    BY <1>1 DEF Indices
  <2> QED
    BY <1>1, <2>1, <2>2
<1> HIDE DEF A, B, C
<1>7. Cardinality(A \cup C) = Cardinality(A) + Cardinality(C) - Cardinality(A \cap C)
  BY <1>3, <1>5, FS_Union
<1>8. Cardinality(A \cap C) = 0
  BY <1>6, FS_EmptySet
<1> QED
  BY <1>2, <1>3, <1>5, <1>7, <1>8 DEF Count, A, B

LEMMA CountOne ==
  ASSUME NEW x, NEW S
  PROVE  /\ Count(<<x>>, S) = IF x \in S THEN 1 ELSE 0
         /\ Count(<<>>, S) = 0
<1>1. Indices(<<x>>, S) = IF x \in S THEN {1} ELSE {}
  <2>1. Len(<<x>>) = 1 /\ 1..1 = {1} /\ (<<x>>)[1] = x
    OBVIOUS
  <2> QED
    BY <2>1 DEF Indices
<1>2. Indices(<<>>, S) = {}
  BY DEF Indices
<1> QED
  BY <1>1, <1>2, FS_EmptySet, FS_Singleton DEF Count

LEMMA CountAppend ==
  ASSUME NEW Q, NEW q \in Seq(Q), NEW x \in Q, NEW S
  PROVE  Count(Append(q, x), S) = Count(q, S) + (IF x \in S THEN 1 ELSE 0)
<1> DEFINE b == <<x>>
<1>1. Append(q, x) = q \o b /\ b \in Seq(Q)
  OBVIOUS
<1>2. Count(b, S) = IF x \in S THEN 1 ELSE 0
  BY CountOne
<1> HIDE DEF b
<1>3. Count(q \o b, S) = Count(q, S) + Count(b, S)
  BY <1>1, CountCat
<1> QED
  BY <1>1, <1>2, <1>3

LEMMA HeadAndTail ==
  ASSUME NEW Q, NEW q \in Seq(Q), q # <<>>
  PROVE  q = <<Head(q)>> \o Tail(q) /\ <<Head(q)>> \in Seq(Q) /\ Tail(q) \in Seq(Q)
<1> DEFINE a == <<Head(q)>>
           b == Tail(q)
<1>1. /\ Head(q) = q[1] /\ Head(q) \in Q /\ Len(q) \in Nat \ {0}
      /\ b \in Seq(Q) /\ Len(b) = Len(q) - 1
      /\ \A i \in 1..Len(b) : b[i] = q[i + 1]
  BY HeadTailProperties
<1>2. a \in Seq(Q) /\ Len(a) = 1 /\ a[1] = q[1]
  BY <1>1
<1> HIDE DEF a, b
<1>3. /\ a \o b \in Seq(Q) /\ Len(a \o b) = Len(a) + Len(b)
      /\ \A i \in 1..Len(a) + Len(b) : (a \o b)[i] =
             IF i <= Len(a) THEN a[i] ELSE b[i - Len(a)]
  BY <1>1, <1>2, ConcatProperties
<1>4. Len(a \o b) = Len(q)
  BY <1>1, <1>2, <1>3
<1>5. ASSUME NEW i \in 1..Len(q)
      PROVE  q[i] = (a \o b)[i]
  <2>1. CASE i = 1
    BY <1>1, <1>2, <1>3, <2>1
  <2>2. CASE i > 1
    <3> DEFINE k == i - 1
    <3>1. k \in 1..Len(b) /\ k + 1 = i
      BY <1>1, <2>2
    <3>2. i \in 1..Len(a) + Len(b) /\ ~(i <= Len(a)) /\ i - Len(a) = k
      BY <1>1, <1>2, <2>2
    <3> HIDE DEF k
    <3>3. q[i] = b[k]
      BY <1>1, <3>1
    <3> QED
      BY <1>3, <3>2, <3>3
  <2>3. i = 1 \/ i > 1
    BY <1>5
  <2> QED
    BY <2>1, <2>2, <2>3
<1>6. q = a \o b
  BY <1>3, <1>4, <1>5, SeqEqual
<1> QED
  BY <1>1, <1>2, <1>6 DEF a, b

LEMMA CountTail ==
  ASSUME NEW Q, NEW q \in Seq(Q), q # <<>>, NEW S
  PROVE  Count(q, S) = Count(Tail(q), S) + (IF Head(q) \in S THEN 1 ELSE 0)
<1> DEFINE a == <<Head(q)>>
           b == Tail(q)
<1>1. q = a \o b /\ a \in Seq(Q) /\ b \in Seq(Q)
  BY HeadAndTail
<1>2. Count(a, S) = IF Head(q) \in S THEN 1 ELSE 0
  BY CountOne
<1>3. Count(b, S) \in Nat
  BY <1>1, CountNat
<1>4. Count(a \o b, S) = Count(a, S) + Count(b, S)
  BY <1>1, CountCat
<1> HIDE DEF a, b
<1>5. Count(q, S) = Count(b, S) + (IF Head(q) \in S THEN 1 ELSE 0)
  BY <1>1, <1>2, <1>3, <1>4
<1> QED
  BY <1>5 DEF b

\* A queue that has lost items, or changed some that do not count, counts less.
LEMMA CountLess ==
  ASSUME NEW Q, NEW q \in Seq(Q), NEW r \in Seq(Q), NEW S, NEW s \in Int,
         \A i \in 1..Len(r) : r[i] \in S => i + s \in 1..Len(q) /\ q[i + s] \in S
  PROVE  Count(r, S) <= Count(q, S)
<1> DEFINE A == Indices(r, S)
           B == Indices(q, S)
           f == [i \in A |-> i + s]
<1>1. A \subseteq Int /\ \A i \in A : i + s \in B
  BY DEF Indices
<1>2. f \in Injection(A, B)
  <2>1. f \in [A -> B] /\ \A x, y \in A : f[x] = f[y] => x = y
    BY <1>1
  <2> QED
    BY <2>1, Fun_IsInj
<1>3. IsFiniteSet(B)
  BY CountNat
<1> HIDE DEF A, B, f
<1>4. Cardinality(A) <= Cardinality(B)
  BY <1>2, <1>3, FS_Injection
<1> QED
  BY <1>4 DEF Count, A, B

\* Taking a task and publishing events adds none that is not of their types.
LEMMA CountServed ==
  ASSUME tasks \in Seq(SystemItem), NEW T, ServesAndTells(T), NEW S,
         \A x \in S : x.type \notin T
  PROVE  Count(tasks', S) <= Count(tasks, S) /\ tasks' \in Seq(SystemItem)
<1>1. PICK q \in Seq(SystemItem), news \in Seq(SystemItem) :
        Served(q, news) /\ \A i \in 1..Len(news) : news[i].type \in T
  BY DEF ServesAndTells
<1>2. PICK s \in {0, 1} : /\ Len(q) + s = Len(tasks)
                          /\ \A i \in 1..Len(q) : tasks'[i] = tasks[i + s]
  BY <1>1, ServedKeeps
<1>3. /\ tasks' \in Seq(SystemItem)
      /\ \A i \in Added(tasks', Len(q)) : /\ i - Len(q) \in 1..Len(news)
                                          /\ tasks'[i] = news[i - Len(q)]
  BY <1>1, ServedKeeps
<1>4. ASSUME NEW i \in 1..Len(tasks'), tasks'[i] \in S
      PROVE  i + s \in 1..Len(tasks) /\ tasks[i + s] \in S
  <2>1. Len(q) \in Nat /\ Len(tasks) \in Nat /\ Len(tasks') \in Nat
    BY <1>3
  <2>2. CASE i \in Added(tasks', Len(q))
    BY <1>1, <1>3, <1>4, <2>2
  <2>3. CASE i \in 1..Len(q)
    BY <1>2, <1>4, <2>1, <2>3
  <2> QED
    BY <2>1, <2>2, <2>3 DEF Added
<1>5. /\ s \in Int /\ tasks' \in Seq(SystemItem)
      /\ \A i \in 1..Len(tasks') :
           tasks'[i] \in S => i + s \in 1..Len(tasks) /\ tasks[i + s] \in S
  BY <1>3, <1>4
<1>6. Count(tasks', S) <= Count(tasks, S)
  BY <1>5, CountLess
<1> QED
  BY <1>5, <1>6

\* A mission adds no events and no tasks of others, and leaves an event to the others.
LEMMA CountWritten ==
  ASSUME NEW Q, Carries(Q), tasks \in Seq(Q), NEW o \in Orchs, Follows(Q, o, tasks'),
         NEW S, \A x \in S : x.type \in EventTypes \/ x.by # o,
         \A x \in Q : \A y : Told(o, x, y) /\ y \in S => x \in S
  PROVE  Count(tasks', S) <= Count(tasks, S)
<1>1. PICK n \in Nat, s \in {0, 1} :
        /\ n + s = Len(tasks) /\ n <= Len(tasks')
        /\ \A i \in 1..n : \/ tasks'[i] = tasks[i + s]
                           \/ i + s = 1 /\ Told(o, tasks[1], tasks'[1])
        /\ Parts(o, n, tasks') \/ Commands(o, n, tasks') \/ Continues(o, n, tasks')
  BY WritesKeeps
<1>2. tasks' \in Seq(Q) /\ Len(tasks') \in Nat
  BY WritesKeeps
<1>3. ASSUME NEW i \in 1..Len(tasks'), tasks'[i] \in S
      PROVE  i + s \in 1..Len(tasks) /\ tasks[i + s] \in S
  <2>1. i \notin Added(tasks', n)
    BY <1>1, <1>2, <1>3, AddedIsOwn
  <2>2. i \in 1..n
    BY <1>1, <1>2, <2>1 DEF Added
  <2>3. i + s \in 1..Len(tasks)
    BY <1>1, <2>2
  <2>4. CASE tasks'[i] = tasks[i + s]
    BY <1>3, <2>3, <2>4
  <2>5. CASE i + s = 1 /\ Told(o, tasks[1], tasks'[1])
    <3>1. i = 1 /\ tasks[1] \in Q
      BY <2>2, <2>3, <2>5
    <3> QED
      BY <1>3, <2>3, <2>5, <3>1
  <2> QED
    BY <1>1, <2>2, <2>4, <2>5
<1>4. /\ s \in Int /\ tasks' \in Seq(Q)
      /\ \A i \in 1..Len(tasks') :
           tasks'[i] \in S => i + s \in 1..Len(tasks) /\ tasks[i + s] \in S
  BY <1>2, <1>3
<1>5. Count(tasks', S) <= Count(tasks, S)
  BY <1>4, CountLess
<1> QED
  BY <1>4, <1>5

\* The event at the head once its handler o has returned.
Passed(o) == [Task EXCEPT !.to = @ \ {o}]

LEMMA CountRest ==
  ASSUME NEW Q, Carries(Q), tasks \in Seq(Q), NEW o \in Orchs, EventFor(o), NEW S
  PROVE  /\ Rest(o) \in Seq(Q)
         /\ Count(Rest(o), S) =
              Count(Tail(tasks), S)
                + (IF ~(Task.to \subseteq {o}) /\ Passed(o) \in S THEN 1 ELSE 0)
<1>1. Task \in Q /\ Task.type \in EventTypes /\ tasks # <<>>
  BY DEF EventFor, Task, EventTypes
<1>2. Tail(tasks) \in Seq(Q) /\ Passed(o) \in Q
  BY <1>1 DEF Carries, Passed
<1>3. Count(Tail(tasks), S) \in Nat
  BY <1>2, CountNat
<1>4. CASE Task.to \subseteq {o}
  BY <1>2, <1>3, <1>4 DEF Rest
<1>5. CASE ~(Task.to \subseteq {o})
  <2> DEFINE a == <<Passed(o)>>
  <2>1. Rest(o) = a \o Tail(tasks) /\ a \in Seq(Q)
    BY <1>2, <1>5 DEF Rest, Passed
  <2>2. Count(a, S) = IF Passed(o) \in S THEN 1 ELSE 0
    BY CountOne
  <2> HIDE DEF a
  <2>3. Count(a \o Tail(tasks), S) = Count(a, S) + Count(Tail(tasks), S)
    BY <1>2, <2>1, CountCat
  <2>4. a \o Tail(tasks) \in Seq(Q)
    BY <1>2, <2>1
  <2> QED
    BY <1>3, <1>5, <2>1, <2>2, <2>3, <2>4
<1> QED
  BY <1>4, <1>5

-----------------------------------------------------------------------------
(* Successes, from the flight to the count *)

\* The success of a flight is a report on a connection of the drone, in its place
\* there, or an event a mission has yet to handle.
Success == {MoveReport(TRUE)}
Reports ==
  [d \in Drones |-> {p \in Conns \X Nat :
                       owner[p[1]] = d /\ p[2] \in Indices(to_server[p[1]], Success)}]
OkFor(o) == {x \in SystemItem : /\ x.type = "MoveExecuted" /\ x.ok
                                /\ x.drone = DroneOf[o] /\ o \in x.to}

FlownInv ==
  /\ \A d \in Drones : IsFiniteSet(Reports[d])
  /\ \A o \in Orchs :
       moves_performed[o] + Count(tasks, OkFor(o)) + Cardinality(Reports[DroneOf[o]])
         <= flights[DroneOf[o]]

\* What a mission counts is a success, told by the event at the head.
LEMMA CountsSuccess ==
  ASSUME MissionTypeOK, NEW p \in Orchs, NEW o \in Orchs, Writes(p)
  PROVE  \/ moves_performed'[o] = moves_performed[o]
         \/ /\ o = p /\ MoveSucceeded(o)
            /\ moves_performed'[o] = moves_performed[o] + 1
<1> USE DEF MissionTypeOK
<1>1. CASE Starts(p) \/ AwaitedDone(p) \/ StartCancelled(p)
  BY <1>1 DEF Starts, Start, AwaitedDone, StartCancelled
<1>2. CASE StartSave(p) \/ StartSearch(p) \/ StartFirstPhoto(p)
  BY <1>2 DEF StartSave, StartSearch, StartFirstPhoto
<1>3. CASE HandlePhotoAndTelemetry(p) \/ HandleVlmAnalysis(p)
  BY <1>3 DEF HandlePhotoAndTelemetry, HandleVlmAnalysis
<1>4. CASE UserConfirms(p) \/ UserWarns(p) \/ UserCancels(p)
  BY <1>4 DEF UserConfirms, UserWarns, UserCancels
<1>5. CASE HandleMoveStarted(p) \/ MoveFailed(p)
  BY <1>5 DEF HandleMoveStarted, MoveFailed
<1>6. CASE MoveSucceeded(p)
  BY <1>6 DEF MoveSucceeded
<1>7. CASE HandleDroneConnectionLost(p) \/ HandleDroneReconnected(p)
  BY <1>7 DEF HandleDroneConnectionLost, HandleDroneReconnected
<1>8. CASE HandleFatal(p) \/ Ignore(p)
  BY <1>8 DEF HandleFatal, Ignore, orchVars
<1> QED
  BY <1>1, <1>2, <1>3, <1>4, <1>5, <1>6, <1>7, <1>8 DEF Writes, Handle

LEMMA OkForLasts ==
  ASSUME NEW o \in Orchs
  PROVE  /\ \A x \in OkFor(o) : x.type \in EventTypes /\ x.type = "MoveExecuted"
         /\ \A p \in Orchs : \A x \in SystemItem : \A y :
              Told(p, x, y) /\ y \in OkFor(o) => x \in OkFor(o)
         /\ \A x, y : Told(o, x, y) => y \notin OkFor(o)
  BY DEF OkFor, Told, EventTypes, DroneEventTypes

\* Reports that have moved up, or are gone, are no more than before.
LEMMA ReportsFewer ==
  ASSUME NEW d \in Drones, NEW R, IsFiniteSet(R), NEW k \in [Conns -> Nat],
         \A c \in Conns : \A i \in Nat :
           owner'[c] = d /\ i \in Indices(to_server[c], Success)'
             => <<c, i + k[c]>> \in R
  PROVE  IsFiniteSet(Reports[d])' /\ Cardinality(Reports[d])' <= Cardinality(R)
<1> DEFINE A == Reports'[d]
           f == [p \in A |-> <<p[1], p[2] + k[p[1]]>>]
<1>1. /\ A \subseteq Conns \X Nat
      /\ \A p \in A : owner'[p[1]] = d /\ p[2] \in Indices(to_server[p[1]], Success)'
  BY DEF Reports, Indices
<1>2. f \in [A -> R]
  BY <1>1
<1>3. ASSUME NEW p \in A, NEW q \in A, f[p] = f[q]
      PROVE  p = q
  <2>1. p = <<p[1], p[2]>> /\ q = <<q[1], q[2]>> /\ p[2] \in Nat /\ q[2] \in Nat
    BY <1>1
  <2>2. p[1] = q[1] /\ p[2] + k[p[1]] = q[2] + k[q[1]] /\ k[p[1]] \in Nat
    BY <1>1, <1>3
  <2>3. p[2] = q[2]
    BY <2>1, <2>2
  <2> QED
    BY <2>1, <2>2, <2>3
<1> HIDE DEF f
<1>4. f \in Injection(A, R)
  BY <1>2, <1>3, Fun_IsInj
<1> HIDE DEF A
<1>5. IsFiniteSet(A) /\ Cardinality(A) <= Cardinality(R)
  BY <1>4, FS_Injection
<1> QED
  BY <1>5 DEF A

LEMMA OneMore ==
  ASSUME NEW S, IsFiniteSet(S), NEW x
  PROVE  /\ IsFiniteSet(S \cup {x}) /\ Cardinality(S \cup {x}) <= Cardinality(S) + 1
         /\ IsFiniteSet(S \ {x})
         /\ Cardinality(S \ {x}) = Cardinality(S) - (IF x \in S THEN 1 ELSE 0)
<1>1. Cardinality(S) \in Nat
  BY FS_CardinalityType
<1>2. IsFiniteSet(S \cup {x}) /\ IsFiniteSet(S \ {x})
  BY FS_AddElement, FS_RemoveElement
<1>3. Cardinality(S \cup {x}) = IF x \in S THEN Cardinality(S) ELSE Cardinality(S) + 1
  BY FS_AddElement
<1>4. Cardinality(S \ {x}) = IF x \in S THEN Cardinality(S) - 1 ELSE Cardinality(S)
  BY FS_RemoveElement
<1> QED
  BY <1>1, <1>2, <1>3, <1>4

\* A connection is cut, read to the end, or opened.
LEMMA ReportsCut ==
  ASSUME LinkTypeOK, NEW c \in Conns, NEW d \in Drones, IsFiniteSet(Reports[d]),
         \A b \in Conns \ {c} : owner'[b] = owner[b] /\ to_server'[b] = to_server[b],
         \/ \A i \in 1..Len(to_server'[c]) : to_server'[c][i] \notin Success
         \/ /\ owner'[c] = owner[c]
            /\ \E n \in 0..Len(to_server[c]) : to_server'[c] = SubSeq(to_server[c], 1, n)
  PROVE  IsFiniteSet(Reports[d])' /\ Cardinality(Reports[d])' <= Cardinality(Reports[d])
<1> DEFINE k == [b \in Conns |-> 0]
<1>1. k \in [Conns -> Nat] /\ \A b \in Conns : k[b] = 0
  OBVIOUS
<1> HIDE DEF k
<1>2. ASSUME NEW b \in Conns, NEW i \in Nat, owner'[b] = d,
             i \in Indices(to_server[b], Success)'
      PROVE  <<b, i>> \in Reports[d]
  <2>1. CASE b # c
    <3>1. owner[b] = d /\ i \in Indices(to_server[b], Success)
      BY <1>2, <2>1 DEF Indices
    <3> QED
      BY <3>1 DEF Reports
  <2>2. CASE b = c
    <3>1. i \in 1..Len(to_server'[c]) /\ to_server'[c][i] \in Success
      BY <1>2, <2>2 DEF Indices
    <3>2. PICK n \in 0..Len(to_server[c]) : to_server'[c] = SubSeq(to_server[c], 1, n)
      BY <3>1
    <3>3. to_server[c] \in Seq(Report) /\ n \in Nat /\ n <= Len(to_server[c])
      BY DEF LinkTypeOK
    <3>4. Len(to_server'[c]) = n /\ to_server'[c][i] = to_server[c][i]
      BY <3>1, <3>2, <3>3
    <3>5. i \in Indices(to_server[c], Success)
      BY <3>1, <3>3, <3>4 DEF Indices
    <3> QED
      BY <1>2, <2>2, <3>1, <3>5 DEF Reports
  <2> QED
    BY <2>1, <2>2
<1>3. ASSUME NEW b \in Conns, NEW i \in Nat, owner'[b] = d,
             i \in Indices(to_server[b], Success)'
      PROVE  <<b, i + k[b]>> \in Reports[d]
  <2>1. i + k[b] = i
    BY <1>1
  <2> QED
    BY <1>2, <1>3, <2>1
<1> QED
  BY <1>1, <1>3, ReportsFewer

\* The server takes a report from a connection, or all of them.
LEMMA ReportsTaken ==
  ASSUME LinkTypeOK, NEW c \in Conns, NEW d \in Drones, IsFiniteSet(Reports[d]),
         to_server[c] # <<>>, UNCHANGED owner,
         \/ to_server' = [to_server EXCEPT ![c] = Tail(@)]
         \/ to_server' = [to_server EXCEPT ![c] = <<>>]
  PROVE  /\ IsFiniteSet(Reports[d])'
         /\ Cardinality(Reports[d])'
              <= Cardinality(Reports[d])
                   - (IF owner[c] = d /\ Head(to_server[c]) \in Success THEN 1 ELSE 0)
<1> DEFINE k == [b \in Conns |-> IF b = c THEN 1 ELSE 0]
           R == Reports[d] \ {<<c, 1>>}
<1>1. k \in [Conns -> Nat] /\ k[c] = 1 /\ \A b \in Conns \ {c} : k[b] = 0
  OBVIOUS
<1> HIDE DEF k
<1>2. /\ to_server \in [Conns -> Seq(Report)]
      /\ to_server[c] \in Seq(Report) /\ Len(to_server[c]) \in Nat \ {0}
      /\ Head(to_server[c]) = to_server[c][1]
  BY DEF LinkTypeOK
<1>3. IsFiniteSet(R) /\ Cardinality(R) = Cardinality(Reports[d])
                                           - (IF <<c, 1>> \in Reports[d] THEN 1 ELSE 0)
  BY OneMore
<1>4. owner[c] = d /\ Head(to_server[c]) \in Success => <<c, 1>> \in Reports[d]
  BY <1>2 DEF Reports, Indices
<1>5. ASSUME NEW b \in Conns, NEW i \in Nat, owner'[b] = d,
             i \in Indices(to_server[b], Success)'
      PROVE  <<b, i + k[b]>> \in R
  <2>1. CASE b # c
    <3>1. k[b] = 0 /\ i + k[b] = i /\ owner[b] = d
      BY <1>1, <1>5, <2>1
    <3>2. i \in Indices(to_server[b], Success)
      BY <1>2, <1>5, <2>1 DEF Indices
    <3> QED
      BY <2>1, <3>1, <3>2 DEF Reports
  <2>2. CASE b = c
    <3>1. i \in 1..Len(to_server'[c]) /\ to_server'[c][i] \in Success
      BY <1>5, <2>2 DEF Indices
    <3>2. to_server'[c] # <<>>
      BY <3>1
    <3>3. to_server'[c] = Tail(to_server[c])
      BY <1>2, <3>2
    <3>4. i + 1 \in 1..Len(to_server[c]) /\ to_server[c][i + 1] \in Success
      BY <1>2, <3>1, <3>3
    <3>5. <<c, i + 1>> \in Reports[d] /\ i + 1 # 1
      BY <1>5, <2>2, <3>1, <3>4 DEF Reports, Indices
    <3>6. <<b, i + k[b]>> = <<c, i + 1>> /\ <<c, i + 1>> # <<c, 1>>
      BY <1>1, <2>2, <3>5
    <3> QED
      BY <3>5, <3>6
  <2> QED
    BY <2>1, <2>2
<1> HIDE DEF R
<1>6. IsFiniteSet(Reports[d])' /\ Cardinality(Reports[d])' <= Cardinality(R)
  BY <1>1, <1>3, <1>5, ReportsFewer
<1>7. /\ Cardinality(Reports[d]) \in Nat /\ Cardinality(R) \in Nat
      /\ Cardinality(Reports[d])' \in Nat
  BY <1>3, <1>6, FS_CardinalityType
<1> QED
  BY <1>3, <1>4, <1>6, <1>7

\* The drone sends a report.
LEMMA ReportsSent ==
  ASSUME LinkTypeOK, NEW c, NEW d \in Drones, IsFiniteSet(Reports[d]), NEW x \in Report,
         UNCHANGED owner, to_server' = [to_server EXCEPT ![c] = Sent(c, @, <<x>>)]
  PROVE  /\ IsFiniteSet(Reports[d])'
         /\ Cardinality(Reports[d])'
              <= Cardinality(Reports[d]) + (IF x \in Success /\ owner[c] = d THEN 1 ELSE 0)
<1> DEFINE k == [b \in Conns |-> 0]
           p == <<c, Len(to_server[c]) + 1>>
           R == IF x \in Success /\ owner[c] = d THEN Reports[d] \cup {p} ELSE Reports[d]
<1>1. k \in [Conns -> Nat] /\ \A b \in Conns : k[b] = 0
  OBVIOUS
<1> HIDE DEF k
<1>2. to_server \in [Conns -> Seq(Report)]
  BY DEF LinkTypeOK
<1>3. /\ IsFiniteSet(R) /\ Cardinality(Reports[d]) \in Nat
      /\ Cardinality(R) <= Cardinality(Reports[d])
                             + (IF x \in Success /\ owner[c] = d THEN 1 ELSE 0)
  <2>1. Cardinality(Reports[d]) \in Nat
    BY FS_CardinalityType
  <2>2. /\ IsFiniteSet(Reports[d] \cup {p})
        /\ Cardinality(Reports[d] \cup {p}) <= Cardinality(Reports[d]) + 1
    BY OneMore
  <2> HIDE DEF p
  <2> QED
    BY <2>1, <2>2
<1>4. ASSUME NEW b \in Conns, NEW i \in Nat, owner'[b] = d,
             i \in Indices(to_server[b], Success)'
      PROVE  <<b, i + k[b]>> \in R
  <2>1. i + k[b] = i /\ owner[b] = d
    BY <1>1, <1>4
  <2>2. CASE to_server'[b] = to_server[b]
    <3>1. i \in Indices(to_server[b], Success)
      BY <1>4, <2>2 DEF Indices
    <3>2. <<b, i>> \in Reports[d]
      BY <2>1, <3>1 DEF Reports
    <3> QED
      BY <2>1, <3>2
  <2>3. CASE b = c /\ to_server'[c] = to_server[c] \o <<x>>
    <3>1. /\ to_server[c] \in Seq(Report)
          /\ i \in 1..Len(to_server'[c]) /\ to_server'[c][i] \in Success
      BY <1>2, <1>4, <2>3 DEF Indices
    <3>2. CASE i \in 1..Len(to_server[c])
      <4>1. i \in Indices(to_server[c], Success)
        BY <2>3, <3>1, <3>2 DEF Indices
      <4>2. <<b, i>> \in Reports[d]
        BY <2>1, <2>3, <4>1 DEF Reports
      <4> QED
        BY <2>1, <4>2
    <3>3. CASE i = Len(to_server[c]) + 1
      <4>1. x \in Success
        BY <2>3, <3>1, <3>3
      <4> QED
        BY <2>1, <2>3, <3>3, <4>1
    <3> QED
      BY <2>3, <3>1, <3>2, <3>3
  <2>4. to_server'[b] = to_server[b] \/ (b = c /\ to_server'[c] = to_server[c] \o <<x>>)
    BY <1>2 DEF Sent
  <2> QED
    BY <2>2, <2>3, <2>4
<1> HIDE DEF R
<1>5. IsFiniteSet(Reports[d])' /\ Cardinality(Reports[d])' <= Cardinality(R)
  BY <1>1, <1>3, <1>4, ReportsFewer
<1>6. Cardinality(R) \in Nat /\ Cardinality(Reports[d])' \in Nat
  BY <1>3, <1>5, FS_CardinalityType
<1> QED
  BY <1>3, <1>5, <1>6

LEMMA CountPublish ==
  ASSUME NEW Q, NEW q \in Seq(Q), NEW e \in Q, NEW S
  PROVE  /\ Publish(q, e) \in Seq(Q)
         /\ Count(Publish(q, e), S) <= Count(q, S) + (IF e \in S THEN 1 ELSE 0)
<1> DEFINE r == Append(q, e)
<1>1. Count(q, S) \in Nat
  BY CountNat
<1>2. r \in Seq(Q) /\ (Publish(q, e) = q \/ Publish(q, e) = r)
  BY DEF Publish
<1>3. Count(r, S) = Count(q, S) + (IF e \in S THEN 1 ELSE 0)
  BY CountAppend
<1> HIDE DEF r
<1>4. CASE Publish(q, e) = q
  BY <1>1, <1>4
<1>5. CASE Publish(q, e) = r
  BY <1>1, <1>2, <1>3, <1>5
<1> QED
  BY <1>2, <1>4, <1>5

LEMMA FlownTypes ==
  ASSUME OrchAssumption, SystemInv, FlownInv, NEW o \in Orchs
  PROVE  /\ LinkInv /\ LinkTypeOK /\ MissionInv(SystemItem) /\ MissionTypeOK
         /\ tasks \in Seq(SystemItem) /\ QuestionsShown
         /\ DroneOf[o] \in Drones /\ IsFiniteSet(Reports[DroneOf[o]])
         /\ Count(tasks, OkFor(o)) \in Nat /\ Cardinality(Reports[DroneOf[o]]) \in Nat
         /\ moves_performed[o] \in Nat /\ flights[DroneOf[o]] \in Nat
         /\ moves_performed[o] + Count(tasks, OkFor(o)) + Cardinality(Reports[DroneOf[o]])
              <= flights[DroneOf[o]]
<1>1. /\ LinkInv /\ LinkTypeOK /\ MissionInv(SystemItem) /\ MissionTypeOK
      /\ tasks \in Seq(SystemItem) /\ QuestionsShown
  BY DEF SystemInv, LinkInv, MissionInv
<1>2. DroneOf[o] \in Drones
  BY DEF OrchAssumption
<1>3. IsFiniteSet(Reports[DroneOf[o]])
  BY <1>2 DEF FlownInv
<1>4. Cardinality(Reports[DroneOf[o]]) \in Nat
  BY <1>3, FS_CardinalityType
<1>5. Count(tasks, OkFor(o)) \in Nat
  BY <1>1, CountNat
<1>6. moves_performed[o] \in Nat /\ flights[DroneOf[o]] \in Nat
  BY <1>1, <1>2 DEF MissionTypeOK, LinkTypeOK
<1>7. moves_performed[o] + Count(tasks, OkFor(o)) + Cardinality(Reports[DroneOf[o]])
        <= flights[DroneOf[o]]
  BY DEF FlownInv
<1> QED
  BY <1>1, <1>2, <1>3, <1>4, <1>5, <1>6, <1>7

\* A mission counts a success when it takes it from the queue.
LEMMA FlownMission ==
  ASSUME OrchAssumption, SystemInv, FlownInv, NEW p \in Orchs, MissionActs(p)
  PROVE  FlownInv'
<1>1. Writes(p) /\ UNCHANGED <<flights, Reports>>
  <2>1. Writes(p) /\ UNCHANGED <<to_server, flights, owner>>
    BY ActsAreMission DEF MissionActs, OrchestratorStep, StartMission, droneVars, linkVars
  <2> QED
    BY <2>1 DEF Reports, Indices
<1>2. ASSUME NEW o \in Orchs
      PROVE  moves_performed'[o] + Count(tasks', OkFor(o))
               <= moves_performed[o] + Count(tasks, OkFor(o))
  <2> DEFINE S == OkFor(o)
  <2>1. /\ MissionTypeOK /\ tasks \in Seq(SystemItem) /\ MissionInv(SystemItem)
        /\ Count(tasks, S) \in Nat /\ moves_performed[o] \in Nat
    BY FlownTypes
  <2>2. Carries(SystemItem) /\ Follows(SystemItem, p, tasks')
    BY <1>1, <2>1, SystemCarries, MissionFollows DEF MissionInv
  <2>3. tasks' \in Seq(SystemItem)
    BY <2>1, <2>2, WritesKeeps
  <2>4. Count(tasks', S) \in Nat
    BY <2>3, CountNat
  <2>5. CASE moves_performed'[o] = moves_performed[o]
    <3>1. /\ \A x \in S : x.type \in EventTypes
          /\ \A x \in SystemItem : \A y : Told(p, x, y) /\ y \in S => x \in S
      BY OkForLasts
    <3> HIDE DEF S
    <3>2. Count(tasks', S) <= Count(tasks, S)
      BY <2>1, <2>2, <3>1, CountWritten
    <3> QED
      BY <2>1, <2>4, <2>5, <3>2 DEF S
  <2>6. CASE /\ o = p /\ MoveSucceeded(o)
             /\ moves_performed'[o] = moves_performed[o] + 1
    <3>1. /\ EventFor(o) /\ Task.type = "MoveExecuted" /\ Task.drone = DroneOf[o]
          /\ Task.ok /\ tasks # <<>> /\ tasks' = Append(Rest(o), GetPhoto(o))
      BY <2>6 DEF MoveSucceeded, Handles, EventFor, Concerns, DroneEventTypes
    <3>2. Task \in SystemItem /\ Task = Head(tasks) /\ o \in Task.to
      BY <2>1, <3>1 DEF Task, EventFor
    <3>3. Task \in S
      BY <3>1, <3>2 DEF OkFor
    <3>4. Passed(o) \notin S
      <4>1. Task.type \in EventTypes
        BY <3>1 DEF EventFor, EventTypes
      <4>2. Told(o, Task, Passed(o))
        BY <2>2, <3>2, <4>1 DEF Carries, Passed
      <4> QED
        BY <4>2, OkForLasts
    <3>5. GetPhoto(o) \in SystemItem /\ GetPhoto(o) \notin S
      BY <2>2 DEF Carries, OwnItems, OkFor, GetPhoto
    <3> HIDE DEF S
    <3>6. Rest(o) \in Seq(SystemItem) /\ Count(Rest(o), S) = Count(Tail(tasks), S)
      <4>1. Tail(tasks) \in Seq(SystemItem)
        BY <2>1, <3>1
      <4>2. Count(Tail(tasks), S) \in Nat
        BY <4>1, CountNat
      <4> QED
        BY <2>1, <2>2, <3>1, <3>4, <4>2, CountRest
    <3>7. Count(tasks, S) = Count(Tail(tasks), S) + 1
      BY <2>1, <3>1, <3>2, <3>3, CountTail
    <3>8. Count(tasks', S) = Count(Rest(o), S) + 0
      BY <3>1, <3>5, <3>6, CountAppend
    <3>9. Count(Tail(tasks), S) \in Nat
      <4>1. Tail(tasks) \in Seq(SystemItem)
        BY <2>1, <3>1
      <4> QED
        BY <4>1, CountNat
    <3>10. Count(tasks', S) + 1 = Count(tasks, S)
      BY <3>6, <3>7, <3>8, <3>9
    <3>11. moves_performed'[o] + Count(tasks', S) = moves_performed[o] + Count(tasks, S)
      BY <2>1, <2>4, <2>6, <3>10
    <3> QED
      BY <2>1, <2>4, <3>11 DEF S
  <2> QED
    BY <1>1, <2>1, <2>5, <2>6, CountsSuccess
<1>3. ASSUME NEW o \in Orchs
      PROVE  /\ moves_performed'[o] + Count(tasks', OkFor(o)) \in Int
             /\ Count(tasks, OkFor(o)) \in Nat
  <2>1. /\ MissionTypeOK' /\ tasks' \in Seq(SystemItem)
    BY FlownTypes, <1>1, OrchAssumption, SystemCarries, MissionKeeps DEF MissionInv
  <2>2. Count(tasks', OkFor(o)) \in Nat /\ moves_performed'[o] \in Nat
    BY <2>1, CountNat DEF MissionTypeOK
  <2> QED
    BY <2>2, FlownTypes
<1>4. ASSUME NEW o \in Orchs
      PROVE  moves_performed'[o] + Count(tasks', OkFor(o)) + Cardinality(Reports'[DroneOf[o]])
               <= flights'[DroneOf[o]]
  <2> DEFINE a == moves_performed'[o] + Count(tasks', OkFor(o))
             b == moves_performed[o] + Count(tasks, OkFor(o))
  <2>1. a \in Int /\ b \in Int /\ a <= b
    BY <1>2, <1>3, FlownTypes
  <2>2. /\ b + Cardinality(Reports[DroneOf[o]]) <= flights[DroneOf[o]]
        /\ Cardinality(Reports[DroneOf[o]]) \in Nat /\ flights[DroneOf[o]] \in Nat
    BY FlownTypes
  <2> HIDE DEF a, b
  <2>3. a + Cardinality(Reports[DroneOf[o]]) <= flights[DroneOf[o]]
    BY <2>1, <2>2
  <2> QED
    BY <1>1, <2>3 DEF a
<1> QED
  BY <1>1, <1>4 DEF FlownInv

\* The rest of the program: successes are reported after a flight, and turned into
\* events one by one.
LEMMA FlownRest ==
  ASSUME OrchAssumption, SystemInv, FlownInv, UNCHANGED moves_performed,
         \A d \in Drones : IsFiniteSet(Reports[d])',
         \A o \in Orchs :
           Count(tasks', OkFor(o)) + Cardinality(Reports'[DroneOf[o]]) + flights[DroneOf[o]]
             <= Count(tasks, OkFor(o)) + Cardinality(Reports[DroneOf[o]])
                  + flights'[DroneOf[o]],
         tasks' \in Seq(SystemItem), flights' \in [Drones -> Nat]
  PROVE  FlownInv'
<1> SUFFICES ASSUME NEW o \in Orchs
             PROVE  moves_performed'[o] + Count(tasks', OkFor(o))
                      + Cardinality(Reports'[DroneOf[o]]) <= flights'[DroneOf[o]]
  BY DEF FlownInv
<1> DEFINE d == DroneOf[o]
<1>1. Count(tasks', OkFor(o)) \in Nat /\ Cardinality(Reports'[d]) \in Nat /\ flights'[d] \in Nat
  <2>1. d \in Drones
    BY FlownTypes
  <2>2. IsFiniteSet(Reports'[d])
    BY <2>1
  <2> QED
    BY <2>1, <2>2, CountNat, FS_CardinalityType
<1>2. /\ Count(tasks, OkFor(o)) \in Nat /\ Cardinality(Reports[d]) \in Nat
      /\ moves_performed[o] \in Nat /\ flights[d] \in Nat
      /\ moves_performed[o] + Count(tasks, OkFor(o)) + Cardinality(Reports[d]) <= flights[d]
  BY FlownTypes
<1>3. Count(tasks', OkFor(o)) + Cardinality(Reports'[d]) + flights[d]
        <= Count(tasks, OkFor(o)) + Cardinality(Reports[d]) + flights'[d]
  OBVIOUS
<1>4. moves_performed'[o] = moves_performed[o]
  OBVIOUS
<1> DEFINE a == Count(tasks, OkFor(o))
           b == Count(tasks', OkFor(o))
           r == Cardinality(Reports[d])
           t == Cardinality(Reports'[d])
           f == flights[d]
           g == flights'[d]
           m == moves_performed[o]
<1>5. /\ a \in Nat /\ b \in Nat /\ r \in Nat /\ t \in Nat /\ f \in Nat /\ g \in Nat
      /\ m \in Nat /\ m + a + r <= f /\ b + t + f <= a + r + g
  BY <1>1, <1>2, <1>3
<1> HIDE DEF a, b, r, t, f, g, m
<1>6. m + b + t <= g
  BY <1>5
<1> QED
  BY <1>4, <1>6 DEF a, b, r, t, f, g, m, d

\* Steps that send nothing to the server and leave the flights alone.
LEMMA FlownCalm ==
  ASSUME OrchAssumption, SystemInv, FlownInv, NEW T, ServesAndTells(T),
         "MoveExecuted" \notin T, UNCHANGED flights,
         \A d \in Drones : /\ IsFiniteSet(Reports[d])'
                           /\ Cardinality(Reports[d])' <= Cardinality(Reports[d])
  PROVE  FlownInv'
<1>1. tasks \in Seq(SystemItem) /\ flights' \in [Drones -> Nat]
  BY DEF SystemInv, MissionInv, LinkInv, LinkTypeOK
<1>2. ASSUME NEW o \in Orchs
      PROVE  Count(tasks', OkFor(o)) <= Count(tasks, OkFor(o)) /\ tasks' \in Seq(SystemItem)
  <2>1. \A x \in OkFor(o) : x.type \notin T
    BY OkForLasts
  <2> QED
    BY <1>1, <2>1, CountServed
<1>3. tasks' \in Seq(SystemItem)
  BY <1>1, ServedKeeps DEF ServesAndTells
<1>4. UNCHANGED moves_performed
  BY DEF ServesAndTells, Served, orchVars
<1>5. ASSUME NEW o \in Orchs
      PROVE  Count(tasks', OkFor(o)) + Cardinality(Reports'[DroneOf[o]]) + flights[DroneOf[o]]
               <= Count(tasks, OkFor(o)) + Cardinality(Reports[DroneOf[o]])
                    + flights'[DroneOf[o]]
  <2> DEFINE d == DroneOf[o]
             a == Count(tasks', OkFor(o))
             b == Count(tasks, OkFor(o))
             x == Cardinality(Reports'[d])
             y == Cardinality(Reports[d])
  <2>1. d \in Drones /\ b \in Nat /\ y \in Nat /\ flights[d] \in Nat
    BY FlownTypes
  <2>2. a \in Nat /\ a <= b
    BY <1>2, <1>3, CountNat
  <2>3. x \in Nat /\ x <= y
    BY <2>1, FS_CardinalityType
  <2>4. flights'[d] = flights[d]
    OBVIOUS
  <2> HIDE DEF a, b, x, y, d
  <2>5. a + x + flights[d] <= b + y + flights'[d]
    BY <2>1, <2>2, <2>3, <2>4
  <2> QED
    BY <2>5 DEF a, b, x, y, d
<1> QED
  BY <1>1, <1>3, <1>4, <1>5, FlownRest

NoSuccess == EventTypes \ {"MoveExecuted"}

LEMMA NoSuccessTypes ==
  /\ DroneNotice \subseteq NoSuccess /\ ChatNotice \subseteq NoSuccess
  /\ {"VlmAnalysisCompleted", "UserDecisionReceived", "PhotoWithTelemetryReceived"}
       \subseteq NoSuccess
  /\ "MoveExecuted" \notin NoSuccess
  BY DEF NoSuccess, EventTypes, DroneEventTypes, MissionEventTypes, DroneNotice, ChatNotice

LEMMA ReportsSame ==
  ASSUME FlownInv, UNCHANGED <<owner, to_server>>, NEW d \in Drones
  PROVE  IsFiniteSet(Reports[d])' /\ Cardinality(Reports[d])' <= Cardinality(Reports[d])
<1>1. Reports' = Reports
  BY DEF Reports, Indices
<1>2. IsFiniteSet(Reports[d])
  BY DEF FlownInv
<1>3. Cardinality(Reports[d]) \in Nat
  BY <1>2, FS_CardinalityType
<1> QED
  BY <1>1, <1>2, <1>3

\* The server takes anything but the report of a move.
LEMMA FlownServed ==
  ASSUME OrchAssumption, BridgeAssumption, SystemInv, FlownInv, NEW c \in Conns, Serve(c),
         ~ReceiveMoveReport(c), UNCHANGED clientVars
  PROVE  FlownInv'
<1>1. /\ LinkInv /\ LinkTypeOK /\ tasks \in Seq(SystemItem)
      /\ to_server \in [Conns -> Seq(Report)]
  BY DEF SystemInv, LinkInv, LinkTypeOK, MissionInv
<1>2. ServesAndTells(NoSuccess)
  BY <1>1, ServeTells, NoSuccessTypes
<1>3. UNCHANGED <<owner, flights>>
  BY DEF Serve, Reject, Accept, AuthFails, ReceiveMoveAck, ReceivePhoto, PhotoNotStored,
         EndOfMessages, Leave, Reported, linkVars, clientVars
<1>4. \/ to_server' = [to_server EXCEPT ![c] = <<>>]
      \/ to_server[c] # <<>> /\ to_server' = [to_server EXCEPT ![c] = Tail(@)]
      \/ UNCHANGED to_server
  BY DEF Serve, Reject, Accept, AuthFails, ReceiveMoveAck, ReceivePhoto, PhotoNotStored,
         EndOfMessages, Leave, Reported, Incoming, linkVars
<1>5. ASSUME NEW d \in Drones
      PROVE  IsFiniteSet(Reports[d])' /\ Cardinality(Reports[d])' <= Cardinality(Reports[d])
  <2>1. IsFiniteSet(Reports[d])
    BY DEF FlownInv
  <2>2. CASE to_server' = [to_server EXCEPT ![c] = <<>>]
    <3>1. \A b \in Conns \ {c} : owner'[b] = owner[b] /\ to_server'[b] = to_server[b]
      BY <1>1, <1>3, <2>2
    <3>2. \A i \in 1..Len(to_server'[c]) : to_server'[c][i] \notin Success
      <4>1. to_server'[c] = <<>>
        BY <1>1, <2>2
      <4> QED
        BY <4>1
    <3> QED
      BY <1>1, <2>1, <3>1, <3>2, ReportsCut
  <2>3. CASE to_server[c] # <<>> /\ to_server' = [to_server EXCEPT ![c] = Tail(@)]
    <3>1. /\ IsFiniteSet(Reports[d])'
          /\ Cardinality(Reports[d])'
               <= Cardinality(Reports[d])
                    - (IF owner[c] = d /\ Head(to_server[c]) \in Success THEN 1 ELSE 0)
      BY <1>1, <1>3, <2>1, <2>3, ReportsTaken
    <3>2. Cardinality(Reports[d]) \in Nat /\ Cardinality(Reports[d])' \in Nat
      BY <2>1, <3>1, FS_CardinalityType
    <3> QED
      BY <3>1, <3>2
  <2>4. CASE UNCHANGED to_server
    BY <1>3, <2>4, ReportsSame
  <2> QED
    BY <1>4, <2>2, <2>3, <2>4
<1> QED
  BY <1>2, <1>3, <1>5, NoSuccessTypes, FlownCalm

\* The report of a move becomes an event.
LEMMA FlownReported ==
  ASSUME OrchAssumption, BridgeAssumption, SystemInv, FlownInv, NEW c \in Conns,
         ReceiveMoveReport(c), UNCHANGED clientVars
  PROVE  FlownInv'
<1> DEFINE e == [type |-> "MoveExecuted", drone |-> owner[c],
                 ok |-> Head(to_server[c]).ok, to |-> Subscribed]
<1>1. /\ LinkInv /\ LinkTypeOK /\ tasks \in Seq(SystemItem)
      /\ to_server \in [Conns -> Seq(Report)]
  BY DEF SystemInv, LinkInv, LinkTypeOK, MissionInv
<1>2. /\ handler[c] = "serving" /\ to_server[c] # <<>>
      /\ Head(to_server[c]).type = "MOVE_EXECUTED" /\ Reported(c, Publish(tasks, e))
  BY DEF ReceiveMoveReport, Incoming
<1>3. owner[c] \in Drones
  BY <1>1, <1>2 DEF LinkInv, Owned
<1>4. Subscribed \subseteq Orchs
  BY DEF Subscribed
<1>5. /\ Head(to_server[c]).ok \in BOOLEAN
      /\ Head(to_server[c]).ok => Head(to_server[c]) \in Success
  <2>1. Head(to_server[c]) \in Report
    BY <1>1, <1>2
  <2> QED
    BY <1>2, <2>1 DEF Report, Auth, MoveAck, MoveReport, PhotoReport, Success
<1>6. e \in SystemItem
  BY <1>3, <1>4, <1>5 DEF SystemItem, Items, Events
<1>7. ASSUME NEW o \in Orchs, e \in OkFor(o)
      PROVE  owner[c] = DroneOf[o] /\ Head(to_server[c]) \in Success
  BY <1>5, <1>7 DEF OkFor
<1> HIDE DEF e
<1>8. /\ UNCHANGED <<owner, flights, moves_performed>>
      /\ \/ to_server' = [to_server EXCEPT ![c] = Tail(@)]
         \/ to_server' = [to_server EXCEPT ![c] = <<>>]
  BY <1>2 DEF Reported, Leave, orchVars, clientVars
<1>9. \/ tasks' = Publish(tasks, e)
      \/ \E type \in DroneNotice :
           tasks' = Publish(Publish(tasks, e), Notified(type, owner[c]))
  <2>1. CASE ~noticed[c]
    BY <1>2, <2>1 DEF Reported
  <2>2. CASE noticed[c]
    <3>1. \/ tasks' = Tell(Publish(tasks, e), "DroneDisconnected", owner[c])
          \/ tasks' = Tell(Publish(tasks, e), "DroneConnectionLost", owner[c])
      BY <1>2, <2>2 DEF Reported, Leave
    <3>2. {"DroneDisconnected", "DroneConnectionLost"} \subseteq DroneNotice
      BY DEF DroneNotice
    <3> QED
      BY <1>3, <3>1, <3>2, NoticeIsNews
  <2> QED
    BY <2>1, <2>2
<1>10. ASSUME NEW o \in Orchs
       PROVE  /\ tasks' \in Seq(SystemItem)
              /\ Count(tasks', OkFor(o))
                   <= Count(tasks, OkFor(o)) + (IF e \in OkFor(o) THEN 1 ELSE 0)
  <2> DEFINE q == Publish(tasks, e)
             S == OkFor(o)
  <2>1. /\ q \in Seq(SystemItem)
        /\ Count(q, S) <= Count(tasks, S) + (IF e \in S THEN 1 ELSE 0)
    BY <1>1, <1>6, CountPublish
  <2>2. CASE tasks' = q
    BY <2>1, <2>2
  <2>3. CASE \E type \in DroneNotice : tasks' = Publish(q, Notified(type, owner[c]))
    <3>1. PICK type \in DroneNotice : tasks' = Publish(q, Notified(type, owner[c]))
      BY <2>3
    <3> DEFINE f == Notified(type, owner[c])
    <3>2. f \in SystemItem /\ f.type = type
      BY <1>3, NoticeIsNews
    <3>3. f \notin S
      BY <3>2, OkForLasts DEF DroneNotice
    <3> HIDE DEF f
    <3>4. tasks' = Publish(q, f)
      BY <3>1 DEF f
    <3> HIDE DEF q, S
    <3>5. tasks' \in Seq(SystemItem) /\ Count(tasks', S) <= Count(q, S) + 0
      BY <2>1, <3>2, <3>3, <3>4, CountPublish
    <3>6. Count(q, S) \in Nat /\ Count(tasks', S) \in Nat /\ Count(tasks, S) \in Nat
      BY <1>1, <2>1, <3>5, CountNat
    <3>7. Count(tasks', S) <= Count(tasks, S) + (IF e \in S THEN 1 ELSE 0)
      BY <2>1, <3>5, <3>6
    <3> QED
      BY <3>5, <3>7 DEF S
  <2> QED
    BY <1>9, <2>2, <2>3
<1>11. ASSUME NEW d \in Drones
       PROVE  /\ IsFiniteSet(Reports[d])'
              /\ Cardinality(Reports[d])'
                   <= Cardinality(Reports[d])
                        - (IF owner[c] = d /\ Head(to_server[c]) \in Success THEN 1 ELSE 0)
  <2>1. IsFiniteSet(Reports[d])
    BY DEF FlownInv
  <2> QED
    BY <1>1, <1>2, <1>8, <2>1, ReportsTaken
<1>12. \A d \in Drones : IsFiniteSet(Reports[d])'
  BY <1>11
<1>13. ASSUME NEW o \in Orchs
       PROVE  Count(tasks', OkFor(o)) + Cardinality(Reports'[DroneOf[o]]) + flights[DroneOf[o]]
                <= Count(tasks, OkFor(o)) + Cardinality(Reports[DroneOf[o]])
                     + flights'[DroneOf[o]]
  <2> DEFINE d == DroneOf[o]
             a == Count(tasks', OkFor(o))
             b == Count(tasks, OkFor(o))
             x == Cardinality(Reports'[d])
             y == Cardinality(Reports[d])
             m == IF e \in OkFor(o) THEN 1 ELSE 0
             n == IF owner[c] = d /\ Head(to_server[c]) \in Success THEN 1 ELSE 0
  <2>1. d \in Drones /\ b \in Nat /\ y \in Nat /\ flights[d] \in Nat
    BY FlownTypes
  <2>2. a \in Nat /\ a <= b + m
    BY <1>10, CountNat
  <2>3. x \in Nat /\ x <= y - n
    BY <1>11, <2>1, FS_CardinalityType
  <2>4. m <= n /\ m \in {0, 1} /\ n \in {0, 1}
    BY <1>7
  <2>5. flights'[d] = flights[d]
    BY <1>8
  <2> HIDE DEF a, b, x, y, d, m, n
  <2>6. a + x + flights[d] <= b + y + flights'[d]
    BY <2>1, <2>2, <2>3, <2>4, <2>5
  <2> QED
    BY <2>6 DEF a, b, x, y, d
<1>14. flights' \in [Drones -> Nat]
  BY <1>1, <1>8 DEF LinkTypeOK
<1>15. Orchs # {} => tasks' \in Seq(SystemItem)
  BY <1>10
<1>16. CASE Orchs = {}
  BY <1>12, <1>16 DEF FlownInv
<1>17. CASE Orchs # {}
  BY <1>8, <1>12, <1>13, <1>14, <1>15, <1>17, FlownRest
<1> QED
  BY <1>16, <1>17

\* Steps of the drones and the network.
LEMMA FlownOutside ==
  ASSUME OrchAssumption, SystemInv, FlownInv, UNCHANGED missionVars,
         flights' \in [Drones -> Nat],
         \A d \in Drones :
           /\ IsFiniteSet(Reports[d])'
           /\ Cardinality(Reports[d])' + flights[d]
                <= Cardinality(Reports[d]) + flights'[d]
  PROVE  FlownInv'
<1>1. UNCHANGED <<tasks, moves_performed>> /\ tasks' \in Seq(SystemItem)
  BY DEF missionVars, orchVars, SystemInv, MissionInv
<1>2. ASSUME NEW o \in Orchs
      PROVE  Count(tasks', OkFor(o)) + Cardinality(Reports'[DroneOf[o]]) + flights[DroneOf[o]]
               <= Count(tasks, OkFor(o)) + Cardinality(Reports[DroneOf[o]])
                    + flights'[DroneOf[o]]
  <2> DEFINE d == DroneOf[o]
             b == Count(tasks, OkFor(o))
             x == Cardinality(Reports'[d])
             y == Cardinality(Reports[d])
  <2>1. d \in Drones /\ b \in Nat /\ y \in Nat /\ flights[d] \in Nat
    BY FlownTypes
  <2>2. x \in Nat
    BY <2>1, FS_CardinalityType
  <2>3. x + flights[d] <= y + flights'[d] /\ flights'[d] \in Nat
    BY <2>1
  <2>4. Count(tasks', OkFor(o)) = b
    BY <1>1
  <2> HIDE DEF b, x, y, d
  <2>5. b + x + flights[d] <= b + y + flights'[d]
    BY <2>1, <2>2, <2>3
  <2> QED
    BY <2>4, <2>5 DEF b, x, y, d
<1>3. \A d \in Drones : IsFiniteSet(Reports[d])'
  OBVIOUS
<1> QED
  BY <1>1, <1>2, <1>3, FlownRest

LEMMA FlownDrone ==
  ASSUME OrchAssumption, BridgeAssumption, ClientAssumption,
         <<FALSE, TRUE>> \notin MoveOutcomes, SystemInv, FlownInv, NEW d \in Drones,
         \/ Dispatch(d) \/ FinishMove(d) \/ ConnectionGone(d) \/ Shutdown(d),
         UNCHANGED missionVars
  PROVE  FlownInv'
<1>1. /\ LinkInv /\ LinkTypeOK /\ Owned /\ flights \in [Drones -> Nat]
      /\ to_server \in [Conns -> Seq(Report)]
      /\ \A x \in Drones : IsFiniteSet(Reports[x])
  BY DEF SystemInv, LinkInv, LinkTypeOK, FlownInv
<1>2. ASSUME NEW x \in Drones
      PROVE  Cardinality(Reports[x]) \in Nat /\ flights[x] \in Nat
  BY <1>1, FS_CardinalityType
<1>3. UNCHANGED owner
  BY DEF Dispatch, AuthAnswer, TakePhoto, BeginMove, FinishMove, ConnectionGone, Shutdown
<1>4. ASSUME NEW x \in Drones, NEW r \in Report, Send(d, r)
      PROVE  /\ IsFiniteSet(Reports[x])'
             /\ Cardinality(Reports[x])'
                  <= Cardinality(Reports[x]) + (IF r \in Success /\ x = d THEN 1 ELSE 0)
  <2>1. CASE proc[d] = NoConn
    <3>1. to_server' = to_server
      BY <1>1, <1>4, <2>1, NoConnIsNone DEF Send
    <3>2. IsFiniteSet(Reports[x])' /\ Cardinality(Reports[x])' <= Cardinality(Reports[x])
      BY <1>3, <3>1, ReportsSame
    <3>3. Cardinality(Reports[x]) \in Nat /\ Cardinality(Reports[x])' \in Nat
      BY <1>2, <3>2, FS_CardinalityType
    <3> QED
      BY <3>2, <3>3
  <2>2. CASE proc[d] # NoConn
    <3>1. owner[proc[d]] = d
      BY <1>1, <2>2 DEF Owned
    <3>2. to_server' = [to_server EXCEPT ![proc[d]] = Sent(proc[d], @, <<r>>)]
      BY <1>4 DEF Send
    <3>3. /\ IsFiniteSet(Reports[x])'
          /\ Cardinality(Reports[x])'
               <= Cardinality(Reports[x])
                    + (IF r \in Success /\ owner[proc[d]] = x THEN 1 ELSE 0)
      BY <1>1, <1>3, <3>2, ReportsSent
    <3> QED
      BY <3>1, <3>3
  <2> QED
    BY <2>1, <2>2
<1>5. ASSUME NEW r \in Report, Send(d, r), r \notin Success, UNCHANGED flights
      PROVE  FlownInv'
  <2>1. ASSUME NEW x \in Drones
        PROVE  /\ IsFiniteSet(Reports[x])'
               /\ Cardinality(Reports[x])' + flights[x]
                    <= Cardinality(Reports[x]) + flights'[x]
    <3>1. IsFiniteSet(Reports[x])' /\ Cardinality(Reports[x])' <= Cardinality(Reports[x]) + 0
      BY <1>4, <1>5
    <3>2. Cardinality(Reports[x]) \in Nat /\ Cardinality(Reports[x])' \in Nat
          /\ flights[x] \in Nat /\ flights'[x] = flights[x]
      BY <1>2, <1>5, <3>1, FS_CardinalityType
    <3> QED
      BY <3>1, <3>2
  <2> QED
    BY <1>1, <1>5, <2>1, FlownOutside
<1>6. ASSUME UNCHANGED to_server, \A x \in Drones : flights'[x] >= flights[x],
             flights' \in [Drones -> Nat]
      PROVE  FlownInv'
  <2>1. ASSUME NEW x \in Drones
        PROVE  /\ IsFiniteSet(Reports[x])'
               /\ Cardinality(Reports[x])' + flights[x]
                    <= Cardinality(Reports[x]) + flights'[x]
    <3>1. IsFiniteSet(Reports[x])' /\ Cardinality(Reports[x])' <= Cardinality(Reports[x])
      BY <1>3, <1>6, ReportsSame
    <3>2. Cardinality(Reports[x]) \in Nat /\ Cardinality(Reports[x])' \in Nat
          /\ flights[x] \in Nat /\ flights'[x] \in Nat /\ flights'[x] >= flights[x]
      BY <1>2, <1>6, <3>1, FS_CardinalityType
    <3> QED
      BY <3>1, <3>2
  <2> QED
    BY <1>6, <2>1, FlownOutside
<1>7. CASE AuthAnswer(d)
  <2>1. UNCHANGED <<to_server, flights>>
    BY <1>7 DEF AuthAnswer
  <2> QED
    BY <1>1, <1>2, <1>6, <2>1
<1>8. CASE TakePhoto(d)
  <2>1. PICK r : Send(d, r) /\ r \in {PhotoReport(flights[d]), PhotoReport(NoPhoto)}
    BY <1>8 DEF TakePhoto
  <2>2. r \in Report /\ r \notin Success
    BY <1>1, <2>1 DEF Report, PhotoReport, NoPhoto, Success, MoveReport
  <2>3. UNCHANGED flights
    BY <1>8 DEF TakePhoto, clientVars
  <2> QED
    BY <1>5, <2>1, <2>2, <2>3
<1>9. CASE BeginMove(d)
  <2>1. MoveAck \in Report /\ MoveAck \notin Success
    BY DEF Report, Success, MoveAck, MoveReport
  <2> QED
    BY <1>5, <1>9, <2>1 DEF BeginMove
<1>10. CASE FinishMove(d)
  <2>1. PICK result \in MoveOutcomes :
          /\ flights' = [flights EXCEPT ![d] = IF result[1] THEN @ + 1 ELSE @]
          /\ Send(d, MoveReport(result[2]))
    BY <1>10 DEF FinishMove
  <2>2. result \in BOOLEAN \X BOOLEAN /\ (result[2] => result[1])
    <3>1. result \in BOOLEAN \X BOOLEAN
      BY DEF ClientAssumption
    <3>2. result = <<result[1], result[2]>> /\ result[1] \in BOOLEAN /\ result[2] \in BOOLEAN
      BY <3>1
    <3> QED
      BY <3>1, <3>2
  <2>3. /\ MoveReport(result[2]) \in Report
        /\ MoveReport(result[2]) \in Success => result[1]
    BY <2>2 DEF Report, Success, MoveReport
  <2>4. flights' \in [Drones -> Nat] /\ \A x \in Drones : flights'[x] =
          IF x = d /\ result[1] THEN flights[x] + 1 ELSE flights[x]
    BY <1>1, <2>1
  <2>5. ASSUME NEW x \in Drones
        PROVE  /\ IsFiniteSet(Reports[x])'
               /\ Cardinality(Reports[x])' + flights[x]
                    <= Cardinality(Reports[x]) + flights'[x]
    <3> DEFINE one == IF MoveReport(result[2]) \in Success /\ x = d THEN 1 ELSE 0
    <3>1. IsFiniteSet(Reports[x])' /\ Cardinality(Reports[x])' <= Cardinality(Reports[x]) + one
      BY <1>4, <2>1, <2>3
    <3>2. Cardinality(Reports[x]) \in Nat /\ Cardinality(Reports[x])' \in Nat
          /\ flights[x] \in Nat
      BY <1>2, <3>1, FS_CardinalityType
    <3>3. flights'[x] >= flights[x] + one /\ one \in Nat
      BY <2>3, <2>4, <3>2
    <3> HIDE DEF one
    <3>4. flights'[x] \in Nat
      BY <2>4
    <3> QED
      BY <3>1, <3>2, <3>3, <3>4
  <2> QED
    BY <2>4, <2>5, FlownOutside
<1>11. CASE ConnectionGone(d) \/ Shutdown(d)
  <2>1. UNCHANGED to_server /\ \E n \in 0..flying[d] : flights' = [flights EXCEPT ![d] = @ + n]
    BY <1>11 DEF ConnectionGone, Shutdown, Exit
  <2>2. PICK n \in 0..flying[d] : flights' = [flights EXCEPT ![d] = @ + n]
    BY <2>1
  <2>3. n \in Nat
    BY <2>2, <1>1 DEF LinkTypeOK
  <2>4. flights' \in [Drones -> Nat] /\ \A x \in Drones : flights'[x] >= flights[x]
    BY <1>1, <1>2, <2>2, <2>3
  <2> QED
    BY <1>6, <2>1, <2>4
<1> QED
  BY <1>7, <1>8, <1>9, <1>10, <1>11 DEF Dispatch

LEMMA FlownNetwork ==
  ASSUME OrchAssumption, SystemInv, FlownInv, UNCHANGED <<missionVars, flights>>,
         NEW c \in Conns,
         \/ Break(c) \/ Notice(c)
         \/ \E d \in Drones : Open(c, d)
  PROVE  FlownInv'
<1>1. /\ LinkTypeOK /\ flights' \in [Drones -> Nat]
      /\ to_server \in [Conns -> Seq(Report)] /\ owner \in [Conns -> Drones \cup {NoDrone}]
  BY DEF SystemInv, LinkInv, LinkTypeOK, BridgeTypeOK
<1>2. ASSUME NEW x \in Drones
      PROVE  /\ IsFiniteSet(Reports[x])'
             /\ Cardinality(Reports[x])' <= Cardinality(Reports[x])
  <2>1. IsFiniteSet(Reports[x])
    BY DEF FlownInv
  <2>2. CASE Notice(c)
    BY <2>2, ReportsSame DEF Notice
  <2>3. CASE Break(c)
    <3>1. PICK n \in 0..Len(to_server[c]) :
            to_server' = [to_server EXCEPT ![c] = SubSeq(@, 1, n)]
      BY <2>3 DEF Break
    <3>2. /\ \A b \in Conns \ {c} : owner'[b] = owner[b] /\ to_server'[b] = to_server[b]
          /\ owner'[c] = owner[c] /\ to_server'[c] = SubSeq(to_server[c], 1, n)
      BY <1>1, <2>3, <3>1 DEF Break
    <3> QED
      BY <1>1, <2>1, <3>2, ReportsCut
  <2>4. CASE \E d \in Drones : Open(c, d)
    <3>1. /\ \A b \in Conns \ {c} : owner'[b] = owner[b] /\ to_server'[b] = to_server[b]
          /\ to_server'[c] = <<Auth>>
      BY <1>1, <2>4 DEF Open
    <3>2. \A i \in 1..Len(to_server'[c]) : to_server'[c][i] \notin Success
      BY <3>1 DEF Auth, Success, MoveReport
    <3> QED
      BY <1>1, <2>1, <3>1, <3>2, ReportsCut
  <2> QED
    BY <2>2, <2>3, <2>4
<1>3. ASSUME NEW x \in Drones
      PROVE  /\ IsFiniteSet(Reports[x])'
             /\ Cardinality(Reports[x])' + flights[x] <= Cardinality(Reports[x]) + flights'[x]
  <2>1. IsFiniteSet(Reports[x]) /\ flights'[x] = flights[x] /\ flights'[x] \in Nat
    BY <1>1 DEF FlownInv
  <2>2. Cardinality(Reports[x]) \in Nat /\ Cardinality(Reports[x])' \in Nat
    BY <1>2, <2>1, FS_CardinalityType
  <2> QED
    BY <1>2, <2>1, <2>2
<1> QED
  BY <1>1, <1>3, FlownOutside

LEMMA FlownNext ==
  ASSUME <<FALSE, TRUE>> \notin MoveOutcomes, SystemInv, FlownInv, [SystemNext]_systemVars
  PROVE  FlownInv'
<1> USE OrchAssumption, BridgeAssumption, ClientAssumption
<1>1. LinkInv /\ tasks \in Seq(SystemItem) /\ QuestionsShown
  BY DEF SystemInv, MissionInv
<1>2. ASSUME UNCHANGED <<owner, to_server, flights>>, ServesAndTells(NoSuccess)
      PROVE  FlownInv'
  BY <1>2, ReportsSame, FlownCalm, NoSuccessTypes
<1>3. CASE UNCHANGED systemVars
  <2>1. /\ UNCHANGED <<owner, to_server, flights>>
        /\ UNCHANGED <<orchVars, tasks, bridgeVars, wire>>
    BY <1>3 DEF systemVars, missionVars, droneVars, linkVars, clientVars
  <2> QED
    BY <1>1, <1>2, <2>1, CalmTaken
<1>4. CASE \E o \in Orchs : MissionActs(o)
  BY <1>4, FlownMission
<1>5. CASE ChatCommand \/ OperatorCommand \/ DroneCommand
  <2>1. UNCHANGED <<owner, to_server, flights>>
    BY <1>5 DEF ChatCommand, OperatorCommand, DroneCommand, HandleGetPhoto, SendMove,
                SendCommand, droneVars, linkVars, clientVars
  <2> QED
    BY <1>1, <1>2, <1>5, <2>1, ChatTells, OperatorTells, DroneCommandTells, NoSuccessTypes
<1>6. CASE \E m \in Missions : ChatStep(m)
  <2>1. UNCHANGED <<owner, to_server, flights>>
    BY <1>6 DEF ChatStep, droneVars, linkVars, clientVars
  <2> QED
    BY <1>1, <1>2, <1>6, <2>1, ChatStepTells, NoSuccessTypes
<1>7. CASE \E u \in UIs : OperatorStep(u)
  <2>1. UNCHANGED <<owner, to_server, flights>>
    BY <1>7 DEF OperatorStep, droneVars, linkVars, clientVars
  <2> QED
    BY <1>1, <1>2, <1>7, <2>1, OperatorStepTells, NoSuccessTypes
<1>8. CASE \E c \in Conns : ServerStep(c)
  BY <1>8, FlownServed, FlownReported, FlownNetwork DEF ServerStep, clientVars
<1>9. CASE \E d \in Drones : DroneStep(d) \/ RestartDrone(d)
  <2>1. CASE \E d \in Drones : RestartDrone(d)
    BY <2>1, FlownNetwork DEF RestartDrone, StartProcess
  <2> QED
    BY <1>9, <2>1, FlownDrone DEF DroneStep
<1>10. CASE ConnectionLost
  BY <1>10, FlownDrone, FlownNetwork DEF ConnectionLost, clientVars
<1> QED
  BY <1>3, <1>4, <1>5, <1>6, <1>7, <1>8, <1>9, <1>10
  DEF SystemNext, LoopStep, MissionActs

LEMMA FlownStart ==
  ASSUME SystemInit
  PROVE  FlownInv
<1>1. ASSUME NEW d \in Drones
      PROVE  IsFiniteSet(Reports[d]) /\ Cardinality(Reports[d]) = 0
  <2>1. \A c \in Conns : to_server[c] = <<>>
    BY DEF SystemInit, BridgeInit, LinkInit
  <2>2. Reports[d] = {}
    BY <2>1 DEF Reports, Indices
  <2> QED
    BY <2>2, FS_EmptySet
<1>2. ASSUME NEW o \in Orchs
      PROVE  /\ DroneOf[o] \in Drones /\ moves_performed[o] = 0
             /\ Count(tasks, OkFor(o)) = 0 /\ flights[DroneOf[o]] = 0
  BY OrchAssumption, CountOne DEF OrchAssumption, SystemInit, Init, ClientInit
<1> QED
  BY <1>1, <1>2 DEF FlownInv

(* A mission counts only moves that were flown: with any number of missions, *)
(* drones and connections, whatever is lost, repeated or late, and provided  *)
(* that the vehicle reports no flight it has not made.                       *)
THEOREM OnlyFlownMovesCount ==
  ASSUME <<FALSE, TRUE>> \notin MoveOutcomes
  PROVE  SystemSpec => []CountedMovesAreFlown
<1>1. SystemInit => SystemInv /\ FlownInv
  BY SystemStart, FlownStart
<1>2. SystemInv /\ FlownInv /\ [SystemNext]_systemVars => SystemInv' /\ FlownInv'
  BY SystemKept, FlownNext
<1>3. SystemInv /\ FlownInv => CountedMovesAreFlown
  <2> SUFFICES ASSUME SystemInv, FlownInv, NEW o \in Orchs
               PROVE  moves_performed[o] <= flights[DroneOf[o]]
    BY DEF CountedMovesAreFlown
  <2> QED
    BY OrchAssumption, FlownTypes
<1> QED
  BY <1>1, <1>2, <1>3, PTL DEF SystemSpec

-----------------------------------------------------------------------------
(* Photos taken to the VLM *)

\* A photo on its way to the VLM, and a warning o has to handle.
PhotosOf(o) == {x \in SystemItem : x.type = "AnalyzePhoto" /\ x.by = o}
WarningsTo(o) == {x \in SystemItem : /\ x.type = "UserDecisionReceived"
                                     /\ x.decision = "WARNING" /\ o \in x.to}

\* A mission takes the next photo to the VLM, or will after a pause.
Wants(o) ==
  IF \/ state[o] \in {"NEW", "IDLE", "WAITING_FOR_DRONE"}
     \/ state[o] = "PAUSED" /\ pending_command[o].type = "GetPhoto"
  THEN 1 ELSE 0

Glimpsed(o) == inferences[o] + Count(tasks, PhotosOf(o))

GlimpseInv ==
  /\ inferences \in [Orchs -> Nat] /\ warnings \in Nat
  /\ \A o \in Orchs :
       /\ Glimpsed(o) + Wants(o) + Count(tasks, WarningsTo(o))
            <= moves_performed[o] + 1 + warnings
       /\ state[o] = "NEW" => Glimpsed(o) = 0
       /\ max_moves[o] < 0 => state[o] = "ENDED" /\ Glimpsed(o) = 0

LEMMA GlimpseTypes ==
  ASSUME SystemInv, inferences \in [Orchs -> Nat], NEW o \in Orchs
  PROVE  /\ tasks \in Seq(SystemItem) /\ MissionInv(SystemItem) /\ MissionTypeOK
         /\ Count(tasks, PhotosOf(o)) \in Nat /\ Count(tasks, WarningsTo(o)) \in Nat
         /\ inferences[o] \in Nat /\ Wants(o) \in 0..1 /\ moves_performed[o] \in Nat
         /\ Glimpsed(o) \in Nat
<1>1. tasks \in Seq(SystemItem) /\ MissionInv(SystemItem) /\ MissionTypeOK
  BY DEF SystemInv, MissionInv
<1>2. Count(tasks, PhotosOf(o)) \in Nat /\ Count(tasks, WarningsTo(o)) \in Nat
  BY <1>1, CountNat
<1>3. inferences[o] \in Nat /\ Wants(o) \in 0..1 /\ moves_performed[o] \in Nat
  BY <1>1 DEF Wants, MissionTypeOK
<1> QED
  BY <1>1, <1>2, <1>3 DEF Glimpsed

\* A step that takes no photo, warning or glimpse without one given.
LEMMA GlimpseStep ==
  ASSUME SystemInv, SystemInv', GlimpseInv, inferences' \in [Orchs -> Nat], warnings' \in Nat,
         \A o \in Orchs :
           /\ Glimpsed(o)' + Wants(o)' + Count(tasks', WarningsTo(o))
                + moves_performed[o] + warnings
                <= Glimpsed(o) + Wants(o) + Count(tasks, WarningsTo(o))
                     + moves_performed'[o] + warnings'
           /\ state'[o] = "NEW" => state[o] = "NEW" /\ Glimpsed(o)' <= Glimpsed(o)
           /\ max_moves'[o] < 0 => /\ state'[o] = "ENDED" /\ Glimpsed(o)' <= Glimpsed(o)
                                   /\ max_moves[o] < 0 \/ state[o] = "NEW"
  PROVE  GlimpseInv'
<1> SUFFICES ASSUME NEW o \in Orchs
             PROVE  /\ Glimpsed(o)' + Wants(o)' + Count(tasks', WarningsTo(o))
                         <= moves_performed'[o] + 1 + warnings'
                    /\ state'[o] = "NEW" => Glimpsed(o)' = 0
                    /\ max_moves'[o] < 0 => state'[o] = "ENDED" /\ Glimpsed(o)' = 0
  BY DEF GlimpseInv
<1>1. /\ Count(tasks, WarningsTo(o)) \in Nat /\ Wants(o) \in 0..1 /\ moves_performed[o] \in Nat
      /\ Glimpsed(o) \in Nat /\ warnings \in Nat
  BY GlimpseTypes DEF GlimpseInv
<1>2. /\ Count(tasks', WarningsTo(o)) \in Nat /\ Wants(o)' \in 0..1
      /\ moves_performed'[o] \in Nat /\ Glimpsed(o)' \in Nat
  <2>1. /\ tasks' \in Seq(SystemItem) /\ MissionTypeOK'
    BY DEF SystemInv, MissionInv
  <2>2. Count(tasks', PhotosOf(o)) \in Nat /\ Count(tasks', WarningsTo(o)) \in Nat
    BY <2>1, CountNat
  <2>3. inferences'[o] \in Nat /\ moves_performed'[o] \in Nat
    BY <2>1 DEF MissionTypeOK
  <2>4. Wants(o)' \in 0..1
    BY DEF Wants
  <2> QED
    BY <2>2, <2>3, <2>4 DEF Glimpsed
<1>3. /\ Glimpsed(o) + Wants(o) + Count(tasks, WarningsTo(o))
           <= moves_performed[o] + 1 + warnings
      /\ state[o] = "NEW" => Glimpsed(o) = 0
      /\ max_moves[o] < 0 => state[o] = "ENDED" /\ Glimpsed(o) = 0
  BY DEF GlimpseInv
<1> DEFINE a == Glimpsed(o)
           b == Glimpsed(o)'
           c == Count(tasks, WarningsTo(o))
           d == Count(tasks', WarningsTo(o))
           v == Wants(o)
           w == Wants(o)'
<1>4. a \in Nat /\ b \in Nat /\ c \in Nat /\ d \in Nat /\ v \in Nat /\ w \in Nat
  BY <1>1, <1>2
<1>5. /\ b + w + d + moves_performed[o] + warnings <= a + v + c + moves_performed'[o] + warnings'
      /\ a + v + c <= moves_performed[o] + 1 + warnings
      /\ state[o] = "NEW" => a = 0
      /\ max_moves[o] < 0 => a = 0
      /\ state'[o] = "NEW" => state[o] = "NEW" /\ b <= a
      /\ max_moves'[o] < 0 => /\ state'[o] = "ENDED" /\ b <= a
                              /\ max_moves[o] < 0 \/ state[o] = "NEW"
  BY <1>3
<1> HIDE DEF a, b, c, d, v, w
<1>6. b + w + d <= moves_performed'[o] + 1 + warnings'
  BY <1>1, <1>2, <1>4, <1>5
<1>7. /\ state'[o] = "NEW" => b = 0
      /\ max_moves'[o] < 0 => state'[o] = "ENDED" /\ b = 0
  BY <1>4, <1>5
<1> QED
  BY <1>6, <1>7 DEF a, b, c, d, v, w

\* Only the handler of a photo takes one to the VLM.
LEMMA CountPhotos ==
  ASSUME tasks \in Seq(SystemItem), NEW p \in Orchs, Follows(SystemItem, p, tasks'),
         NEW o \in Orchs, o = p => ~HandlePhotoAndTelemetry(p)
  PROVE  Count(tasks', PhotosOf(o)) <= Count(tasks, PhotosOf(o))
<1> DEFINE S == PhotosOf(o)
<1>1. PICK n \in Nat, s \in {0, 1} :
        /\ n + s = Len(tasks) /\ n <= Len(tasks')
        /\ \A i \in 1..n : \/ tasks'[i] = tasks[i + s]
                           \/ i + s = 1 /\ Told(p, tasks[1], tasks'[1])
        /\ Parts(p, n, tasks') \/ Commands(p, n, tasks') \/ Continues(p, n, tasks')
  BY SystemCarries, WritesKeeps
<1>2. tasks' \in Seq(SystemItem) /\ Len(tasks') \in Nat /\ Len(tasks) \in Nat
  BY SystemCarries, WritesKeeps
<1>3. ASSUME NEW i \in Added(tasks', n), tasks'[i].type = "AnalyzePhoto", tasks'[i].by = o
      PROVE  FALSE
  <2>1. o = p
    BY <1>1, <1>2, <1>3, AddedIsOwn
  <2>2. CASE Parts(p, n, tasks')
    <3>1. i < Len(tasks') - 1 \/ i = Len(tasks') - 1 \/ i = Len(tasks')
      BY <1>2 DEF Added
    <3> QED
      BY <1>3, <2>2, <3>1 DEF Parts, Await
  <2>3. CASE Commands(p, n, tasks')
    BY <1>3, <2>3 DEF Commands, Added, ExecuteMove
  <2>4. CASE Continues(p, n, tasks')
    BY <1>3, <2>1, <2>4 DEF Continues, Proper
  <2> QED
    BY <1>1, <2>2, <2>3, <2>4
<1>4. ASSUME NEW i \in 1..Len(tasks'), tasks'[i] \in S
      PROVE  i + s \in 1..Len(tasks) /\ tasks[i + s] \in S
  <2>1. tasks'[i].type = "AnalyzePhoto" /\ tasks'[i].by = o
    BY <1>4 DEF PhotosOf
  <2>2. i \in 1..n
    BY <1>1, <1>2, <1>3, <2>1 DEF Added
  <2>3. i + s \in 1..Len(tasks)
    BY <1>1, <1>2, <2>2
  <2>4. ~Told(p, tasks[1], tasks'[i])
    BY <2>1, FarewellTypes, CommandIsNoEvent DEF Told
  <2>5. tasks'[i] = tasks[i + s]
    <3>1. i + s = 1 => i = 1
      BY <1>1, <2>2
    <3> QED
      BY <1>1, <2>2, <2>4, <3>1
  <2> QED
    BY <1>4, <2>3, <2>5
<1>5. /\ s \in Int
      /\ \A i \in 1..Len(tasks') :
           tasks'[i] \in S => i + s \in 1..Len(tasks) /\ tasks[i + s] \in S
  BY <1>4
<1> HIDE DEF S
<1>6. Count(tasks', S) <= Count(tasks, S)
  BY <1>2, <1>5, CountLess
<1> QED
  BY <1>6 DEF S

\* A warning is an event like others, until it is handled.
LEMMA WarningLasts ==
  ASSUME NEW o \in Orchs
  PROVE  /\ \A x \in WarningsTo(o) : x.type = "UserDecisionReceived" /\ x.type \in EventTypes
         /\ \A p \in Orchs : \A x \in SystemItem : \A y :
              Told(p, x, y) /\ y \in WarningsTo(o) => x \in WarningsTo(o) /\ p # o
<1>1. "UserDecisionReceived" \in EventTypes
  BY DEF EventTypes, MissionEventTypes
<1> QED
  BY <1>1 DEF WarningsTo, Told

LEMMA CountWarnings ==
  ASSUME tasks \in Seq(SystemItem), NEW p \in Orchs, Follows(SystemItem, p, tasks'),
         NEW o \in Orchs
  PROVE  Count(tasks', WarningsTo(o)) <= Count(tasks, WarningsTo(o))
<1> DEFINE S == WarningsTo(o)
<1>1. /\ \A x \in S : x.type \in EventTypes
      /\ \A x \in SystemItem : \A y : Told(p, x, y) /\ y \in S => x \in S
  BY WarningLasts
<1> HIDE DEF S
<1>2. Count(tasks', S) <= Count(tasks, S)
  BY <1>1, SystemCarries, CountWritten
<1> QED
  BY <1>2 DEF S

\* One photo, one analysis.
LEMMA PhotoCounts ==
  ASSUME MissionTypeOK, tasks \in Seq(SystemItem), NEW o \in Orchs,
         HandlePhotoAndTelemetry(o)
  PROVE  Count(tasks', PhotosOf(o)) <= Count(tasks, PhotosOf(o)) + 1
<1> DEFINE S == PhotosOf(o)
           q == Rest(o)
           x == Analyze(o, Task.photo, is_warning[o])
<1>1. EventFor(o) /\ tasks' = Append(q, x) /\ tasks # <<>> /\ Task = Head(tasks)
  BY DEF HandlePhotoAndTelemetry, Handles, EventFor, Analyze, Task
<1>2. /\ q \in Seq(SystemItem) /\ Tail(tasks) \in Seq(SystemItem)
      /\ Count(q, S) = Count(Tail(tasks), S)
                         + (IF ~(Task.to \subseteq {o}) /\ Passed(o) \in S THEN 1 ELSE 0)
  BY <1>1, SystemCarries, CountRest
<1>3. Passed(o) \notin S
  <2>1. Task.type = "PhotoWithTelemetryReceived" /\ Task \in SystemItem
    BY <1>1 DEF HandlePhotoAndTelemetry, Handles
  <2>2. Told(o, Task, Passed(o))
    BY <2>1, SystemCarries DEF Carries, Passed, EventTypes, DroneEventTypes
  <2> QED
    BY <2>1, <2>2 DEF PhotosOf, Told
<1>4. /\ Count(tasks, S) = Count(Tail(tasks), S) + (IF Task \in S THEN 1 ELSE 0)
      /\ Count(Tail(tasks), S) \in Nat
  BY <1>1, <1>2, CountTail, CountNat
<1> HIDE DEF S, x
<1>5. Count(q, S) <= Count(tasks, S) /\ Count(q, S) \in Nat /\ Count(tasks, S) \in Nat
  BY <1>2, <1>3, <1>4
<1>6. x \in SystemItem
  <2>1. Task \in SystemItem /\ Task.type = "PhotoWithTelemetryReceived"
    BY <1>1 DEF HandlePhotoAndTelemetry, Handles
  <2>2. is_warning[o] \in BOOLEAN
    BY DEF MissionTypeOK
  <2> QED
    BY <2>1, <2>2, SystemCarries DEF Carries, x
<1> HIDE DEF q
<1>7. Count(tasks', S) = Count(q, S) + (IF x \in S THEN 1 ELSE 0)
  BY <1>1, <1>2, <1>6, CountAppend
<1> QED
  BY <1>5, <1>7 DEF S

\* A warning is handled once by the mission it is for.
LEMMA WarnedCounts ==
  ASSUME tasks \in Seq(SystemItem), NEW o \in Orchs, UserWarns(o)
  PROVE  Count(tasks', WarningsTo(o)) + 1 <= Count(tasks, WarningsTo(o))
<1> DEFINE S == WarningsTo(o)
           q == Rest(o)
           x == GetPhoto(o)
<1>1. /\ EventFor(o) /\ tasks' = Append(q, x) /\ tasks # <<>> /\ Task = Head(tasks)
      /\ Task.type = "UserDecisionReceived" /\ Task.decision = "WARNING" /\ o \in Task.to
  BY DEF UserWarns, Handles, EventFor, Task
<1>2. /\ q \in Seq(SystemItem) /\ Tail(tasks) \in Seq(SystemItem)
      /\ Count(q, S) = Count(Tail(tasks), S)
                         + (IF ~(Task.to \subseteq {o}) /\ Passed(o) \in S THEN 1 ELSE 0)
  BY <1>1, SystemCarries, CountRest
<1>3. Task \in SystemItem
  BY <1>1
<1>4. Task \in S /\ Passed(o) \notin S
  <2>1. Task.type \in EventTypes
    BY <1>1 DEF EventTypes, MissionEventTypes
  <2>2. Told(o, Task, Passed(o))
    BY <1>3, <2>1, SystemCarries DEF Carries, Passed
  <2>3. Task \in S
    BY <1>1, <1>3 DEF WarningsTo
  <2> QED
    BY <1>3, <2>2, <2>3, WarningLasts
<1>5. x \in SystemItem /\ x \notin S
  BY SystemCarries DEF Carries, OwnItems, WarningsTo, GetPhoto
<1> HIDE DEF S, x
<1>6. /\ Count(tasks, S) = Count(Tail(tasks), S) + (IF Task \in S THEN 1 ELSE 0)
      /\ Count(Tail(tasks), S) \in Nat
  BY <1>1, <1>2, CountTail, CountNat
<1>7. Count(q, S) + 1 = Count(tasks, S) /\ Count(q, S) \in Nat
  BY <1>2, <1>4, <1>6
<1> HIDE DEF q
<1>8. Count(tasks', S) = Count(q, S) + (IF x \in S THEN 1 ELSE 0)
  BY <1>1, <1>2, <1>5, CountAppend
<1> QED
  BY <1>5, <1>7, <1>8 DEF S

\* A mission pays for what it wants: with a photo, a warning or a move made.
LEMMA WantsPaid ==
  ASSUME MissionTypeOK, NEW o \in Orchs, Accounted(o), Resumable(o), Writes(o)
  PROVE  \/ HandlePhotoAndTelemetry(o) /\ Wants(o) = 1 /\ Wants(o)' = 0
         \/ UserWarns(o) /\ Wants(o)' <= Wants(o) + 1
         \/ MoveSucceeded(o) /\ Wants(o)' <= Wants(o) + 1
         \/ Wants(o)' <= Wants(o) /\ ~HandlePhotoAndTelemetry(o) /\ ~MoveSucceeded(o)
<1> USE DEF MissionTypeOK, Goto, Terminate, Wants
<1>1. \A type : Handles(o, type) => state[o] \in Expected(type)
  BY HandlesEvent
<1>2. CASE HandlePhotoAndTelemetry(o)
  BY <1>1, <1>2 DEF HandlePhotoAndTelemetry, Expected
<1>3. CASE UserWarns(o) \/ MoveSucceeded(o)
  BY <1>3
<1>4. ASSUME ~HandlePhotoAndTelemetry(o), ~UserWarns(o), ~MoveSucceeded(o)
      PROVE  Wants(o)' <= Wants(o)
  <2>1. CASE Starts(o) \/ AwaitedDone(o) \/ StartCancelled(o)
    BY <2>1 DEF Starts, Start, AwaitedDone, StartCancelled
  <2>2. CASE StartSave(o) \/ StartFirstPhoto(o) \/ Ignore(o)
    BY <2>2 DEF StartSave, StartFirstPhoto, Ignore, orchVars
  <2>3. CASE StartSearch(o)
    <3>1. state[o] \in {"IDLE", "ENDED"}
      BY <2>3 DEF StartSearch, Awake, Accounted, Starting
    <3> QED
      BY <2>3, <3>1 DEF StartSearch
  <2>4. CASE HandleVlmAnalysis(o) \/ UserConfirms(o) \/ UserCancels(o)
    BY <2>4 DEF HandleVlmAnalysis, UserConfirms, UserCancels
  <2>5. CASE HandleMoveStarted(o) \/ MoveFailed(o) \/ HandleFatal(o)
    BY <2>5 DEF HandleMoveStarted, MoveFailed, HandleFatal
  <2>6. CASE HandleDroneConnectionLost(o)
    <3>1. ExecuteMove(o, current_move[o]).type # "GetPhoto"
      BY DEF ExecuteMove
    <3> QED
      BY <1>1, <2>6, <3>1 DEF HandleDroneConnectionLost, Expected
  <2>7. CASE HandleDroneReconnected(o)
    <3>1. state[o] = "PAUSED"
      BY <1>1, <2>7 DEF HandleDroneReconnected, Expected
    <3>2. CASE pending_command[o] = GetPhoto(o)
      BY <2>7, <3>1, <3>2 DEF HandleDroneReconnected, GetPhoto
    <3>3. CASE pending_command[o] = ExecuteMove(o, current_move[o])
      <4>1. state'[o] = "WAITING_FOR_ACK"
        BY <2>7, <3>3 DEF HandleDroneReconnected, ExecuteMove
      <4> QED
        BY <4>1
    <3> QED
      BY <3>1, <3>2, <3>3 DEF Resumable
  <2> QED
    BY <1>4, <2>1, <2>2, <2>3, <2>4, <2>5, <2>6, <2>7 DEF Writes, Handle
<1> QED
  BY <1>2, <1>3, <1>4

\* A budget is set at the start, and an end is final.
LEMMA BudgetSet ==
  ASSUME OrchAssumption, Glimpses \subseteq Nat, MissionInv(SystemItem), NEW o \in Orchs,
         Writes(o), max_moves[o] < 0 => state[o] = "ENDED"
  PROVE  /\ state'[o] = "NEW" => state[o] = "NEW" /\ ~HandlePhotoAndTelemetry(o)
         /\ max_moves'[o] < 0 => /\ state'[o] = "ENDED" /\ ~HandlePhotoAndTelemetry(o)
                                 /\ max_moves[o] < 0 \/ state[o] = "NEW"
<1> USE DEF MissionTypeOK, Goto, Terminate
<1>1. MissionTypeOK /\ tasks \in Seq(SystemItem) /\ Follows(SystemItem, o, tasks')
  BY SystemCarries, MissionFollows DEF MissionInv
<1>2. HandlePhotoAndTelemetry(o) => state[o] = "WAITING_FOR_DRONE"
  BY HandlesEvent DEF HandlePhotoAndTelemetry, Expected
<1>3. CASE Starts(o)
  <2>1. PICK g \in Glimpses : /\ state[o] = "NEW" /\ max_moves'[o] = g - 1
                              /\ state'[o] \in {"IDLE", "ENDED"}
                              /\ g = 0 => state'[o] = "ENDED"
    BY <1>1, <1>3 DEF Starts, Start
  <2>2. g \in Nat
    BY <2>1
  <2> QED
    BY <1>2, <2>1, <2>2
<1>4. CASE ~Starts(o)
  <2>1. AwaitedDone(o) \/ StartCancelled(o) \/ Handle(o)
    BY <1>4 DEF Writes
  <2>2. state[o] # "NEW"
    BY <2>1, UnderWay
  <2>3. UNCHANGED max_moves
    <3>1. AwaitedDone(o) \/ StartCancelled(o) \/ StartSave(o) \/ StartSearch(o)
            \/ StartFirstPhoto(o) \/ Ignore(o) => UNCHANGED max_moves
      BY DEF AwaitedDone, StartCancelled, StartSave, StartSearch, StartFirstPhoto, Ignore,
             orchVars
    <3>2. HandlePhotoAndTelemetry(o) \/ HandleVlmAnalysis(o) \/ UserConfirms(o) \/ UserWarns(o)
            \/ UserCancels(o) \/ HandleMoveStarted(o) => UNCHANGED max_moves
      BY DEF HandlePhotoAndTelemetry, HandleVlmAnalysis, UserConfirms, UserWarns, UserCancels,
             HandleMoveStarted
    <3>3. MoveSucceeded(o) \/ MoveFailed(o) \/ HandleDroneConnectionLost(o)
            \/ HandleDroneReconnected(o) \/ HandleFatal(o) => UNCHANGED max_moves
      BY DEF MoveSucceeded, MoveFailed, HandleDroneConnectionLost, HandleDroneReconnected,
             HandleFatal
    <3> QED
      BY <2>1, <3>1, <3>2, <3>3 DEF Handle
  <2>4. /\ state'[o] # "NEW"
        /\ state[o] = "ENDED" => state'[o] = "ENDED"
    BY <1>1, <2>2 DEF Follows, Parts, Commands, Continues
  <2> QED
    BY <1>2, <2>2, <2>3, <2>4
<1> QED
  BY <1>3, <1>4

LEMMA GlimpseMission ==
  ASSUME OrchAssumption, Glimpses \subseteq Nat, SystemInv, SystemInv', GlimpseInv,
         NEW p \in Orchs, MissionActs(p)
  PROVE  GlimpseInv'
<1>1. Writes(p) /\ UNCHANGED <<inferences, warnings>>
  BY ActsAreMission
  DEF MissionActs, OrchestratorStep, StartMission, historyVars, operatorVars
<1>2. /\ tasks \in Seq(SystemItem) /\ MissionInv(SystemItem) /\ MissionTypeOK
      /\ Accounted(p) /\ Resumable(p)
  BY DEF SystemInv, MissionInv
<1>3. Follows(SystemItem, p, tasks')
  BY <1>1, <1>2, SystemCarries, MissionFollows
<1>4. inferences' \in [Orchs -> Nat] /\ warnings' \in Nat
  BY <1>1 DEF GlimpseInv
<1>5. ASSUME NEW o \in Orchs
      PROVE  /\ Glimpsed(o)' + Wants(o)' + Count(tasks', WarningsTo(o))
                  + moves_performed[o] + warnings
                  <= Glimpsed(o) + Wants(o) + Count(tasks, WarningsTo(o))
                       + moves_performed'[o] + warnings'
             /\ state'[o] = "NEW" => state[o] = "NEW" /\ Glimpsed(o)' <= Glimpsed(o)
             /\ max_moves'[o] < 0 => /\ state'[o] = "ENDED" /\ Glimpsed(o)' <= Glimpsed(o)
                                     /\ max_moves[o] < 0 \/ state[o] = "NEW"
  <2> DEFINE a == Count(tasks, PhotosOf(o))
             b == Count(tasks', PhotosOf(o))
             c == Count(tasks, WarningsTo(o))
             d == Count(tasks', WarningsTo(o))
             v == Wants(o)
             w == Wants(o)'
             n == inferences[o]
             m == moves_performed[o]
             r == moves_performed'[o]
             photo == HandlePhotoAndTelemetry(p) /\ o = p
  <2>1. /\ a \in Nat /\ c \in Nat /\ v \in Nat /\ n \in Nat /\ m \in Nat /\ warnings \in Nat
        /\ max_moves[o] < 0 => state[o] = "ENDED"
    <3>1. inferences \in [Orchs -> Nat] /\ warnings \in Nat
      BY DEF GlimpseInv
    <3>2. a \in Nat /\ c \in Nat /\ v \in 0..1 /\ n \in Nat /\ m \in Nat
      BY <3>1, GlimpseTypes
    <3>3. max_moves[o] < 0 => state[o] = "ENDED"
      BY DEF GlimpseInv
    <3> HIDE DEF a, c, v, n, m
    <3>4. v \in Nat
      BY <3>2
    <3> QED
      BY <3>1, <3>2, <3>3, <3>4
  <2>2. b \in Nat /\ d \in Nat /\ w \in Nat /\ r \in Nat
    <3>1. MissionTypeOK' /\ tasks' \in Seq(SystemItem)
      BY DEF SystemInv, MissionInv
    <3>2. Wants(o)' \in 0..1
      BY DEF Wants
    <3> QED
      BY <3>1, <3>2, CountNat DEF MissionTypeOK
  <2>3. d <= c
    BY <1>2, <1>3, CountWarnings
  <2>4. ~photo => b <= a
    BY <1>2, <1>3, CountPhotos
  <2>5. photo => b <= a + 1
    BY <1>2, PhotoCounts
  <2>6. r = m \/ (o = p /\ MoveSucceeded(o) /\ r = m + 1)
    BY <1>1, <1>2, CountsSuccess
  <2>7. o = p /\ UserWarns(o) => d + 1 <= c
    BY <1>2, WarnedCounts
  <2>8. \/ photo /\ v = 1 /\ w = 0
        \/ o = p /\ UserWarns(o) /\ w <= v + 1
        \/ o = p /\ MoveSucceeded(o) /\ w <= v + 1
        \/ w <= v /\ ~photo
    <3>1. CASE o = p
      BY <1>1, <1>2, <3>1, WantsPaid
    <3>2. CASE o # p
      <4>1. UNCHANGED Ledger(o)
        BY <1>1, <1>2, <3>2, OthersKept
      <4>2. w = v
        BY <4>1 DEF Ledger, Wants
      <4> QED
        BY <2>1, <3>2, <4>2
    <3> QED
      BY <3>1, <3>2
  <2>9. o = p /\ MoveSucceeded(o) => ~photo /\ r = m + 1
    <3>1. MoveSucceeded(o) => moves_performed'[o] = moves_performed[o] + 1
      BY <1>2 DEF MoveSucceeded, MissionTypeOK
    <3>2. ~(MoveSucceeded(p) /\ HandlePhotoAndTelemetry(p))
      BY DEF MoveSucceeded, HandlePhotoAndTelemetry, Handles
    <3> QED
      BY <3>1, <3>2
  <2>10. ~(UserWarns(p) /\ HandlePhotoAndTelemetry(p))
    BY DEF UserWarns, HandlePhotoAndTelemetry, Handles
  <2>11. /\ state'[o] = "NEW" => state[o] = "NEW" /\ ~photo
         /\ max_moves'[o] < 0 => /\ state'[o] = "ENDED" /\ ~photo
                                 /\ max_moves[o] < 0 \/ state[o] = "NEW"
    <3>1. CASE o = p
      BY <1>1, <1>2, <2>1, <3>1, BudgetSet
    <3>2. CASE o # p
      BY <1>1, <1>2, <2>1, <3>2, OthersKept DEF Ledger
    <3> QED
      BY <3>1, <3>2
  <2>12. /\ Glimpsed(o) = n + a /\ Glimpsed(o)' = n + b /\ warnings' = warnings
    BY <1>1 DEF Glimpsed
  <2> HIDE DEF a, b, c, d, v, w, n, m, r, photo
  <2>13. ~photo => n + b <= n + a
    BY <2>1, <2>2, <2>4
  <2>14. n + b + w + d + m + warnings <= n + a + v + c + r + warnings
    <3>1. CASE photo /\ v = 1 /\ w = 0
      BY <2>1, <2>2, <2>3, <2>5, <2>6, <3>1
    <3>2. CASE o = p /\ UserWarns(o) /\ w <= v + 1
      <4>1. ~photo
        BY <2>10, <3>2 DEF photo
      <4> QED
        BY <2>1, <2>2, <2>4, <2>6, <2>7, <3>2, <4>1
    <3>3. CASE o = p /\ MoveSucceeded(o) /\ w <= v + 1
      BY <2>1, <2>2, <2>3, <2>4, <2>9, <3>3
    <3>4. CASE w <= v /\ ~photo
      BY <2>1, <2>2, <2>3, <2>4, <2>6, <3>4
    <3> QED
      BY <2>8, <3>1, <3>2, <3>3, <3>4
  <2> QED
    BY <2>11, <2>12, <2>13, <2>14 DEF c, d, v, w, m, r
<1> QED
  BY <1>4, <1>5, GlimpseStep

LEMMA SumsOrdered ==
  ASSUME NEW a \in Nat, NEW b \in Nat, NEW c \in Nat, NEW d \in Nat, NEW v \in Nat,
         NEW m \in Nat, NEW x \in Nat, NEW y \in Nat, b <= a, d + x <= c + y
  PROVE  b + v + d + m + x <= a + v + c + m + y
  OBVIOUS

\* Steps outside the missions: no photo is queued, and a warning is counted.
LEMMA GlimpseOutside ==
  ASSUME SystemInv, SystemInv', GlimpseInv, UNCHANGED orchVars,
         inferences' \in [Orchs -> Nat], warnings' \in Nat,
         \A o \in Orchs :
           /\ Glimpsed(o)' <= Glimpsed(o)
           /\ Count(tasks', WarningsTo(o)) + warnings <= Count(tasks, WarningsTo(o)) + warnings'
  PROVE  GlimpseInv'
<1>1. ASSUME NEW o \in Orchs
      PROVE  /\ Glimpsed(o)' + Wants(o)' + Count(tasks', WarningsTo(o))
                  + moves_performed[o] + warnings
                  <= Glimpsed(o) + Wants(o) + Count(tasks, WarningsTo(o))
                       + moves_performed'[o] + warnings'
             /\ state'[o] = "NEW" => state[o] = "NEW" /\ Glimpsed(o)' <= Glimpsed(o)
             /\ max_moves'[o] < 0 => /\ state'[o] = "ENDED" /\ Glimpsed(o)' <= Glimpsed(o)
                                     /\ max_moves[o] < 0 \/ state[o] = "NEW"
  <2> DEFINE a == Glimpsed(o)
             b == Glimpsed(o)'
             c == Count(tasks, WarningsTo(o))
             d == Count(tasks', WarningsTo(o))
             v == Wants(o)
             m == moves_performed[o]
  <2>1. /\ a \in Nat /\ c \in Nat /\ v \in Nat /\ m \in Nat /\ warnings \in Nat
        /\ max_moves[o] < 0 => state[o] = "ENDED"
    <3>1. inferences \in [Orchs -> Nat] /\ warnings \in Nat
      BY DEF GlimpseInv
    <3>2. a \in Nat /\ c \in Nat /\ v \in 0..1 /\ m \in Nat
      BY <3>1, GlimpseTypes
    <3>3. max_moves[o] < 0 => state[o] = "ENDED"
      BY DEF GlimpseInv
    <3> HIDE DEF a, c, v, m
    <3>4. v \in Nat
      BY <3>2
    <3> QED
      BY <3>1, <3>2, <3>3, <3>4
  <2>2. b \in Nat /\ d \in Nat /\ warnings' \in Nat
    <3>1. tasks' \in Seq(SystemItem) /\ inferences'[o] \in Nat
      BY DEF SystemInv, MissionInv
    <3>2. Count(tasks', PhotosOf(o)) \in Nat /\ Count(tasks', WarningsTo(o)) \in Nat
      BY <3>1, CountNat
    <3> QED
      BY <3>1, <3>2 DEF Glimpsed
  <2>3. /\ UNCHANGED <<state, max_moves, moves_performed>> /\ Wants(o)' = v
    BY DEF orchVars, Wants
  <2>4. b <= a /\ d + warnings <= c + warnings'
    OBVIOUS
  <2> HIDE DEF a, b, c, d, v, m
  <2>5. b + v + d + m + warnings <= a + v + c + m + warnings'
    BY <2>1, <2>2, <2>4, SumsOrdered
  <2> QED
    BY <2>1, <2>3, <2>4, <2>5 DEF a, b, c, d, v, m
<1> QED
  BY <1>1, GlimpseStep

NoDecision == EventTypes \ {"UserDecisionReceived"}

LEMMA GlimpseServed ==
  ASSUME SystemInv, SystemInv', GlimpseInv, ServesAndTells(NoDecision),
         UNCHANGED <<inferences, warnings>>
  PROVE  GlimpseInv'
<1>1. tasks \in Seq(SystemItem) /\ UNCHANGED orchVars
  BY DEF SystemInv, MissionInv, ServesAndTells, Served
<1>2. inferences' \in [Orchs -> Nat] /\ warnings' \in Nat
  BY DEF GlimpseInv
<1>3. ASSUME NEW o \in Orchs
      PROVE  /\ Glimpsed(o)' <= Glimpsed(o)
             /\ Count(tasks', WarningsTo(o)) + warnings <= Count(tasks, WarningsTo(o)) + warnings'
  <2> DEFINE P == PhotosOf(o)
             W == WarningsTo(o)
  <2>1. /\ \A x \in P : x.type \notin NoDecision
        /\ \A x \in W : x.type \notin NoDecision
    BY DEF PhotosOf, WarningsTo, NoDecision, EventTypes, DroneEventTypes, MissionEventTypes,
           DroneNotice, ChatNotice
  <2>2. Count(tasks', P) <= Count(tasks, P) /\ tasks' \in Seq(SystemItem)
    BY <1>1, <2>1, CountServed
  <2>3. Count(tasks', W) <= Count(tasks, W)
    BY <1>1, <2>1, CountServed
  <2>4. /\ Count(tasks, P) \in Nat /\ Count(tasks, W) \in Nat /\ Count(tasks', P) \in Nat
        /\ Count(tasks', W) \in Nat /\ inferences[o] \in Nat /\ warnings \in Nat
    BY <1>1, <2>2, CountNat DEF GlimpseInv
  <2> DEFINE a == Count(tasks, P)
             b == Count(tasks', P)
             c == Count(tasks, W)
             d == Count(tasks', W)
             n == inferences[o]
  <2>5. Glimpsed(o) = n + a /\ Glimpsed(o)' = n + b /\ warnings' = warnings
    BY DEF Glimpsed
  <2> HIDE DEF a, b, c, d, n
  <2>6. n + b <= n + a /\ d + warnings <= c + warnings
    BY <2>2, <2>3, <2>4 DEF a, b, c, d, n
  <2> QED
    BY <2>5, <2>6 DEF c, d
<1> QED
  BY <1>1, <1>2, <1>3, GlimpseOutside

\* A photo taken to the VLM is one that was queued.
LEMMA GlimpseAnalyzed ==
  ASSUME OrchAssumption, SystemInv, SystemInv', GlimpseInv, ChatCommand, HandleAnalyzePhoto
  PROVE  GlimpseInv'
<1> DEFINE p == Task.by
           e == ChatNews("VlmErrorOccurred", Chat)
<1>1. /\ tasks \in Seq(SystemItem) /\ tasks # <<>> /\ Task = Head(tasks)
      /\ Task.type = "AnalyzePhoto" /\ UNCHANGED <<orchVars, warnings>>
      /\ inferences' = [inferences EXCEPT ![p] = @ + 1]
      /\ tasks' = Tail(tasks) \/ tasks' = Publish(Tail(tasks), e)
  BY DEF SystemInv, MissionInv, ChatCommand, HandleAnalyzePhoto, UseChat, Taken, Task,
         operatorVars
<1>2. p \in Orchs /\ Task \in SystemItem /\ Tail(tasks) \in Seq(SystemItem)
  <2>1. p \in Orchs
    BY <1>1, CommandTaken DEF CommandTypes
  <2> QED
    BY <1>1, <2>1 DEF Task
<1>3. e \in SystemItem /\ e.type = "VlmErrorOccurred"
  <2>1. Chat \in Missions
    BY <1>2 DEF Chat, OrchAssumption
  <2>2. DroneOf[p] \in Drones
    BY <1>2 DEF OrchAssumption
  <2> QED
    BY <2>1, <2>2, EventsTyped DEF ChatNews, ChatNotice
<1>4. inferences \in [Orchs -> Nat] /\ warnings \in Nat
  BY DEF GlimpseInv
<1>5. inferences' \in [Orchs -> Nat] /\ warnings' \in Nat
  BY <1>1, <1>2, <1>4
<1> HIDE DEF e
<1>6. ASSUME NEW S, e \notin S
      PROVE  /\ Count(tasks', S) <= Count(Tail(tasks), S)
             /\ Count(tasks', S) \in Nat /\ Count(Tail(tasks), S) \in Nat
             /\ Count(tasks, S) = Count(Tail(tasks), S) + (IF Task \in S THEN 1 ELSE 0)
  <2>1. Count(tasks, S) = Count(Tail(tasks), S) + (IF Task \in S THEN 1 ELSE 0)
    BY <1>1, CountTail
  <2>2. Count(Tail(tasks), S) \in Nat
    BY <1>2, CountNat
  <2>3. CASE tasks' = Tail(tasks)
    BY <2>1, <2>2, <2>3
  <2>4. CASE tasks' = Publish(Tail(tasks), e)
    <3>1. /\ Publish(Tail(tasks), e) \in Seq(SystemItem)
          /\ Count(Publish(Tail(tasks), e), S)
               <= Count(Tail(tasks), S) + (IF e \in S THEN 1 ELSE 0)
      BY <1>2, <1>3, CountPublish
    <3>2. Count(tasks', S) \in Nat
      BY <2>4, <3>1, CountNat
    <3> QED
      BY <1>6, <2>1, <2>2, <2>4, <3>1, <3>2
  <2> QED
    BY <1>1, <2>3, <2>4
<1>7. ASSUME NEW o \in Orchs
      PROVE  /\ Glimpsed(o)' <= Glimpsed(o)
             /\ Count(tasks', WarningsTo(o)) + warnings <= Count(tasks, WarningsTo(o)) + warnings'
  <2> DEFINE P == PhotosOf(o)
             W == WarningsTo(o)
             a == Count(tasks, P)
             b == Count(tasks', P)
             c == Count(tasks, W)
             d == Count(tasks', W)
             n == inferences[o]
             r == inferences'[o]
  <2>1. e \notin P /\ e \notin W /\ Task \notin W
    BY <1>1, <1>3 DEF PhotosOf, WarningsTo
  <2>2. Task \in P <=> p = o
    BY <1>1, <1>2 DEF PhotosOf
  <2>3. r = IF p = o THEN n + 1 ELSE n
    BY <1>1, <1>2, <1>4
  <2>4. n \in Nat /\ warnings \in Nat /\ warnings' = warnings
    BY <1>1, <1>4
  <2> HIDE DEF P, W
  <2>5. /\ b \in Nat /\ a \in Nat /\ d \in Nat /\ c \in Nat
        /\ b + (IF Task \in P THEN 1 ELSE 0) <= a /\ d <= c
    BY <1>6, <2>1
  <2>6. Glimpsed(o) = n + a /\ Glimpsed(o)' = r + b
    BY DEF Glimpsed, P
  <2> HIDE DEF a, b, c, d, n, r, p
  <2>7. r + b <= n + a /\ d + warnings <= c + warnings
    BY <2>2, <2>3, <2>4, <2>5
  <2> QED
    BY <2>4, <2>6, <2>7 DEF c, d, W
<1> QED
  BY <1>1, <1>5, <1>7, GlimpseOutside

\* A warning is counted when the operator gives it.
LEMMA GlimpseDecided ==
  ASSUME OrchAssumption, SystemInv, SystemInv', GlimpseInv, NEW u \in UIs, OperatorStep(u)
  PROVE  GlimpseInv'
<1>1. PICK decision \in Decisions : Decide(u, decision)
  BY DEF OperatorStep
<1> DEFINE e == [type |-> "UserDecisionReceived", mission |-> MissionOf[pending_ui[u].by],
                 decision |-> decision, move |-> pending_ui[u].move, to |-> Subscribed]
<1>2. /\ tasks \in Seq(SystemItem) /\ pending_ui[u] \in Question
      /\ tasks' = Publish(tasks, e) /\ UNCHANGED <<orchVars, inferences>>
      /\ warnings' = IF decision = "WARNING" THEN warnings + 1 ELSE warnings
  BY <1>1 DEF SystemInv, MissionInv, QuestionsShown, Decide, OperatorStep, historyVars
<1>3. e \in SystemItem
  <2>1. /\ MissionOf[pending_ui[u].by] \in Missions /\ pending_ui[u].move \in Moves
        /\ DroneOf[pending_ui[u].by] \in Drones
    BY <1>2 DEF Question, OrchAssumption
  <2> QED
    BY <2>1, EventsTyped
<1>4. inferences \in [Orchs -> Nat] /\ warnings \in Nat
  BY DEF GlimpseInv
<1>5. inferences' \in [Orchs -> Nat] /\ warnings' \in Nat
  BY <1>2, <1>4
<1>6. ASSUME NEW o \in Orchs
      PROVE  /\ Glimpsed(o)' <= Glimpsed(o)
             /\ Count(tasks', WarningsTo(o)) + warnings <= Count(tasks, WarningsTo(o)) + warnings'
  <2> DEFINE P == PhotosOf(o)
             W == WarningsTo(o)
             a == Count(tasks, P)
             b == Count(tasks', P)
             c == Count(tasks, W)
             d == Count(tasks', W)
             n == inferences[o]
  <2>1. e \notin P /\ (e \in W => decision = "WARNING")
    BY DEF PhotosOf, WarningsTo
  <2>2. n \in Nat /\ warnings \in Nat
    BY <1>4
  <2> HIDE DEF P, W, e
  <2>3. /\ Publish(tasks, e) \in Seq(SystemItem)
        /\ Count(Publish(tasks, e), P) <= Count(tasks, P) + (IF e \in P THEN 1 ELSE 0)
        /\ Count(Publish(tasks, e), W) <= Count(tasks, W) + (IF e \in W THEN 1 ELSE 0)
    BY <1>2, <1>3, CountPublish
  <2>4. /\ a \in Nat /\ b \in Nat /\ c \in Nat /\ d \in Nat
        /\ b <= a + (IF e \in P THEN 1 ELSE 0) /\ d <= c + (IF e \in W THEN 1 ELSE 0)
    BY <1>2, <2>3, CountNat
  <2>5. Glimpsed(o) = n + a /\ Glimpsed(o)' = n + b
    BY <1>2 DEF Glimpsed, P
  <2> HIDE DEF a, b, c, d, n
  <2>6. n + b <= n + a
    BY <2>1, <2>2, <2>4
  <2>7. d + warnings <= c + warnings'
    <3>1. CASE decision = "WARNING"
      BY <1>2, <2>2, <2>4, <3>1
    <3>2. CASE decision # "WARNING"
      BY <1>2, <2>1, <2>2, <2>4, <3>2
    <3> QED
      BY <3>1, <3>2
  <2> QED
    BY <2>5, <2>6, <2>7 DEF c, d, W
<1> QED
  BY <1>2, <1>5, <1>6, GlimpseOutside

LEMMA GlimpseNext ==
  ASSUME Glimpses \subseteq Nat, SystemInv, SystemInv', GlimpseInv, [SystemNext]_systemVars
  PROVE  GlimpseInv'
<1> USE OrchAssumption, BridgeAssumption, ClientAssumption
<1>1. LinkInv /\ tasks \in Seq(SystemItem) /\ QuestionsShown
  BY DEF SystemInv, MissionInv
<1>2. /\ DroneNotice \subseteq NoDecision /\ ChatNotice \subseteq NoDecision
      /\ {"VlmAnalysisCompleted", "MoveExecuted", "PhotoWithTelemetryReceived"}
           \subseteq NoDecision
  BY DEF NoDecision, EventTypes, DroneEventTypes, MissionEventTypes, DroneNotice, ChatNotice
<1>3. CASE UNCHANGED systemVars
  <2>1. /\ UNCHANGED <<inferences, warnings>>
        /\ UNCHANGED <<orchVars, tasks, bridgeVars, wire>>
    BY <1>3 DEF systemVars, missionVars, droneVars, linkVars, historyVars, operatorVars
  <2> QED
    BY <1>1, <2>1, CalmTaken, GlimpseServed
<1>4. CASE \E o \in Orchs : MissionActs(o)
  BY <1>4, GlimpseMission
<1>5. CASE ChatCommand
  <2>1. CASE HandleAnalyzePhoto
    BY <1>5, <2>1, GlimpseAnalyzed
  <2>2. CASE ~HandleAnalyzePhoto
    <3>1. UNCHANGED <<inferences, warnings>>
      BY <1>5, <2>2 DEF ChatCommand, HandleCreateNewSession, HandleSaveSession,
                        HandleDeleteSession, operatorVars
    <3> QED
      BY <1>1, <1>2, <1>5, <3>1, ChatTells, GlimpseServed
  <2> QED
    BY <2>1, <2>2
<1>6. CASE OperatorCommand \/ DroneCommand
  <2>1. UNCHANGED <<inferences, warnings>>
    BY <1>6 DEF OperatorCommand, DroneCommand, operatorVars, historyVars
  <2> QED
    BY <1>1, <1>2, <1>6, <2>1, OperatorTells, DroneCommandTells, GlimpseServed
<1>7. CASE \E m \in Missions : ChatStep(m)
  <2>1. UNCHANGED <<inferences, warnings>>
    BY <1>7 DEF ChatStep, operatorVars, historyVars
  <2> QED
    BY <1>1, <1>2, <1>7, <2>1, ChatStepTells, GlimpseServed
<1>8. CASE \E u \in UIs : OperatorStep(u)
  BY <1>8, GlimpseDecided
<1>9. CASE \E c \in Conns : ServerStep(c)
  <2>1. UNCHANGED <<inferences, warnings>>
    BY <1>9 DEF ServerStep, operatorVars, historyVars
  <2> QED
    BY <1>1, <1>2, <1>9, <2>1, ServeTells, NetworkTells, GlimpseServed
    DEF ServerStep, missionVars
<1>10. CASE \E d \in Drones : DroneStep(d) \/ RestartDrone(d)
  <2>1. UNCHANGED <<inferences, warnings>>
    BY <1>10 DEF DroneStep, RestartDrone, operatorVars, historyVars
  <2> QED
    BY <1>1, <1>10, <2>1, DroneStepTells, RestartTells, GlimpseServed
    DEF DroneStep, missionVars
<1>11. CASE ConnectionLost
  <2>1. UNCHANGED <<inferences, warnings>>
    BY <1>11 DEF ConnectionLost, operatorVars, historyVars
  <2> QED
    BY <1>1, <1>11, <2>1, DroneStepTells, NetworkTells, GlimpseServed
    DEF ConnectionLost, missionVars
<1> QED
  BY <1>3, <1>4, <1>5, <1>6, <1>7, <1>8, <1>9, <1>10, <1>11
  DEF SystemNext, LoopStep, MissionActs

LEMMA GlimpseStart ==
  ASSUME SystemInit
  PROVE  GlimpseInv
<1>1. ASSUME NEW o \in Orchs
      PROVE  /\ Glimpsed(o) = 0 /\ Wants(o) = 1 /\ Count(tasks, WarningsTo(o)) = 0
             /\ moves_performed[o] = 0 /\ max_moves[o] = 0
  <2>1. /\ tasks = <<>> /\ inferences[o] = 0 /\ state[o] = "NEW"
        /\ moves_performed[o] = 0 /\ max_moves[o] = 0
    BY DEF SystemInit, Init
  <2>2. Count(tasks, PhotosOf(o)) = 0 /\ Count(tasks, WarningsTo(o)) = 0
    BY <2>1, CountOne
  <2>3. Wants(o) = 1
    BY <2>1 DEF Wants
  <2> QED
    BY <2>1, <2>2, <2>3 DEF Glimpsed
<1>2. inferences \in [Orchs -> Nat] /\ warnings = 0
  BY DEF SystemInit
<1> QED
  BY <1>1, <1>2 DEF GlimpseInv

(* Whatever is lost, repeated or late, and with any number of missions and   *)
(* interfaces: a mission takes one photo to the VLM for each glimpse it may  *)
(* use, and one more only when the operator asked for it with a warning.     *)
(* Provided that missions are started with no negative number of glimpses.   *)
(* GlimpsesAreTheLimit, without the warnings, is false.                      *)
THEOREM WithinGlimpses ==
  ASSUME Glimpses \subseteq Nat
  PROVE  SystemSpec => []WithinGlimpsesAndWarnings
<1>1. SystemInit => SystemInv /\ GlimpseInv
  BY SystemStart, GlimpseStart
<1>2. SystemInv /\ GlimpseInv /\ [SystemNext]_systemVars => SystemInv' /\ GlimpseInv'
  <2> SUFFICES ASSUME SystemInv, GlimpseInv, [SystemNext]_systemVars
               PROVE  SystemInv' /\ GlimpseInv'
    OBVIOUS
  <2>1. SystemInv'
    BY SystemKept
  <2> QED
    BY <2>1, GlimpseNext
<1>3. SystemInv /\ GlimpseInv => WithinGlimpsesAndWarnings
  <2> SUFFICES ASSUME SystemInv, GlimpseInv, NEW o \in Orchs, inferences[o] > 0
               PROVE  inferences[o] <= max_moves[o] + 1 + warnings
    BY DEF WithinGlimpsesAndWarnings
  <2>1. /\ Count(tasks, PhotosOf(o)) \in Nat /\ Count(tasks, WarningsTo(o)) \in Nat
        /\ inferences[o] \in Nat /\ Wants(o) \in 0..1 /\ moves_performed[o] \in Nat
        /\ MissionInv(SystemItem) /\ MissionTypeOK /\ warnings \in Nat
    BY GlimpseTypes DEF GlimpseInv
  <2>2. /\ Glimpsed(o) + Wants(o) + Count(tasks, WarningsTo(o))
             <= moves_performed[o] + 1 + warnings
        /\ max_moves[o] < 0 => Glimpsed(o) = 0
    BY DEF GlimpseInv
  <2>3. /\ moves_performed[o] <= confirmed[o] /\ confirmed[o] \in Nat /\ max_moves[o] \in Int
        /\ confirmed[o] = 0 \/ confirmed[o] <= max_moves[o]
    BY <2>1, SystemCarries, InvBudget DEF MoveBudget, MissionTypeOK
  <2> DEFINE a == Count(tasks, PhotosOf(o))
             c == Count(tasks, WarningsTo(o))
             v == Wants(o)
             n == inferences[o]
             m == moves_performed[o]
             x == max_moves[o]
  <2>4. /\ a \in Nat /\ c \in Nat /\ v \in Nat /\ n \in Nat /\ m \in Nat /\ x \in Int
        /\ n + a + v + c <= m + 1 + warnings
        /\ x < 0 => n + a = 0
        /\ m <= confirmed[o]
        /\ confirmed[o] = 0 \/ confirmed[o] <= x
    BY <2>1, <2>2, <2>3 DEF Glimpsed
  <2> HIDE DEF a, c, v, n, m, x
  <2>5. n > 0 => n <= x + 1 + warnings
    <3>1. n > 0 => x >= 0 /\ m <= x
      BY <2>3, <2>4 DEF m, x
    <3> QED
      BY <2>1, <2>4, <3>1
  <2> QED
    BY <2>5 DEF n, x
<1> QED
  BY <1>1, <1>2, <1>3, PTL DEF SystemSpec

-----------------------------------------------------------------------------
(* Moves proposed, shown and confirmed *)

OneInterface == \A u, w \in UIs : u = w
OwnMissions == \A o, p \in Orchs : MissionOf[o] = MissionOf[p] => o = p

Displays(u, o) == pending_ui[u] # NoCommand /\ pending_ui[u].by = o

\* The proposal is in one place: on its way to the interface, shown there, on its
\* way back, or approved.
Aligned(o) ==
  state[o] # "ENDED" =>
    /\ state[o] # "WAITING_FOR_USER" => None(Confirming, tasks, o)
    /\ Only(Confirming, tasks, o, proposed[o])
    /\ \A u \in UIs : Displays(u, o) => /\ state[o] = "WAITING_FOR_USER"
                                        /\ None(Confirming, tasks, o)
                                        /\ pending_ui[u].move = proposed[o]
    /\ MoveOpen(o) => current_move[o] = proposed[o]

AlignedInv ==
  /\ proposed \in [Orchs -> Moves \cup {NoMove}]
  /\ \A o \in Orchs : Aligned(o)

LEMMA ConfirmingTopic == Confirming \in Topics
  BY DEF Topics

LEMMA AlignedKept ==
  ASSUME NEW o \in Orchs, Aligned(o), Fewer(Confirming, tasks, tasks', o),
         state'[o] = state[o], current_move'[o] = current_move[o],
         pending_command'[o] = pending_command[o], proposed'[o] = proposed[o],
         \A u \in UIs : Displays(u, o)' => Displays(u, o) /\ pending_ui'[u] = pending_ui[u]
  PROVE  Aligned(o)'
<1>1. /\ None(Confirming, tasks, o) => None(Confirming, tasks', o)
      /\ \A move : Only(Confirming, tasks, o, move) => Only(Confirming, tasks', o, move)
  BY DEF Fewer
<1>2. MoveOpen(o)' <=> MoveOpen(o)
  BY DEF MoveOpen
<1> QED
  BY <1>1, <1>2 DEF Aligned

\* Serving the missions with no decision adds nothing to a question.
LEMMA TokensServed ==
  ASSUME tasks \in Seq(SystemItem), NEW T, T \subseteq NoDecision, ServesAndTells(T),
         NEW o \in Orchs
  PROVE  Fewer(Confirming, tasks, tasks', o)
<1>1. PICK q \in Seq(SystemItem), news \in Seq(SystemItem) :
        Served(q, news) /\ \A i \in 1..Len(news) : news[i].type \in T
  BY DEF ServesAndTells
<1>2. PICK s \in {0, 1} : /\ Len(q) + s = Len(tasks)
                          /\ \A i \in 1..Len(q) : tasks'[i] = tasks[i + s]
  BY <1>1, ServedKeeps
<1>3. /\ tasks' \in Seq(SystemItem)
      /\ \A i \in Added(tasks', Len(q)) : /\ i - Len(q) \in 1..Len(news)
                                          /\ tasks'[i] = news[i - Len(q)]
  BY <1>1, ServedKeeps
<1>4. Len(q) \in Nat /\ Len(tasks) \in Nat /\ Len(tasks') \in Nat
  BY <1>3
<1>5. ASSUME NEW i \in 1..Len(tasks'), Token(Confirming, tasks'[i], o)
      PROVE  /\ i + s \in 1..Len(tasks) /\ Token(Confirming, tasks[i + s], o)
             /\ tasks'[i].move = tasks[i + s].move
  <2>1. tasks'[i].type \notin T
    BY <1>5, FarewellTypes, CommandIsNoEvent DEF Token, Confirming, NoDecision
  <2>2. i \notin Added(tasks', Len(q))
    BY <1>1, <1>3, <2>1
  <2>3. i \in 1..Len(q)
    BY <1>4, <2>2 DEF Added
  <2> QED
    BY <1>2, <1>4, <1>5, <2>3
<1> QED
  BY ConfirmingTopic, <1>4, <1>5, TokensWithin

LEMMA AlignedServed ==
  ASSUME tasks \in Seq(SystemItem), AlignedInv, NEW T, T \subseteq NoDecision,
         ServesAndTells(T), UNCHANGED proposed,
         \A u \in UIs, o \in Orchs :
           Displays(u, o)' => Displays(u, o) /\ pending_ui'[u] = pending_ui[u]
  PROVE  AlignedInv'
<1>1. UNCHANGED orchVars
  BY DEF ServesAndTells, Served
<1>2. ASSUME NEW o \in Orchs
      PROVE  Aligned(o)'
  <2>1. Fewer(Confirming, tasks, tasks', o)
    BY TokensServed
  <2> QED
    BY <1>1, <2>1, AlignedKept DEF AlignedInv, orchVars
<1> QED
  BY <1>2 DEF AlignedInv

\* A question is shown.
LEMMA AlignedAsk ==
  ASSUME SystemInv, AlignedInv, OperatorCommand, HandleAsk
  PROVE  AlignedInv'
<1>1. /\ tasks \in Seq(SystemItem) /\ tasks # <<>> /\ Task = Head(tasks) /\ tasks' = Tail(tasks)
      /\ Task.type = "AskUserConfirmation" /\ Task = tasks[1] /\ 1 \in 1..Len(tasks)
      /\ pending_ui' = [u \in UIs |-> Task] /\ UNCHANGED <<orchVars, proposed>>
  BY DEF SystemInv, MissionInv, OperatorCommand, HandleAsk, Taken, Task, historyVars
<1>2. PICK p \in Orchs : p = Task.by /\ \A u \in UIs : pending_ui'[u] = Task
  <2>1. Task.by \in Orchs
    BY <1>1, CommandTaken DEF CommandTypes
  <2> QED
    BY <1>1, <2>1
<1>3. \A u \in UIs, o \in Orchs : Displays(u, o)' => o = p
  BY <1>2 DEF Displays
<1>4. ASSUME NEW o \in Orchs, o # p
      PROVE  Aligned(o)'
  <2>1. Fewer(Confirming, tasks, tasks', o)
    BY ConfirmingTopic, <1>1, TailTokens
  <2>2. Aligned(o)
    BY DEF AlignedInv
  <2> QED
    BY <1>1, <1>3, <1>4, <2>1, <2>2, AlignedKept DEF orchVars
<1>5. Aligned(p)'
  <2>1. SUFFICES ASSUME state[p] # "ENDED"
                 PROVE  Aligned(p)'
    BY <1>1 DEF Aligned, orchVars
  <2>2. Token(Confirming, Task, p) /\ ~None(Confirming, tasks, p)
    BY <1>1, <1>2 DEF Token, Confirming, None
  <2>3. Aligned(p)
    BY <1>2 DEF AlignedInv
  <2>4. /\ state[p] = "WAITING_FOR_USER" /\ Only(Confirming, tasks, p, proposed[p])
    BY <2>1, <2>2, <2>3 DEF Aligned
  <2>5. Task.move = proposed[p]
    BY <1>1, <2>2, <2>4 DEF Only
  <2>6. None(Confirming, tasks', p)
    BY ConfirmingTopic, <1>1, <2>2, <2>4, TailTokens DEF Only
  <2>7. Only(Confirming, tasks', p, proposed[p])
    BY ConfirmingTopic, <2>6, NoneIsOnly
  <2>8. state'[p] = state[p] /\ proposed'[p] = proposed[p]
    BY <1>1 DEF orchVars
  <2>9. ~MoveOpen(p)'
    BY <2>4, <2>8 DEF MoveOpen
  <2> QED
    BY <1>2, <2>4, <2>5, <2>6, <2>7, <2>8, <2>9 DEF Aligned
<1> QED
  BY <1>1, <1>4, <1>5 DEF AlignedInv

\* The question is answered by the one interface that shows it.
LEMMA AlignedDecided ==
  ASSUME OrchAssumption, OneInterface, OwnMissions, SystemInv, AlignedInv, NEW u \in UIs,
         OperatorStep(u)
  PROVE  AlignedInv'
<1>1. PICK decision \in Decisions : Decide(u, decision)
  BY DEF OperatorStep
<1> DEFINE e == [type |-> "UserDecisionReceived", mission |-> MissionOf[pending_ui[u].by],
                 decision |-> decision, move |-> pending_ui[u].move, to |-> Subscribed]
           p == pending_ui[u].by
<1>2. /\ tasks \in Seq(SystemItem) /\ pending_ui \in [UIs -> {NoCommand} \cup Question]
      /\ pending_ui[u] \in Question /\ pending_ui[u] # NoCommand
      /\ tasks' = Publish(tasks, e) /\ UNCHANGED <<orchVars, proposed>>
      /\ pending_ui' = [pending_ui EXCEPT ![u] = NoCommand]
  BY <1>1 DEF SystemInv, MissionInv, QuestionsShown, Decide, OperatorStep, historyVars
<1>3. e \in SystemItem
  <2>1. /\ MissionOf[pending_ui[u].by] \in Missions /\ pending_ui[u].move \in Moves
        /\ DroneOf[pending_ui[u].by] \in Drones
    BY <1>2 DEF Question, OrchAssumption
  <2> QED
    BY <2>1, EventsTyped
<1>4. p \in Orchs /\ \A w \in UIs : pending_ui'[w] = NoCommand
  <2>1. p \in Orchs
    BY <1>2 DEF Question
  <2> QED
    BY <1>2, <2>1 DEF OneInterface
<1>5. \A w \in UIs, o \in Orchs : ~Displays(w, o)'
  BY <1>4 DEF Displays
<1>6. /\ e.type = "UserDecisionReceived" /\ e.mission = MissionOf[p] /\ e.to = Subscribed
      /\ e.move = pending_ui[u].move
  OBVIOUS
<1>7. tasks' = Publish(tasks, e)
  BY <1>2
<1> HIDE DEF e
<1>8. ASSUME NEW o \in Orchs, ~Token(Confirming, e, o)
      PROVE  Aligned(o)'
  <2>1. Fewer(Confirming, tasks, tasks, o)
    BY DEF Fewer
  <2>2. Fewer(Confirming, tasks, tasks', o)
    BY ConfirmingTopic, <1>2, <1>3, <1>7, <1>8, <2>1, AppendTokens DEF Publish, Same
  <2>3. Aligned(o)
    BY DEF AlignedInv
  <2> QED
    BY <1>2, <1>5, <2>2, <2>3, AlignedKept DEF orchVars
<1>9. ASSUME NEW o \in Orchs, Token(Confirming, e, o)
      PROVE  Aligned(o)'
  <2>1. o = p /\ o \in Subscribed
    BY <1>4, <1>6, <1>9 DEF Token, Confirming, OwnMissions
  <2>2. Aligned(o) /\ Displays(u, o) /\ state[o] # "ENDED"
    BY <1>2, <2>1 DEF AlignedInv, Displays, Subscribed
  <2>3. /\ state[o] = "WAITING_FOR_USER" /\ None(Confirming, tasks, o)
        /\ pending_ui[u].move = proposed[o]
    BY <2>2 DEF Aligned
  <2>4. tasks' = Append(tasks, e)
    BY <1>6, <1>7, <2>1 DEF Publish
  <2>5. Only(Confirming, tasks', o, proposed[o])
    BY ConfirmingTopic, <1>2, <1>3, <1>6, <1>9, <2>3, <2>4, AppendTokens
  <2>6. state'[o] = state[o] /\ proposed'[o] = proposed[o]
    BY <1>2 DEF orchVars
  <2>7. ~MoveOpen(o)'
    BY <2>3, <2>6 DEF MoveOpen
  <2> QED
    BY <1>5, <2>3, <2>5, <2>6, <2>7 DEF Aligned
<1> QED
  BY <1>2, <1>8, <1>9 DEF AlignedInv

\* A mission that is answered.
LEMMA AlignedReply ==
  ASSUME MissionInv(SystemItem), NEW p \in Orchs, Aligned(p), UserConfirms(p) \/ UserWarns(p),
         UNCHANGED pending_ui, proposed'[p] = proposed[p]
  PROVE  Aligned(p)'
<1>1. Handles(p, "UserDecisionReceived") /\ tasks \in Seq(SystemItem)
  BY DEF UserConfirms, UserWarns, MissionInv
<1>2. /\ state[p] = "WAITING_FOR_USER" /\ Task.move \in Moves
      /\ Token(Confirming, Task, p) /\ ~None(Confirming, tasks, p)
  <2>1. state[p] = "WAITING_FOR_USER" /\ Task.move \in Moves
    BY <1>1, SystemCarries, HandlesEvent, TaskCarries DEF Expected, Proposing
  <2> QED
    BY ConfirmingTopic, <1>1, <2>1, SystemCarries, AnsweredTokens DEF Confirming
<1>3. Only(Confirming, tasks, p, proposed[p]) /\ \A u \in UIs : ~Displays(u, p)
  BY <1>2 DEF Aligned
<1>4. None(Confirming, Rest(p), p) /\ Task.move = proposed[p] /\ Rest(p) \in Seq(SystemItem)
  <2>1. None(Confirming, Rest(p), p) /\ Task.move = proposed[p]
    BY ConfirmingTopic, <1>1, <1>3, SystemCarries, AnsweredTokens DEF Only, Confirming
  <2>2. Rest(p) \in Seq(SystemItem)
    BY ConfirmingTopic, <1>1, SystemCarries, RestTokens DEF Handles
  <2> QED
    BY <2>1, <2>2
<1>5. PICK x \in SystemItem : /\ tasks' = Append(Rest(p), x) /\ ~Token(Confirming, x, p)
                              /\ state'[p] # "WAITING_FOR_USER"
                              /\ MoveOpen(p)' => current_move'[p] = Task.move
  <2> USE DEF MissionInv, MissionTypeOK, Goto
  <2>1. ExecuteMove(p, Task.move) \in SystemItem /\ GetPhoto(p) \in SystemItem
    BY <1>2, SystemCarries DEF Carries, OwnItems
  <2>2. ~Token(Confirming, ExecuteMove(p, Task.move), p) /\ ~Token(Confirming, GetPhoto(p), p)
    BY DEF Token, Confirming, ExecuteMove, GetPhoto
  <2>3. CASE UserConfirms(p)
    BY <2>1, <2>2, <2>3 DEF UserConfirms
  <2>4. CASE UserWarns(p)
    BY <2>1, <2>2, <2>4 DEF UserWarns, MoveOpen
  <2> QED
    BY <2>3, <2>4
<1>6. None(Confirming, tasks', p)
  BY ConfirmingTopic, <1>4, <1>5, AppendTokens DEF Same, Fewer
<1>7. Only(Confirming, tasks', p, proposed'[p])
  BY ConfirmingTopic, <1>6, NoneIsOnly
<1>8. \A u \in UIs : ~Displays(u, p)'
  BY <1>3 DEF Displays
<1> QED
  BY <1>4, <1>5, <1>6, <1>7, <1>8 DEF Aligned

\* A mission that begins to ask.
LEMMA AlignedBegins ==
  ASSUME MissionInv(SystemItem), NEW p \in Orchs, Aligned(p), Begins(p), UNCHANGED pending_ui,
         proposed'[p] = Task.move
  PROVE  Aligned(p)'
<1>1. /\ state[p] = "WAITING_FOR_VLM" /\ state'[p] = "WAITING_FOR_USER"
      /\ None(Confirming, tasks, p) => Only(Confirming, tasks', p, Task.move)
  BY SystemCarries, AskedTokens DEF Begins, MissionInv
<1>2. None(Confirming, tasks, p) /\ \A u \in UIs : ~Displays(u, p)
  BY <1>1 DEF Aligned
<1>3. Only(Confirming, tasks', p, proposed'[p]) /\ ~MoveOpen(p)'
  BY <1>1, <1>2 DEF MoveOpen
<1>4. \A u \in UIs : ~Displays(u, p)'
  BY <1>2 DEF Displays
<1> QED
  BY <1>1, <1>3, <1>4 DEF Aligned

\* Any other step of a mission that does not end it.
LEMMA AlignedGoesOn ==
  ASSUME NEW p \in Orchs, Aligned(p), state[p] # "ENDED",
         Fewer(Confirming, tasks, tasks', p), UNCHANGED pending_ui,
         state'[p] = "WAITING_FOR_USER" <=> state[p] = "WAITING_FOR_USER",
         current_move'[p] = current_move[p], MoveOpen(p)' => MoveOpen(p),
         proposed'[p] = proposed[p]
  PROVE  Aligned(p)'
<1>1. /\ None(Confirming, tasks, p) => None(Confirming, tasks', p)
      /\ Only(Confirming, tasks, p, proposed[p]) => Only(Confirming, tasks', p, proposed[p])
  BY DEF Fewer
<1>2. \A u \in UIs : Displays(u, p)' => Displays(u, p) /\ pending_ui'[u] = pending_ui[u]
  BY DEF Displays
<1> QED
  BY <1>1, <1>2 DEF Aligned

LEMMA AlignedMission ==
  ASSUME OrchAssumption, SystemInv, AlignedInv, NEW p \in Orchs, MissionActs(p)
  PROVE  AlignedInv'
<1>1. /\ Writes(p) /\ UNCHANGED pending_ui /\ tasks \in Seq(SystemItem)
      /\ MissionInv(SystemItem) /\ MissionTypeOK
      /\ proposed \in [Orchs -> Moves \cup {NoMove}]
  BY ActsAreMission DEF SystemInv, MissionInv, AlignedInv
<1>2. Follows(SystemItem, p, tasks')
  BY <1>1, SystemCarries, MissionFollows DEF MissionInv
<1>3. proposed' = [proposed EXCEPT ![p] =
                     IF OrchestratorStep(p) /\ state[p] # "WAITING_FOR_USER"
                          /\ state'[p] = "WAITING_FOR_USER"
                     THEN Task.move ELSE @]
  <2>1. CASE OrchestratorStep(p)
    BY <2>1 DEF OrchestratorStep
  <2>2. CASE ~OrchestratorStep(p)
    BY <1>1, <2>2 DEF MissionActs, StartMission, historyVars
  <2> QED
    BY <2>1, <2>2
<1>4. OrchestratorStep(p) /\ state[p] # "WAITING_FOR_USER" /\ state'[p] = "WAITING_FOR_USER"
        => Task.move \in Moves
  BY <1>1, SystemCarries, EntersAsking DEF OrchestratorStep
<1>5. proposed' \in [Orchs -> Moves \cup {NoMove}]
  BY <1>1, <1>3, <1>4
<1>6. ASSUME NEW o \in Orchs, o # p
      PROVE  Aligned(o)'
  <2>1. UNCHANGED Ledger(o)
    BY <1>1, <1>6, OthersKept
  <2>2. Fewer(Confirming, tasks, tasks', o)
    BY ConfirmingTopic, <1>1, <1>2, <1>6, SystemCarries, MissionTokens
  <2>3. proposed'[o] = proposed[o] /\ Aligned(o)
    BY <1>1, <1>3, <1>6 DEF AlignedInv
  <2>4. \A u \in UIs : Displays(u, o)' => Displays(u, o) /\ pending_ui'[u] = pending_ui[u]
    BY <1>1 DEF Displays
  <2> QED
    BY <2>1, <2>2, <2>3, <2>4, AlignedKept DEF Ledger
<1>7. Aligned(p)'
  <2>1. SUFFICES ASSUME state'[p] # "ENDED"
                 PROVE  Aligned(p)'
    BY DEF Aligned
  <2>2. Aligned(p)
    BY DEF AlignedInv
  <2>3. state[p] # "ENDED"
    BY <1>2, <2>1 DEF Follows, Parts, Commands, Continues
  <2>4. CASE StartMission(p)
    <3>1. state[p] = "NEW" /\ state'[p] = "IDLE" /\ UNCHANGED <<current_move, proposed>>
      BY <1>1, <2>1, <2>4 DEF StartMission, Start, Goto, Terminate, MissionTypeOK, historyVars
    <3>2. ~Opens(Confirming, p)
      BY <3>1, HandlesEvent
      DEF Opens, Confirming, Analysing, HandleVlmAnalysis, Expected
    <3>3. Fewer(Confirming, tasks, tasks', p)
      BY ConfirmingTopic, <1>1, <1>2, <3>2, SystemCarries, MissionTokens
    <3>4. ~MoveOpen(p)'
      BY <3>1 DEF MoveOpen
    <3> QED
      BY <1>1, <2>2, <2>3, <3>1, <3>3, <3>4, AlignedGoesOn
  <2>5. CASE OrchestratorStep(p)
    <3>1. AwaitedDone(p) \/ Handle(p)
      BY <2>5 DEF OrchestratorStep
    <3>2. Begins(p) \/ UserConfirms(p) \/ UserWarns(p) \/ GoesOn(p)
      BY <1>1, <2>1, <3>1, SystemCarries, OwnStep
    <3>3. CASE Begins(p)
      <4>1. state[p] = "WAITING_FOR_VLM" /\ state'[p] = "WAITING_FOR_USER"
        BY <1>1, <3>3, SystemCarries, AskedTokens DEF Begins
      <4>2. proposed'[p] = Task.move
        BY <1>1, <1>3, <2>5, <4>1
      <4> QED
        BY <1>1, <2>2, <3>3, <4>2, AlignedBegins
    <3>4. CASE UserConfirms(p) \/ UserWarns(p)
      <4>1. state'[p] # "WAITING_FOR_USER"
        BY <1>1, <3>4 DEF UserConfirms, UserWarns, Goto, MissionTypeOK
      <4>2. proposed'[p] = proposed[p]
        BY <1>1, <1>3, <4>1
      <4> QED
        BY <1>1, <2>2, <3>4, <4>2, AlignedReply
    <3>5. CASE ~Begins(p) /\ GoesOn(p)
      <4>1. /\ state'[p] = "WAITING_FOR_USER" <=> state[p] = "WAITING_FOR_USER"
            /\ current_move'[p] = current_move[p]
            /\ MoveOpen(p)' => MoveOpen(p)
        BY <3>5 DEF GoesOn
      <4>2. proposed'[p] = proposed[p]
        BY <1>1, <1>3, <4>1
      <4>3. ~Opens(Confirming, p)
        BY <3>5 DEF Opens, Begins, Confirming, Analysing
      <4>4. Fewer(Confirming, tasks, tasks', p)
        BY ConfirmingTopic, <1>1, <1>2, <4>3, SystemCarries, MissionTokens
      <4> QED
        BY <1>1, <2>2, <2>3, <4>1, <4>2, <4>4, AlignedGoesOn
    <3> QED
      BY <3>2, <3>3, <3>4, <3>5
  <2> QED
    BY <2>4, <2>5 DEF MissionActs
<1> QED
  BY <1>5, <1>6, <1>7 DEF AlignedInv

LEMMA AlignedNext ==
  ASSUME OneInterface, OwnMissions, SystemInv, AlignedInv, [SystemNext]_systemVars
  PROVE  AlignedInv'
<1> USE OrchAssumption, BridgeAssumption, ClientAssumption
<1>1. LinkInv /\ tasks \in Seq(SystemItem) /\ QuestionsShown
  BY DEF SystemInv, MissionInv
<1>2. /\ DroneNotice \subseteq NoDecision /\ ChatNotice \subseteq NoDecision
      /\ {"VlmAnalysisCompleted", "MoveExecuted", "PhotoWithTelemetryReceived"}
           \subseteq NoDecision
  BY DEF NoDecision, EventTypes, DroneEventTypes, MissionEventTypes, DroneNotice, ChatNotice
<1>3. ASSUME ServesAndTells(NoDecision), UNCHANGED <<proposed, pending_ui>>
      PROVE  AlignedInv'
  <2>1. \A u \in UIs, o \in Orchs :
          Displays(u, o)' => Displays(u, o) /\ pending_ui'[u] = pending_ui[u]
    BY <1>3 DEF Displays
  <2> QED
    BY <1>1, <1>3, <2>1, AlignedServed
<1>4. CASE UNCHANGED systemVars
  <2>1. /\ UNCHANGED <<proposed, pending_ui>>
        /\ UNCHANGED <<orchVars, tasks, bridgeVars, wire>>
    BY <1>4 DEF systemVars, missionVars, droneVars, linkVars, historyVars, operatorVars
  <2> QED
    BY <1>1, <1>3, <2>1, CalmTaken
<1>5. CASE \E o \in Orchs : MissionActs(o)
  BY <1>5, AlignedMission
<1>6. CASE ChatCommand \/ DroneCommand
  <2>1. UNCHANGED <<proposed, pending_ui>>
    BY <1>6 DEF ChatCommand, DroneCommand, operatorVars, historyVars
  <2> QED
    BY <1>1, <1>2, <1>3, <1>6, <2>1, ChatTells, DroneCommandTells
<1>7. CASE OperatorCommand
  <2>1. CASE HandleAsk
    BY <1>7, <2>1, AlignedAsk
  <2>2. CASE HandleSearchEnded
    <3>1. UNCHANGED proposed
      BY <1>7 DEF OperatorCommand, historyVars
    <3>2. \A u \in UIs : pending_ui'[u] = NoCommand \/ pending_ui'[u] = pending_ui[u]
      BY <2>2 DEF HandleSearchEnded
    <3>3. \A u \in UIs, o \in Orchs :
            Displays(u, o)' => Displays(u, o) /\ pending_ui'[u] = pending_ui[u]
      BY <3>2 DEF Displays
    <3>4. ServesAndTells(NoDecision)
      BY <1>1, <1>7, OperatorTells
    <3> QED
      BY <1>1, <3>1, <3>3, <3>4, AlignedServed
  <2> QED
    BY <1>7, <2>1, <2>2 DEF OperatorCommand
<1>8. CASE \E m \in Missions : ChatStep(m)
  <2>1. UNCHANGED <<proposed, pending_ui>>
    BY <1>8 DEF ChatStep, operatorVars, historyVars
  <2> QED
    BY <1>1, <1>2, <1>3, <1>8, <2>1, ChatStepTells
<1>9. CASE \E u \in UIs : OperatorStep(u)
  BY <1>9, AlignedDecided
<1>10. CASE \E c \in Conns : ServerStep(c)
  <2>1. UNCHANGED <<proposed, pending_ui>>
    BY <1>10 DEF ServerStep, operatorVars, historyVars
  <2> QED
    BY <1>1, <1>2, <1>3, <1>10, <2>1, ServeTells, NetworkTells DEF ServerStep, missionVars
<1>11. CASE \E d \in Drones : DroneStep(d) \/ RestartDrone(d)
  <2>1. UNCHANGED <<proposed, pending_ui>>
    BY <1>11 DEF DroneStep, RestartDrone, operatorVars, historyVars
  <2> QED
    BY <1>1, <1>3, <1>11, <2>1, DroneStepTells, RestartTells DEF DroneStep, missionVars
<1>12. CASE ConnectionLost
  <2>1. UNCHANGED <<proposed, pending_ui>>
    BY <1>12 DEF ConnectionLost, operatorVars, historyVars
  <2> QED
    BY <1>1, <1>3, <1>12, <2>1, DroneStepTells, NetworkTells DEF ConnectionLost, missionVars
<1> QED
  BY <1>4, <1>5, <1>6, <1>7, <1>8, <1>9, <1>10, <1>11, <1>12
  DEF SystemNext, LoopStep, MissionActs

LEMMA AlignedStart ==
  ASSUME SystemInit
  PROVE  AlignedInv
<1>1. tasks = <<>> /\ proposed = [o \in Orchs |-> NoMove] /\ state = [o \in Orchs |-> "NEW"]
      /\ pending_ui = [u \in UIs |-> NoCommand]
  BY DEF SystemInit, Init
<1>2. \A o \in Orchs : None(Confirming, tasks, o)
  BY <1>1 DEF None
<1>3. \A o \in Orchs : Only(Confirming, tasks, o, proposed[o])
  BY ConfirmingTopic, <1>2, NoneIsOnly
<1>4. \A u \in UIs, o \in Orchs : ~Displays(u, o)
  BY <1>1 DEF Displays
<1>5. \A o \in Orchs : ~MoveOpen(o)
  BY <1>1 DEF MoveOpen
<1> QED
  BY <1>1, <1>2, <1>3, <1>4, <1>5 DEF AlignedInv, Aligned

(* With one interface that answers, and no id used by two missions, whatever *)
(* connections break and however often a move is repeated: the move under    *)
(* way is the one the VLM proposed last.                                     *)
THEOREM ApprovedWasProposed ==
  ASSUME OneInterface, OwnMissions
  PROVE  SystemSpec => []ApprovedIsProposed
<1>1. SystemInit => SystemInv /\ AlignedInv
  BY SystemStart, AlignedStart
<1>2. SystemInv /\ AlignedInv /\ [SystemNext]_systemVars => SystemInv' /\ AlignedInv'
  BY SystemKept, AlignedNext
<1>3. AlignedInv => ApprovedIsProposed
  BY DEF AlignedInv, Aligned, MoveOpen, ApprovedIsProposed
<1> QED
  BY <1>1, <1>2, <1>3, PTL DEF SystemSpec

-----------------------------------------------------------------------------
(* Photos, moves and reports while no connection is lost *)

NothingLost == MaxLosses = 0 /\ ~StoreFails
OwnDrones == \A o, p \in Orchs : DroneOf[o] = DroneOf[p] => o = p

Request == {AuthAck(TRUE), PhotoRequest} \cup {MoveRequest(m) : m \in Moves \cup {NoMove}}
ChatJob == [type : {"save"}] \cup [type : {"analysis"}, photo : Int]

\* What drone d has yet to read, and what it has sent.
Inbox(d) == IF proc[d] = NoConn THEN <<>> ELSE to_drone[proc[d]]
Outbox(d) == IF proc[d] = NoConn THEN <<>> ELSE to_server[proc[d]]

\* A drone keeps the one connection it has opened.
Steady ==
  /\ to_drone \in [Conns -> Seq(Request)]
  /\ jobs \in [Missions -> Seq(ChatJob)]
  /\ disconnected = {}
  /\ \A d \in Drones : /\ proc[d] # NoConn => wire[proc[d]] = "up"
                       /\ connected[d] # NoConn => connected[d] = proc[d]
  /\ \A c \in Conns : /\ handler[c] # "none" => proc[owner[c]] = c
                      /\ handler[c] = "auth" => connected[owner[c]] = NoConn
  /\ \A o \in Orchs : start_at[o] \notin {"StartRecording", "recorded"}
  /\ losses \in Nat

\* What is on its way between mission o and the rest of the program.
Kinds == {"photo", "ack", "move", "again", "analysis", "stale", "lost"}
Answers(o, type) == {x \in SystemItem : x.type = type /\ o \in x.to /\ Concerns(o, x)}
AsksFor(o, type) == {x \in SystemItem : x.type = type /\ x.by = o}
Fresh(o) == {NoPhoto, flights[DroneOf[o]]}

Waiting(k, o) ==
  CASE k = "photo" -> AsksFor(o, "GetPhoto") \cup Answers(o, "PhotoWithTelemetryReceived")
    [] k = "ack"   -> AsksFor(o, "ExecuteMove") \cup Answers(o, "MoveStarted")
    [] k = "move"  -> AsksFor(o, "ExecuteMove") \cup Answers(o, "MoveExecuted")
    [] k = "again" -> AsksFor(o, "ExecuteMove")
                        \cup {x \in Answers(o, "MoveExecuted") : ~x.ok}
    [] k = "analysis" -> AsksFor(o, "AnalyzePhoto") \cup Answers(o, "VlmAnalysisCompleted")
    [] k = "stale" -> {x \in AsksFor(o, "AnalyzePhoto")
                               \cup Answers(o, "PhotoWithTelemetryReceived") :
                         x.photo \notin Fresh(o)}
    [] k = "lost"  -> Answers(o, "DroneConnectionLost") \cup Answers(o, "DroneReconnected")
Commanded(k) ==
  CASE k = "photo" -> {PhotoRequest}
    [] k \in {"ack", "move", "again"} -> {MoveRequest(m) : m \in Moves \cup {NoMove}}
    [] OTHER -> {}
Returned(k, o) ==
  CASE k = "photo" -> {PhotoReport(place) : place \in Int}
    [] k = "ack"   -> {MoveAck}
    [] k = "move"  -> {MoveReport(ok) : ok \in BOOLEAN}
    [] k = "again" -> {MoveReport(FALSE)}
    [] k = "stale" -> {PhotoReport(place) : place \in Int \ Fresh(o)}
    [] OTHER -> {}
InChat(k, o) ==
  CASE k = "analysis" -> [type : {"analysis"}, photo : Int]
    [] k = "stale" -> [type : {"analysis"}, photo : Int \ Fresh(o)]
    [] OTHER -> {}
InFlight(k, o) ==
  CASE k = "move" -> flying[DroneOf[o]]
    [] k = "again" -> flying[DroneOf[o]] + flights[DroneOf[o]]
    [] OTHER -> 0

InQueue(k, o) == Count(tasks, Waiting(k, o))
InCommands(k, o) == Count(Inbox(DroneOf[o]), Commanded(k))
InReports(k, o) == Count(Outbox(DroneOf[o]), Returned(k, o))
InJobs(k, o) == Count(jobs[MissionOf[o]], InChat(k, o))
Load(k, o) ==
  InQueue(k, o) + InCommands(k, o) + InReports(k, o) + InJobs(k, o) + InFlight(k, o)

\* A mission has at most what its state waits for, one that has ended has nothing
\* that counts, but no move either if it was cancelled.
Allowed(k, o) ==
  CASE k = "photo"    -> IF state[o] = "WAITING_FOR_DRONE" THEN 1 ELSE 0
    [] k = "ack"      -> IF state[o] = "WAITING_FOR_ACK" THEN 1 ELSE 0
    [] k = "move"     -> IF state[o] \in {"WAITING_FOR_ACK", "FLYING"} THEN 1 ELSE 0
    [] k = "analysis" -> IF state[o] = "WAITING_FOR_VLM" THEN 1 ELSE 0
    [] k = "again"    -> confirmed[o]
    [] OTHER          -> 0
Matters(k, o) ==
  CASE k = "lost"  -> TRUE
    [] k = "again" -> <<TRUE, FALSE>> \notin MoveOutcomes
    [] k = "move"  -> state[o] # "ENDED" \/ o \in cancelled
    [] OTHER       -> state[o] # "ENDED"
Flow(o) ==
  /\ state[o] # "PAUSED"
  /\ o \in cancelled => state[o] = "ENDED"
  /\ \A k \in Kinds : Matters(k, o) => Load(k, o) <= Allowed(k, o)
FlowInv == Steady /\ \A o \in Orchs : Flow(o)

-----------------------------------------------------------------------------
(* Connections that hold *)

\* The event e the server makes of report r of drone d.
Makes(r, d, e) ==
  \/ r = MoveAck /\ e = [type |-> "MoveStarted", drone |-> d, to |-> Subscribed]
  \/ \E ok \in BOOLEAN :
       /\ r = MoveReport(ok)
       /\ e = [type |-> "MoveExecuted", drone |-> d, ok |-> ok, to |-> Subscribed]
  \/ \E place \in Int :
       /\ r = PhotoReport(place)
       /\ e = [type |-> "PhotoWithTelemetryReceived", drone |-> d, photo |-> place,
               to |-> Subscribed]

Accepts(c) ==
  /\ handler[c] = "auth" /\ handler' = [handler EXCEPT ![c] = "serving"]
  /\ connected' = [connected EXCEPT ![owner[c]] = c]
  /\ tasks' = tasks
  /\ to_drone' = [to_drone EXCEPT ![c] = @ \o <<AuthAck(TRUE)>>]
Hears(c) ==
  /\ UNCHANGED <<bridgeVars, to_drone>>
  /\ \E e : Makes(Head(to_server[c]), owner[c], e) /\ tasks' = Publish(tasks, e)

LEMMA ReportIs ==
  ASSUME LinkInv, NEW c \in Conns, to_server[c] # <<>>
  PROVE  /\ Head(to_server[c]).type = "ACK_MOVE" => Head(to_server[c]) = MoveAck
         /\ Head(to_server[c]).type = "MOVE_EXECUTED" =>
              \E ok \in BOOLEAN : Head(to_server[c]) = MoveReport(ok)
         /\ Head(to_server[c]).type = "PHOTO_WITH_TELEMETRY" =>
              \E place \in Int : Head(to_server[c]) = PhotoReport(place)
<1>1. Head(to_server[c]) \in Report
  BY DEF LinkInv, LinkTypeOK
<1> QED
  BY <1>1 DEF Report, Auth, MoveAck, MoveReport, PhotoReport

LEMMA SteadyServe ==
  ASSUME NothingLost, LinkInv, Steady, NEW c \in Conns, Serve(c)
  PROVE  /\ owner[c] \in Drones /\ proc[owner[c]] = c /\ to_server[c] # <<>>
         /\ to_server' = [to_server EXCEPT ![c] = Tail(@)]
         /\ UNCHANGED <<disconnected, owner, wire, noticed, orchVars>>
         /\ Accepts(c) \/ Hears(c)
<1>1. handler[c] # "none"
  BY DEF Serve, Reject, Accept, AuthFails, ReceiveMoveAck, ReceiveMoveReport, ReceivePhoto,
         PhotoNotStored, EndOfMessages, Incoming
<1>2. owner[c] \in Drones /\ proc[owner[c]] = c
  BY <1>1 DEF LinkInv, Owned, Steady
<1>3. proc[owner[c]] # NoConn
  <2>1. c # NoConn
    BY BridgeAssumption, NoConnIsNone
  <2> QED
    BY <1>2, <2>1
<1>4. wire[c] = "up" /\ noticed[c] = FALSE
  <2>1. wire[c] = "up"
    BY <1>2, <1>3 DEF Steady
  <2>2. noticed[c] \in BOOLEAN
    BY DEF LinkInv, LinkTypeOK, BridgeTypeOK
  <2> QED
    BY <2>1, <2>2 DEF LinkInv, Owned
<1>5. CASE Reject(c)
  BY <1>1, <1>5 DEF Reject, Steady
<1>6. CASE AuthFails(c) \/ EndOfMessages(c) \/ PhotoNotStored(c)
  BY <1>4, <1>6 DEF AuthFails, EndOfMessages, PhotoNotStored, NothingLost
<1>7. CASE Accept(c)
  <2>1. owner[c] \notin disconnected /\ disconnected \ {owner[c]} = disconnected
    BY DEF Steady
  <2> QED
    BY <1>2, <1>4, <1>7, <2>1 DEF Accept, Accepts, Sent
<1>8. CASE ReceiveMoveAck(c)
  <2>1. Head(to_server[c]) = MoveAck
    BY <1>8, ReportIs DEF ReceiveMoveAck, Incoming
  <2> QED
    BY <1>2, <1>8, <2>1 DEF ReceiveMoveAck, Incoming, Hears, Makes, Tell, bridgeVars
<1>9. CASE ReceiveMoveReport(c)
  <2>1. PICK ok \in BOOLEAN : Head(to_server[c]) = MoveReport(ok)
    BY <1>9, ReportIs DEF ReceiveMoveReport, Incoming
  <2>2. Head(to_server[c]).ok = ok
    BY <2>1 DEF MoveReport
  <2> QED
    BY <1>2, <1>4, <1>9, <2>1, <2>2
    DEF ReceiveMoveReport, Incoming, Reported, Hears, Makes, bridgeVars
<1>10. CASE ReceivePhoto(c)
  <2>1. PICK place \in Int : Head(to_server[c]) = PhotoReport(place)
    BY <1>10, ReportIs DEF ReceivePhoto, Incoming
  <2>2. Head(to_server[c]).place = place
    BY <2>1 DEF PhotoReport
  <2> QED
    BY <1>2, <1>4, <1>10, <2>1, <2>2
    DEF ReceivePhoto, Incoming, Reported, Hears, Makes, bridgeVars
<1> QED
  BY <1>5, <1>6, <1>7, <1>8, <1>9, <1>10 DEF Serve

\* Tasks that carry what a job of the chat and a request need.
LEMMA TaskData ==
  ASSUME tasks \in Seq(SystemItem), tasks # <<>>
  PROVE  /\ Task \in SystemItem
         /\ Task.type = "ExecuteMove" => Task.by \in Orchs /\ Task.move \in Moves \cup {NoMove}
         /\ Task.type = "GetPhoto" => Task.by \in Orchs
         /\ Task.type = "AnalyzePhoto" => Task.by \in Orchs /\ Task.photo \in Int
         /\ Task.type = "SaveSession" => Task.by \in Orchs
<1>1. Task \in SystemItem
  BY DEF Task
<1> QED
  BY <1>1 DEF SystemItem, Items, Events, SimpleCommand, Flight, Question, Analyses, WakeUp,
              Awaited, DroneNotice, ChatNotice

LEMMA NoRecordingStarts ==
  ASSUME SystemAssumption, MissionTypeOK, NEW p \in Orchs, Writes(p),
         \A o \in Orchs : start_at[o] \notin {"StartRecording", "recorded"}
  PROVE  \A o \in Orchs : start_at'[o] \notin {"StartRecording", "recorded"}
<1> USE DEF MissionTypeOK
<1>1. CASE Starts(p)
  BY <1>1 DEF Starts, Start
<1>2. CASE AwaitedDone(p)
  BY <1>2 DEF AwaitedDone, Awaited
<1>3. CASE StartCancelled(p)
  BY <1>3 DEF StartCancelled
<1>4. CASE StartSave(p) \/ StartFirstPhoto(p)
  BY <1>4 DEF StartSave, StartFirstPhoto
<1>5. CASE StartSearch(p)
  BY <1>5 DEF StartSearch, SystemAssumption
<1>6. CASE ~StartSave(p) /\ ~StartFirstPhoto(p) /\ ~StartSearch(p) /\ Handle(p)
  <2>1. UNCHANGED start_at
    BY <1>6 DEF Handle, HandlePhotoAndTelemetry, HandleVlmAnalysis, UserConfirms, UserWarns,
                UserCancels, HandleMoveStarted, MoveSucceeded, MoveFailed,
                HandleDroneConnectionLost, HandleDroneReconnected, HandleFatal, Ignore,
                orchVars
  <2> QED
    BY <2>1
<1> QED
  BY <1>1, <1>2, <1>3, <1>4, <1>5, <1>6 DEF Writes

\* The connections are as before.
LEMMA SteadyKept ==
  ASSUME Steady, to_drone' \in [Conns -> Seq(Request)], jobs' \in [Missions -> Seq(ChatJob)],
         UNCHANGED <<disconnected, connected, handler, proc, wire, owner, losses>>,
         \A o \in Orchs : start_at'[o] \notin {"StartRecording", "recorded"}
  PROVE  Steady'
  BY DEF Steady

LEMMA SteadyMissions ==
  ASSUME SystemAssumption, OrchAssumption, NothingLost, SystemInv, Steady,
         \/ \E o \in Orchs : MissionActs(o)
         \/ ChatCommand \/ OperatorCommand \/ DroneCommand
         \/ \E m \in Missions : ChatStep(m)
         \/ \E u \in UIs : OperatorStep(u)
  PROVE  Steady'
<1>1. /\ LinkInv /\ MissionTypeOK /\ tasks \in Seq(SystemItem)
      /\ to_drone \in [Conns -> Seq(Request)] /\ jobs \in [Missions -> Seq(ChatJob)]
      /\ \A o \in Orchs : start_at[o] \notin {"StartRecording", "recorded"}
  BY DEF SystemInv, MissionInv, Steady
<1>2. CASE \E o \in Orchs : MissionActs(o)
  <2>1. PICK p \in Orchs : MissionActs(p)
    BY <1>2
  <2>2. Writes(p)
    BY <2>1, ActsAreMission
  <2>3. \A o \in Orchs : start_at'[o] \notin {"StartRecording", "recorded"}
    BY <1>1, <2>2, NoRecordingStarts
  <2>4. UNCHANGED <<bridgeVars, droneVars, chatVars, losses>>
    BY <2>1 DEF MissionActs, OrchestratorStep, StartMission
  <2> QED
    BY <1>1, <2>3, <2>4, SteadyKept DEF bridgeVars, droneVars, chatVars, linkVars, clientVars
<1>3. CASE ChatCommand
  <2>1. UNCHANGED <<orchVars, bridgeVars, droneVars, losses>>
    BY <1>3 DEF ChatCommand
  <2>2. \/ UNCHANGED jobs
        \/ \E job \in ChatJob : jobs' = [jobs EXCEPT ![Chat] = Append(@, job)]
    BY <1>1, <1>3, TaskData
    DEF ChatCommand, HandleCreateNewSession, HandleSaveSession, HandleAnalyzePhoto,
        HandleDeleteSession, UseChat, Taken, ChatJob
  <2>3. jobs' \in [Missions -> Seq(ChatJob)]
    <3>1. ASSUME NEW job \in ChatJob, jobs' = [jobs EXCEPT ![Chat] = Append(@, job)]
          PROVE  jobs' \in [Missions -> Seq(ChatJob)]
      <4>1. \A m \in Missions : Append(jobs[m], job) \in Seq(ChatJob)
        BY <1>1, <3>1
      <4> QED
        BY <1>1, <3>1, <4>1
    <3> QED
      BY <1>1, <2>2, <3>1
  <2> QED
    BY <1>1, <2>1, <2>3, SteadyKept
    DEF orchVars, bridgeVars, droneVars, linkVars, clientVars
<1>4. CASE OperatorCommand \/ \E u \in UIs : OperatorStep(u)
  <2>1. UNCHANGED <<orchVars, bridgeVars, droneVars, chatVars, losses>>
    BY <1>4 DEF OperatorCommand, OperatorStep
  <2> QED
    BY <1>1, <2>1, SteadyKept
    DEF orchVars, bridgeVars, droneVars, chatVars, linkVars, clientVars
<1>5. CASE DroneCommand
  <2>1. /\ UNCHANGED <<orchVars, bridgeVars, clientVars, chatVars, losses>>
        /\ \E msg \in Request : SendCommand(Task.by, msg)
    BY <1>1, <1>5, TaskData DEF DroneCommand, HandleGetPhoto, SendMove, Request
  <2>2. PICK msg \in Request : SendCommand(Task.by, msg)
    BY <2>1
  <2>3. /\ UNCHANGED <<owner, wire>>
        /\ \/ UNCHANGED to_drone
           \/ \E c : to_drone' = [to_drone EXCEPT ![c] = Sent(c, @, <<msg>>)]
    BY <2>2 DEF SendCommand, linkVars
  <2>4. to_drone' \in [Conns -> Seq(Request)]
    <3>1. ASSUME NEW c, to_drone' = [to_drone EXCEPT ![c] = Sent(c, @, <<msg>>)]
          PROVE  to_drone' \in [Conns -> Seq(Request)]
      <4>1. \A b \in Conns : Sent(c, to_drone[b], <<msg>>) \in Seq(Request)
        BY <1>1 DEF Sent
      <4> QED
        BY <1>1, <3>1, <4>1
    <3> QED
      BY <1>1, <2>3, <3>1
  <2> QED
    BY <1>1, <2>1, <2>3, <2>4, SteadyKept DEF orchVars, bridgeVars, clientVars, chatVars
<1>6. CASE \E m \in Missions : ChatStep(m)
  <2>1. PICK m \in Missions : ChatStep(m)
    BY <1>6
  <2>2. /\ UNCHANGED <<orchVars, bridgeVars, droneVars, losses>>
        /\ jobs[m] # <<>> /\ jobs' = [jobs EXCEPT ![m] = Tail(@)]
    BY <2>1 DEF ChatStep, FinishSave, FinishAnalysis, Job
  <2>3. jobs' \in [Missions -> Seq(ChatJob)]
    BY <1>1, <2>2
  <2> QED
    BY <1>1, <2>2, <2>3, SteadyKept
    DEF orchVars, bridgeVars, droneVars, linkVars, clientVars
<1> QED
  BY <1>2, <1>3, <1>4, <1>5, <1>6

LEMMA SteadyServer ==
  ASSUME BridgeAssumption, NothingLost, LinkInv, Steady, NEW c \in Conns, ServerStep(c)
  PROVE  Steady'
<1>1. /\ LinkTypeOK /\ owner \in [Conns -> Drones \cup {NoDrone}]
      /\ connected \in [Drones -> Conns \cup {NoConn}]
      /\ handler \in [Conns -> {"none", "auth", "serving"}]
      /\ to_drone \in [Conns -> Seq(Request)]
  BY DEF LinkInv, LinkTypeOK, BridgeTypeOK, Steady
<1>2. UNCHANGED <<proc, jobs, losses>>
  BY DEF ServerStep, clientVars, chatVars
<1>3. CASE Notice(c) /\ UNCHANGED <<bridgeVars, missionVars>>
  <2>1. UNCHANGED <<disconnected, connected, handler, wire, owner, start_at, to_drone>>
    BY <1>3 DEF Notice, bridgeVars, missionVars, orchVars
  <2> QED
    BY <1>2, <2>1 DEF Steady
<1>4. CASE Serve(c)
  <2>1. /\ owner[c] \in Drones /\ proc[owner[c]] = c
        /\ UNCHANGED <<disconnected, owner, wire, start_at>>
    BY <1>4, SteadyServe DEF orchVars
  <2>2. CASE Accepts(c)
    <3>1. to_drone' \in [Conns -> Seq(Request)]
      <4> DEFINE x == AuthAck(TRUE)
      <4>1. x \in Request /\ to_drone' = [to_drone EXCEPT ![c] = @ \o <<x>>]
        BY <2>2 DEF Request, Accepts
      <4> HIDE DEF x
      <4>2. \A b \in Conns : to_drone[b] \o <<x>> \in Seq(Request)
        BY <1>1, <4>1
      <4> QED
        BY <1>1, <4>1, <4>2
    <3>2. \A d \in Drones : connected'[d] # NoConn => connected'[d] = proc'[d]
      BY <1>1, <1>2, <2>1, <2>2 DEF Accepts, Steady
    <3>3. ASSUME NEW b \in Conns, handler'[b] # "none"
          PROVE  /\ proc'[owner'[b]] = b
                 /\ handler'[b] = "auth" => connected'[owner'[b]] = NoConn
      <4>1. handler[b] # "none"
        BY <1>1, <2>2, <3>3 DEF Accepts
      <4>2. proc[owner[b]] = b
        BY <4>1 DEF Steady
      <4>3. CASE b = c
        BY <1>1, <1>2, <2>1, <2>2, <4>2, <4>3 DEF Accepts
      <4>4. CASE b # c
        <5>1. owner[b] # owner[c] /\ handler'[b] = handler[b]
          BY <1>1, <2>1, <2>2, <4>2, <4>4 DEF Accepts
        <5>2. handler[b] = "auth" => connected[owner[b]] = NoConn
          BY DEF Steady
        <5>3. connected'[owner[b]] = connected[owner[b]]
          BY <1>1, <2>2, <5>1 DEF Accepts
        <5> QED
          BY <1>2, <2>1, <4>2, <5>1, <5>2, <5>3
      <4> QED
        BY <4>3, <4>4
    <3> QED
      BY <1>2, <2>1, <3>1, <3>2, <3>3 DEF Steady
  <2>3. CASE Hears(c)
    <3>1. UNCHANGED <<connected, handler, to_drone>>
      BY <2>3 DEF Hears, bridgeVars
    <3> QED
      BY <1>2, <2>1, <3>1 DEF Steady
  <2> QED
    BY <1>4, <2>2, <2>3, SteadyServe
<1> QED
  BY <1>3, <1>4 DEF ServerStep

LEMMA SteadyDrone ==
  ASSUME BridgeAssumption, LinkInv, Steady, NEW d \in Drones,
         DroneStep(d) \/ RestartDrone(d)
  PROVE  Steady'
<1>1. /\ owner \in [Conns -> Drones \cup {NoDrone}] /\ proc \in [Drones -> Conns \cup {NoConn}]
      /\ connected \in [Drones -> Conns \cup {NoConn}]
      /\ handler \in [Conns -> {"none", "auth", "serving"}]
      /\ wire \in [Conns -> {"up", "ok", "err"}]
      /\ to_drone \in [Conns -> Seq(Request)] /\ NoConn \notin Conns
  BY NoConnIsNone DEF LinkInv, LinkTypeOK, BridgeTypeOK, Steady
<1>2. UNCHANGED <<connected, disconnected, start_at, jobs, losses>>
  BY DEF DroneStep, RestartDrone, bridgeVars, missionVars, orchVars, chatVars
<1>3. CASE (Dispatch(d) \/ FinishMove(d)) /\ UNCHANGED bridgeVars
  <2>1. UNCHANGED <<handler, proc, owner>>
    BY <1>3 DEF Dispatch, AuthAnswer, TakePhoto, BeginMove, FinishMove, clientVars, bridgeVars
  <2>2. \/ UNCHANGED to_drone
        \/ /\ proc[d] \in Conns /\ to_drone[proc[d]] # <<>>
           /\ to_drone' = [to_drone EXCEPT ![proc[d]] = Tail(@)]
    BY <1>1, <1>3 DEF Dispatch, AuthAnswer, TakePhoto, BeginMove, FinishMove, Arrived, Read
  <2>3. to_drone' \in [Conns -> Seq(Request)]
    <3>1. CASE /\ proc[d] \in Conns /\ to_drone[proc[d]] # <<>>
               /\ to_drone' = [to_drone EXCEPT ![proc[d]] = Tail(@)]
      <4>1. Tail(to_drone[proc[d]]) \in Seq(Request)
        BY <1>1, <3>1
      <4> QED
        BY <1>1, <3>1, <4>1
    <3> QED
      BY <1>1, <2>2, <3>1
  <2>4. UNCHANGED wire
    <3>1. CASE AuthAnswer(d)
      <4>0. /\ proc[d] \in Conns /\ to_drone[proc[d]] # <<>>
            /\ to_drone[proc[d]] \in Seq(Request)
        BY <1>1, <3>1 DEF AuthAnswer, Arrived
      <4>1. /\ Message(d) \in Request /\ Message(d).type = "ACK_AUTH"
            /\ wire' = [wire EXCEPT ![proc[d]] =
                          IF ~Message(d).ok /\ @ = "up" THEN "err" ELSE @]
        BY <3>1, <4>0 DEF AuthAnswer, Arrived, Message
      <4>2. Message(d).ok = TRUE
        BY <4>1 DEF Request, AuthAck, PhotoRequest, MoveRequest
      <4> QED
        BY <1>1, <4>0, <4>1, <4>2
    <3> QED
      BY <1>3, <3>1 DEF Dispatch, TakePhoto, BeginMove, FinishMove
  <2> QED
    BY <1>2, <2>1, <2>3, <2>4 DEF Steady
<1>4. CASE ConnectionGone(d)
  BY <1>4 DEF ConnectionGone, Steady
<1>5. CASE RestartDrone(d)
  <2>1. PICK c \in Conns : /\ FreeSlot(c) /\ StartProcess(d, c)
                           /\ handler' = [handler EXCEPT ![c] = "auth"]
    BY <1>5 DEF RestartDrone
  <2>2. /\ owner' = [owner EXCEPT ![c] = d]
        /\ wire' = [wire EXCEPT ![c] = "up"]
        /\ to_drone' = [to_drone EXCEPT ![c] = <<>>]
        /\ proc' = [proc EXCEPT ![d] = c] /\ proc[d] = NoConn
    BY <2>1 DEF StartProcess, Open
  <2>3. /\ handler[c] = "none"
        /\ \A b \in Drones : proc[b] # c /\ connected[b] # c
    BY <2>1 DEF FreeSlot
  <2>4. connected[d] = NoConn
    BY <2>2 DEF Steady
  <2>5. to_drone' \in [Conns -> Seq(Request)]
    BY <1>1, <2>2
  <2>6. ASSUME NEW b \in Drones
        PROVE  /\ proc'[b] # NoConn => wire'[proc'[b]] = "up"
               /\ connected'[b] # NoConn => connected'[b] = proc'[b]
    <3>1. CASE b = d
      BY <1>1, <1>2, <2>2, <2>4, <3>1
    <3>2. CASE b # d
      BY <1>1, <1>2, <2>2, <2>3, <3>2 DEF Steady
    <3> QED
      BY <3>1, <3>2
  <2>7. ASSUME NEW b \in Conns, handler'[b] # "none"
        PROVE  /\ proc'[owner'[b]] = b
               /\ handler'[b] = "auth" => connected'[owner'[b]] = NoConn
    <3>1. CASE b = c
      BY <1>1, <1>2, <2>2, <2>4, <3>1
    <3>2. CASE b # c
      <4>1. handler'[b] = handler[b] /\ owner'[b] = owner[b]
        BY <1>1, <2>1, <2>2, <3>2
      <4>2. /\ proc[owner[b]] = b
            /\ handler[b] = "auth" => connected[owner[b]] = NoConn
        BY <2>7, <4>1 DEF Steady
      <4>3. owner[b] # d
        BY <1>1, <2>2, <4>2
      <4> QED
        BY <1>1, <1>2, <2>2, <4>1, <4>2, <4>3
    <3> QED
      BY <3>1, <3>2
  <2> QED
    BY <1>2, <2>5, <2>6, <2>7 DEF Steady
<1> QED
  BY <1>3, <1>4, <1>5 DEF DroneStep

LEMMA SteadyNext ==
  ASSUME NothingLost, SystemInv, Steady, [SystemNext]_systemVars
  PROVE  Steady'
<1> USE OrchAssumption, BridgeAssumption, SystemAssumption
<1>1. LinkInv
  BY DEF SystemInv
<1>2. CASE UNCHANGED systemVars
  <2>1. UNCHANGED <<disconnected, connected, handler, wire, owner, start_at, to_drone, proc,
                    jobs, losses>>
    BY <1>2 DEF systemVars, missionVars, orchVars, bridgeVars, droneVars, linkVars,
                clientVars, chatVars
  <2> QED
    BY <2>1 DEF Steady
<1>3. CASE ConnectionLost
  BY <1>3 DEF ConnectionLost, NothingLost, Steady
<1>4. CASE \E c \in Conns : ServerStep(c)
  BY <1>1, <1>4, SteadyServer
<1>5. CASE \E d \in Drones : DroneStep(d) \/ RestartDrone(d)
  BY <1>1, <1>5, SteadyDrone
<1>6. CASE \/ LoopStep \/ \E o \in Orchs : StartMission(o)
           \/ \E m \in Missions : ChatStep(m)
           \/ \E u \in UIs : OperatorStep(u)
  <2>1. \/ \E o \in Orchs : MissionActs(o)
        \/ ChatCommand \/ OperatorCommand \/ DroneCommand
        \/ \E m \in Missions : ChatStep(m)
        \/ \E u \in UIs : OperatorStep(u)
    BY <1>6 DEF LoopStep, MissionActs
  <2> QED
    BY <2>1, SteadyMissions
<1> QED
  BY <1>2, <1>3, <1>4, <1>5, <1>6 DEF SystemNext

LEMMA SteadyStart ==
  ASSUME SystemInit
  PROVE  Steady
<1>1. /\ to_drone = [c \in Conns |-> <<>>] /\ jobs = [m \in Missions |-> <<>>]
      /\ disconnected = {} /\ losses = 0
      /\ proc = [d \in Drones |-> NoConn] /\ connected = [d \in Drones |-> NoConn]
      /\ handler = [c \in Conns |-> "none"] /\ start_at = [o \in Orchs |-> "none"]
  BY DEF SystemInit, Init, BridgeInit, LinkInit, ClientInit
<1>2. to_drone \in [Conns -> Seq(Request)] /\ jobs \in [Missions -> Seq(ChatJob)]
  BY <1>1
<1> QED
  BY <1>1, <1>2 DEF Steady

-----------------------------------------------------------------------------
(* Counting what is on its way *)

LoadsTyped ==
  \A o \in Orchs, k \in Kinds :
    /\ DroneOf[o] \in Drones /\ MissionOf[o] \in Missions
    /\ Inbox(DroneOf[o]) \in Seq(Request) /\ Outbox(DroneOf[o]) \in Seq(Report)
    /\ InQueue(k, o) \in Nat /\ InCommands(k, o) \in Nat /\ InReports(k, o) \in Nat
    /\ InJobs(k, o) \in Nat /\ InFlight(k, o) \in Nat /\ Load(k, o) \in Nat

LEMMA LoadsAre == SystemInv /\ Steady => LoadsTyped
<1> SUFFICES ASSUME SystemInv, Steady, NEW o \in Orchs, NEW k \in Kinds
             PROVE  /\ DroneOf[o] \in Drones /\ MissionOf[o] \in Missions
                    /\ Inbox(DroneOf[o]) \in Seq(Request)
                    /\ Outbox(DroneOf[o]) \in Seq(Report)
                    /\ InQueue(k, o) \in Nat /\ InCommands(k, o) \in Nat
                    /\ InReports(k, o) \in Nat
                    /\ InJobs(k, o) \in Nat /\ InFlight(k, o) \in Nat /\ Load(k, o) \in Nat
  BY DEF LoadsTyped
<1>1. /\ tasks \in Seq(SystemItem) /\ to_drone \in [Conns -> Seq(Request)]
      /\ to_server \in [Conns -> Seq(Report)] /\ jobs \in [Missions -> Seq(ChatJob)]
      /\ proc \in [Drones -> Conns \cup {NoConn}]
      /\ flying \in [Drones -> Nat] /\ flights \in [Drones -> Nat]
  BY DEF SystemInv, LinkInv, LinkTypeOK, MissionInv, Steady
<1>2. DroneOf[o] \in Drones /\ MissionOf[o] \in Missions
  BY OrchAssumption DEF OrchAssumption
<1>3. Inbox(DroneOf[o]) \in Seq(Request) /\ Outbox(DroneOf[o]) \in Seq(Report)
  <2>1. proc[DroneOf[o]] # NoConn => proc[DroneOf[o]] \in Conns
    BY <1>1, <1>2
  <2>2. <<>> \in Seq(Request) /\ <<>> \in Seq(Report)
    OBVIOUS
  <2> QED
    BY <1>1, <2>1, <2>2 DEF Inbox, Outbox
<1>4. /\ InQueue(k, o) \in Nat /\ InCommands(k, o) \in Nat
      /\ InReports(k, o) \in Nat /\ InJobs(k, o) \in Nat
  <2>1. jobs[MissionOf[o]] \in Seq(ChatJob)
    BY <1>1, <1>2
  <2> QED
    BY <1>1, <1>3, <2>1, CountNat DEF InQueue, InCommands, InReports, InJobs
<1>5. InFlight(k, o) \in Nat
  BY <1>1, <1>2 DEF InFlight
<1>6. Load(k, o) \in Nat
  BY <1>4, <1>5 DEF Load
<1> QED
  BY <1>2, <1>3, <1>4, <1>5, <1>6

LEMMA LoadsWillBe == SystemInv' /\ Steady' => LoadsTyped'
  BY LoadsAre, PTL

LEMMA LoadMoves ==
  ASSUME LoadsTyped, LoadsTyped', NEW o \in Orchs, NEW k \in Kinds,
         NEW a \in Int, NEW b \in Int, NEW c \in Int, NEW e \in Int, NEW f \in Int,
         InQueue(k, o)' <= InQueue(k, o) + a, InCommands(k, o)' <= InCommands(k, o) + b,
         InReports(k, o)' <= InReports(k, o) + c, InJobs(k, o)' <= InJobs(k, o) + e,
         InFlight(k, o)' <= InFlight(k, o) + f
  PROVE  Load(k, o)' <= Load(k, o) + (a + b + c + e + f)
<1> DEFINE q == InQueue(k, o)
           i == InCommands(k, o)
           r == InReports(k, o)
           j == InJobs(k, o)
           m == InFlight(k, o)
           qq == InQueue(k, o)'
           ii == InCommands(k, o)'
           rr == InReports(k, o)'
           jj == InJobs(k, o)'
           mm == InFlight(k, o)'
<1>1. /\ q \in Nat /\ i \in Nat /\ r \in Nat /\ j \in Nat /\ m \in Nat
      /\ Load(k, o) = q + i + r + j + m
  BY DEF LoadsTyped, Load
<1>2. /\ qq \in Nat /\ ii \in Nat /\ rr \in Nat /\ jj \in Nat /\ mm \in Nat
      /\ Load(k, o)' = qq + ii + rr + jj + mm
  BY DEF LoadsTyped, Load
<1>3. qq <= q + a /\ ii <= i + b /\ rr <= r + c /\ jj <= j + e /\ mm <= m + f
  OBVIOUS
<1> HIDE DEF q, i, r, j, m, qq, ii, rr, jj, mm
<1>4. qq + ii + rr + jj + mm <= (q + i + r + j + m) + (a + b + c + e + f)
  BY <1>1, <1>2, <1>3
<1> QED
  BY <1>1, <1>2, <1>4

\* Which items count for what.
LEMMA WaitingIs ==
  ASSUME NEW x \in SystemItem, NEW o \in Orchs, NEW k \in Kinds
  PROVE  /\ x.type = "GetPhoto" =>
              (x \in Waiting(k, o) <=> x.by = o /\ k = "photo")
         /\ x.type = "ExecuteMove" =>
              (x \in Waiting(k, o) <=> x.by = o /\ k \in {"ack", "move", "again"})
         /\ x.type = "AnalyzePhoto" =>
              (x \in Waiting(k, o) <=>
                 /\ x.by = o
                 /\ k = "analysis" \/ (k = "stale" /\ x.photo \notin Fresh(o)))
         /\ x.type = "PhotoWithTelemetryReceived" =>
              (x \in Waiting(k, o) <=>
                 /\ o \in x.to /\ Concerns(o, x)
                 /\ k = "photo" \/ (k = "stale" /\ x.photo \notin Fresh(o)))
         /\ x.type = "MoveStarted" =>
              (x \in Waiting(k, o) <=> o \in x.to /\ Concerns(o, x) /\ k = "ack")
         /\ x.type = "MoveExecuted" =>
              (x \in Waiting(k, o) <=>
                 /\ o \in x.to /\ Concerns(o, x)
                 /\ k = "move" \/ (k = "again" /\ ~x.ok))
         /\ x.type = "VlmAnalysisCompleted" =>
              (x \in Waiting(k, o) <=> o \in x.to /\ Concerns(o, x) /\ k = "analysis")
         /\ x.type \in {"DroneConnectionLost", "DroneReconnected"} =>
              (x \in Waiting(k, o) <=> o \in x.to /\ Concerns(o, x) /\ k = "lost")
<1>1. CASE k \in {"photo", "ack", "analysis"}
  BY <1>1 DEF Waiting, Answers, AsksFor
<1>2. CASE k \in {"move", "again"}
  BY <1>2 DEF Waiting, Answers, AsksFor
<1>3. CASE k \in {"stale", "lost"}
  BY <1>3 DEF Waiting, Answers, AsksFor
<1> QED
  BY <1>1, <1>2, <1>3 DEF Kinds

Carriers == {"GetPhoto", "ExecuteMove", "AnalyzePhoto", "PhotoWithTelemetryReceived",
             "MoveStarted", "MoveExecuted", "VlmAnalysisCompleted",
             "DroneConnectionLost", "DroneReconnected"}

LEMMA WaitingCarries ==
  ASSUME NEW o \in Orchs, NEW k \in Kinds, NEW x \in Waiting(k, o)
  PROVE  /\ x \in SystemItem /\ x.type \in Carriers
         /\ x.type \in EventTypes => o \in x.to
         /\ x.type \notin EventTypes => x.by = o
<1>1. /\ \A t \in {"GetPhoto", "ExecuteMove", "AnalyzePhoto"} : t \notin EventTypes
      /\ \A t \in Carriers \ {"GetPhoto", "ExecuteMove", "AnalyzePhoto"} : t \in EventTypes
  BY DEF Carriers, EventTypes, DroneEventTypes, MissionEventTypes, DroneNotice, ChatNotice
<1>2. \/ x \in SystemItem /\ x.type \in {"GetPhoto", "ExecuteMove", "AnalyzePhoto"} /\ x.by = o
      \/ /\ x \in SystemItem /\ o \in x.to
         /\ x.type \in Carriers \ {"GetPhoto", "ExecuteMove", "AnalyzePhoto"}
  <2>1. CASE k \in {"photo", "ack", "analysis"}
    BY <2>1 DEF Waiting, Answers, AsksFor, Carriers
  <2>2. CASE k \in {"move", "again"}
    BY <2>2 DEF Waiting, Answers, AsksFor, Carriers
  <2>3. CASE k \in {"stale", "lost"}
    BY <2>3 DEF Waiting, Answers, AsksFor, Carriers
  <2> QED
    BY <2>1, <2>2, <2>3 DEF Kinds
<1> QED
  BY <1>1, <1>2 DEF Carriers

Bit(x, S) == IF x \in S THEN 1 ELSE 0

LEMMA KindsKept ==
  ASSUME NEW o \in Orchs, NEW k \in Kinds, k = "stale" => UNCHANGED Fresh(o)
  PROVE  /\ Waiting(k, o)' = Waiting(k, o) /\ Returned(k, o)' = Returned(k, o)
         /\ InChat(k, o)' = InChat(k, o)
<1>1. CASE k = "stale"
  BY <1>1 DEF Waiting, Returned, InChat, Answers, AsksFor, Concerns
<1>2. CASE k # "stale"
  BY <1>2 DEF Kinds, Waiting, Returned, InChat, Answers, AsksFor, Concerns
<1> QED
  BY <1>1, <1>2

LEMMA FreshKept == UNCHANGED flights => \A o \in Orchs : UNCHANGED Fresh(o)
  BY DEF Fresh

\* The parts of a load that a step leaves alone.
LEMMA PartsKept ==
  ASSUME LoadsTyped, NEW o \in Orchs, NEW k \in Kinds, k = "stale" => UNCHANGED Fresh(o)
  PROVE  /\ UNCHANGED tasks => InQueue(k, o)' <= InQueue(k, o) + 0
         /\ UNCHANGED <<proc, to_drone>> => InCommands(k, o)' <= InCommands(k, o) + 0
         /\ UNCHANGED <<proc, to_server>> => InReports(k, o)' <= InReports(k, o) + 0
         /\ UNCHANGED jobs => InJobs(k, o)' <= InJobs(k, o) + 0
         /\ UNCHANGED <<flights, flying>> => InFlight(k, o)' <= InFlight(k, o) + 0
<1>1. /\ InQueue(k, o) \in Nat /\ InCommands(k, o) \in Nat /\ InReports(k, o) \in Nat
      /\ InJobs(k, o) \in Nat /\ InFlight(k, o) \in Nat
  BY DEF LoadsTyped
<1>2. UNCHANGED tasks => InQueue(k, o)' = InQueue(k, o)
  BY KindsKept DEF InQueue, Count, Indices
<1>3. UNCHANGED <<proc, to_drone>> => InCommands(k, o)' = InCommands(k, o)
  BY DEF InCommands, Inbox, Count, Indices
<1>4. UNCHANGED <<proc, to_server>> => InReports(k, o)' = InReports(k, o)
  BY KindsKept DEF InReports, Outbox, Count, Indices
<1>5. UNCHANGED jobs => InJobs(k, o)' = InJobs(k, o)
  BY KindsKept DEF InJobs, Count, Indices
<1>6. UNCHANGED <<flights, flying>> => InFlight(k, o)' = InFlight(k, o)
  BY DEF InFlight
<1> QED
  BY <1>1, <1>2, <1>3, <1>4, <1>5, <1>6

\* A task is taken.
LEMMA QueueTaken ==
  ASSUME tasks \in Seq(SystemItem), UNCHANGED flights, tasks # <<>>, tasks' = Tail(tasks),
         NEW o \in Orchs, NEW k \in Kinds
  PROVE  InQueue(k, o)' <= InQueue(k, o) + (0 - Bit(Task, Waiting(k, o)))
<1> DEFINE W == Waiting(k, o)
<1>1. Waiting(k, o)' = W
  BY FreshKept, KindsKept
<1> HIDE DEF W
<1>2. Count(tasks, W) = Count(Tail(tasks), W) + Bit(Task, W) /\ Count(Tail(tasks), W) \in Nat
  <2>1. Tail(tasks) \in Seq(SystemItem)
    OBVIOUS
  <2> QED
    BY <2>1, CountTail, CountNat DEF Bit, Task
<1>3. InQueue(k, o)' = Count(Tail(tasks), W)
  BY <1>1 DEF InQueue, Count, Indices
<1>4. InQueue(k, o) = Count(tasks, W)
  BY DEF InQueue, W
<1>5. Bit(Task, W) \in Nat
  BY DEF Bit
<1>6. InQueue(k, o)' <= InQueue(k, o) + (0 - Bit(Task, W))
  BY <1>2, <1>3, <1>4, <1>5
<1> QED
  BY <1>6 DEF W

\* An event is published.
LEMMA QueueTold ==
  ASSUME tasks \in Seq(SystemItem), UNCHANGED flights, NEW e \in SystemItem,
         tasks' = Publish(tasks, e), NEW o \in Orchs, NEW k \in Kinds
  PROVE  InQueue(k, o)' <= InQueue(k, o) + Bit(e, Waiting(k, o))
<1> DEFINE W == Waiting(k, o)
<1>1. Waiting(k, o)' = W
  BY FreshKept, KindsKept
<1> HIDE DEF W
<1>2. Count(Publish(tasks, e), W) <= Count(tasks, W) + Bit(e, W)
  BY CountPublish DEF Bit
<1>3. InQueue(k, o)' = Count(Publish(tasks, e), W)
  BY <1>1 DEF InQueue, Count, Indices
<1>4. InQueue(k, o) = Count(tasks, W)
  BY DEF InQueue, W
<1> QED
  BY <1>2, <1>3, <1>4 DEF W

\* A task is taken, or news is published, that carries nothing.
LEMMA QueueServed ==
  ASSUME tasks \in Seq(SystemItem), UNCHANGED flights, NEW T, ServesAndTells(T),
         T \cap Carriers = {}, NEW o \in Orchs, NEW k \in Kinds
  PROVE  InQueue(k, o)' <= InQueue(k, o) + 0
<1> DEFINE W == Waiting(k, o)
<1>1. Waiting(k, o)' = W
  BY FreshKept, KindsKept
<1>2. \A x \in W : x.type \notin T
  BY WaitingCarries
<1> HIDE DEF W
<1>3. Count(tasks', W) <= Count(tasks, W) /\ Count(tasks, W) \in Nat
  BY <1>2, CountServed, CountNat
<1>4. InQueue(k, o)' = Count(tasks', W)
  BY <1>1 DEF InQueue
<1>5. InQueue(k, o) = Count(tasks, W)
  BY DEF InQueue, W
<1> QED
  BY <1>3, <1>4, <1>5

Freight == \A o \in Orchs, k \in Kinds : Load(k, o)' <= Load(k, o)

LEMMA LoadKept ==
  ASSUME LoadsTyped, LoadsTyped', UNCHANGED <<flights, flying, proc, to_drone, to_server, jobs>>,
         \A o \in Orchs, k \in Kinds : InQueue(k, o)' <= InQueue(k, o) + 0
  PROVE  Freight
<1> SUFFICES ASSUME NEW o \in Orchs, NEW k \in Kinds
             PROVE  Load(k, o)' <= Load(k, o)
  BY DEF Freight
<1>1. /\ InQueue(k, o)' <= InQueue(k, o) + 0
      /\ InCommands(k, o)' <= InCommands(k, o) + 0
      /\ InReports(k, o)' <= InReports(k, o) + 0 /\ InJobs(k, o)' <= InJobs(k, o) + 0
      /\ InFlight(k, o)' <= InFlight(k, o) + 0
  BY FreshKept, PartsKept
<1>2. Load(k, o)' <= Load(k, o) + (0 + 0 + 0 + 0 + 0)
  BY <1>1, LoadMoves
<1> QED
  BY <1>2 DEF LoadsTyped

LEMMA LoadOperator ==
  ASSUME OrchAssumption, SystemInv, LoadsTyped, LoadsTyped',
         OperatorCommand \/ \E u \in UIs : OperatorStep(u)
  PROVE  Freight
<1>1. tasks \in Seq(SystemItem) /\ QuestionsShown
  BY DEF SystemInv, MissionInv
<1>2. UNCHANGED <<flights, flying, proc, to_drone, to_server, jobs>>
  BY DEF OperatorCommand, OperatorStep, droneVars, clientVars, linkVars, chatVars
<1>3. ServesAndTells({"UserDecisionReceived"})
  BY <1>1, OperatorTells, OperatorStepTells
<1>4. {"UserDecisionReceived"} \cap Carriers = {}
  BY DEF Carriers
<1> QED
  BY <1>1, <1>2, <1>3, <1>4, QueueServed, LoadKept

\* A job is added to a chat.
LEMMA JobsGrow ==
  ASSUME LoadsTyped, UNCHANGED flights, jobs \in [Missions -> Seq(ChatJob)], NEW m \in Missions,
         NEW job \in ChatJob, jobs' = [jobs EXCEPT ![m] = Append(@, job)],
         NEW o \in Orchs, NEW k \in Kinds
  PROVE  InJobs(k, o)' <= InJobs(k, o)
                            + (IF MissionOf[o] = m THEN Bit(job, InChat(k, o)) ELSE 0)
<1> DEFINE C == InChat(k, o)
           n == MissionOf[o]
<1>1. InChat(k, o)' = C /\ n \in Missions
  BY FreshKept, KindsKept DEF LoadsTyped
<1> HIDE DEF C
<1>2. InJobs(k, o)' = Count(jobs'[n], C) /\ InJobs(k, o) = Count(jobs[n], C)
  BY <1>1 DEF InJobs, C, Count, Indices
<1>3. InJobs(k, o) \in Nat
  BY DEF LoadsTyped
<1> HIDE DEF n
<1>4. CASE n # m
  <2>1. jobs'[n] = jobs[n]
    BY <1>1, <1>4
  <2> QED
    BY <1>2, <1>3, <1>4, <2>1 DEF n
<1>5. CASE n = m
  <2>1. jobs[n] \in Seq(ChatJob) /\ jobs'[n] = Append(jobs[n], job)
    BY <1>1, <1>5
  <2>2. Count(Append(jobs[n], job), C) = Count(jobs[n], C) + Bit(job, C)
    BY <2>1, CountAppend DEF Bit
  <2>3. Bit(job, C) \in Nat
    BY DEF Bit
  <2>4. InJobs(k, o)' <= InJobs(k, o) + Bit(job, C)
    BY <1>2, <1>3, <2>1, <2>2, <2>3
  <2> QED
    BY <1>5, <2>4 DEF n, C
<1> QED
  BY <1>4, <1>5

LEMMA LoadChat ==
  ASSUME OrchAssumption, OwnMissions, SystemInv, Steady, LoadsTyped, LoadsTyped', ChatCommand
  PROVE  Freight
<1>1. /\ tasks \in Seq(SystemItem) /\ jobs \in [Missions -> Seq(ChatJob)]
      /\ UNCHANGED <<flights, flying, proc, to_drone, to_server>>
  BY DEF SystemInv, MissionInv, Steady, ChatCommand, droneVars, clientVars, linkVars
<1>2. tasks # <<>> /\ Task.by \in Orchs /\ Chat \in Missions /\ Task \in SystemItem
  <2>1. tasks # <<>> /\ Task.type \in CommandTypes
    BY DEF ChatCommand, HandleCreateNewSession, HandleSaveSession, HandleAnalyzePhoto,
           HandleDeleteSession, Taken, CommandTypes, Awaited
  <2>2. Task.by \in Orchs /\ Task \in SystemItem
    BY <1>1, <2>1, CommandTaken, TaskData
  <2> QED
    BY <2>1, <2>2 DEF Chat, OrchAssumption
<1>3. \A o \in Orchs, k \in Kinds : InQueue(k, o)' <= InQueue(k, o) + 0
  <2>1. ServesAndTells(ChatNotice) /\ ChatNotice \cap Carriers = {}
    BY <1>1, ChatTells DEF ChatNotice, Carriers
  <2> QED
    BY <1>1, <2>1, QueueServed
<1>4. CASE UNCHANGED jobs
  BY <1>1, <1>3, <1>4, LoadKept
<1>5. ASSUME NEW job \in ChatJob, jobs' = [jobs EXCEPT ![Chat] = Append(@, job)],
             NEW o \in Orchs, NEW k \in Kinds
      PROVE  InJobs(k, o)' <= InJobs(k, o)
                                + (IF MissionOf[o] = Chat THEN Bit(job, InChat(k, o)) ELSE 0)
  BY <1>1, <1>2, <1>5, JobsGrow
<1>6. CASE /\ jobs' = [jobs EXCEPT ![Chat] = Append(@, [type |-> "save"])]
  <2> SUFFICES ASSUME NEW o \in Orchs, NEW k \in Kinds
               PROVE  Load(k, o)' <= Load(k, o)
    BY DEF Freight
  <2> DEFINE job == [type |-> "save"]
  <2>1. job \in ChatJob /\ Bit(job, InChat(k, o)) = 0
    BY DEF ChatJob, Bit, InChat
  <2>2. jobs' = [jobs EXCEPT ![Chat] = Append(@, job)]
    BY <1>6
  <2> HIDE DEF job
  <2>3. InJobs(k, o)' <= InJobs(k, o) + 0
    BY <1>5, <2>1, <2>2
  <2>4. /\ InCommands(k, o)' <= InCommands(k, o) + 0
        /\ InReports(k, o)' <= InReports(k, o) + 0 /\ InFlight(k, o)' <= InFlight(k, o) + 0
    BY <1>1, FreshKept, PartsKept
  <2>5. Load(k, o)' <= Load(k, o) + (0 + 0 + 0 + 0 + 0)
    BY <1>3, <2>3, <2>4, LoadMoves
  <2> QED
    BY <2>5 DEF LoadsTyped
<1>7. CASE /\ Task.type = "AnalyzePhoto" /\ tasks' = Tail(tasks)
           /\ jobs' = [jobs EXCEPT ![Chat] =
                         Append(@, [type |-> "analysis", photo |-> Task.photo])]
  <2> SUFFICES ASSUME NEW o \in Orchs, NEW k \in Kinds
               PROVE  Load(k, o)' <= Load(k, o)
    BY DEF Freight
  <2> DEFINE job == [type |-> "analysis", photo |-> Task.photo]
             n == IF MissionOf[o] = Chat THEN Bit(job, InChat(k, o)) ELSE 0
             w == Bit(Task, Waiting(k, o))
  <2>1. Task.photo \in Int
    BY <1>1, <1>2, <1>7, TaskData
  <2>2. job \in ChatJob
    BY <2>1 DEF ChatJob
  <2>3. n \in {0, 1} /\ w \in {0, 1} /\ n <= w
    <3>1. ASSUME MissionOf[o] = Chat, job \in InChat(k, o)
          PROVE  Task \in Waiting(k, o)
      <4>1. Task.by = o
        BY <1>2, <3>1 DEF Chat, OwnMissions
      <4>2. k = "analysis" \/ (k = "stale" /\ Task.photo \notin Fresh(o))
        BY <3>1 DEF InChat
      <4> QED
        BY <1>2, <1>7, <4>1, <4>2, WaitingIs
    <3> HIDE DEF job
    <3>2. n \in {0, 1} /\ w \in {0, 1}
      BY DEF Bit
    <3> QED
      BY <3>1, <3>2 DEF Bit
  <2>4. InJobs(k, o)' <= InJobs(k, o) + n
    <3>1. jobs' = [jobs EXCEPT ![Chat] = Append(@, job)]
      BY <1>7
    <3> HIDE DEF job
    <3> QED
      BY <1>5, <2>2, <3>1
  <2>5. InQueue(k, o)' <= InQueue(k, o) + (0 - w)
    BY <1>1, <1>2, <1>7, QueueTaken
  <2>6. /\ InCommands(k, o)' <= InCommands(k, o) + 0
        /\ InReports(k, o)' <= InReports(k, o) + 0 /\ InFlight(k, o)' <= InFlight(k, o) + 0
    BY <1>1, FreshKept, PartsKept
  <2> HIDE DEF n, w
  <2>7. 0 - w \in Int /\ n \in Int
    BY <2>3
  <2>8. Load(k, o)' <= Load(k, o) + ((0 - w) + 0 + 0 + n + 0)
    BY <2>4, <2>5, <2>6, <2>7, LoadMoves
  <2>9. Load(k, o) \in Nat /\ Load(k, o)' \in Nat
    BY DEF LoadsTyped
  <2> QED
    BY <2>3, <2>8, <2>9
<1> QED
  BY <1>4, <1>6, <1>7
  DEF ChatCommand, HandleCreateNewSession, HandleSaveSession, HandleAnalyzePhoto,
      HandleDeleteSession, UseChat, Taken

\* The chat has done its first job.
LEMMA JobsShrink ==
  ASSUME LoadsTyped, UNCHANGED flights, jobs \in [Missions -> Seq(ChatJob)], NEW m \in Missions,
         jobs[m] # <<>>, jobs' = [jobs EXCEPT ![m] = Tail(@)],
         NEW o \in Orchs, NEW k \in Kinds
  PROVE  InJobs(k, o)' <= InJobs(k, o)
                 + (IF MissionOf[o] = m THEN 0 - Bit(Head(jobs[m]), InChat(k, o)) ELSE 0)
<1> DEFINE C == InChat(k, o)
           n == MissionOf[o]
<1>1. InChat(k, o)' = C /\ n \in Missions
  BY FreshKept, KindsKept DEF LoadsTyped
<1> HIDE DEF C
<1>2. InJobs(k, o)' = Count(jobs'[n], C) /\ InJobs(k, o) = Count(jobs[n], C)
  BY <1>1 DEF InJobs, C, Count, Indices
<1>3. InJobs(k, o) \in Nat
  BY DEF LoadsTyped
<1> HIDE DEF n
<1>4. CASE n # m
  <2>1. jobs'[n] = jobs[n]
    BY <1>1, <1>4
  <2> QED
    BY <1>2, <1>3, <1>4, <2>1 DEF n
<1>5. CASE n = m
  <2>1. jobs[n] \in Seq(ChatJob) /\ jobs[n] # <<>> /\ jobs'[n] = Tail(jobs[n])
    BY <1>1, <1>5
  <2>2. Count(jobs[n], C) = Count(Tail(jobs[n]), C) + Bit(Head(jobs[n]), C)
    BY <2>1, CountTail DEF Bit
  <2>3. Bit(Head(jobs[n]), C) \in Nat /\ Count(Tail(jobs[n]), C) \in Nat
    <3>1. Tail(jobs[n]) \in Seq(ChatJob)
      BY <2>1
    <3> QED
      BY <3>1, CountNat DEF Bit
  <2>4. InJobs(k, o)' <= InJobs(k, o) + (0 - Bit(Head(jobs[n]), C))
    BY <1>2, <1>3, <2>1, <2>2, <2>3
  <2> QED
    BY <1>5, <2>4 DEF n, C
<1> QED
  BY <1>4, <1>5

LEMMA LoadChatStep ==
  ASSUME OrchAssumption, SystemInv, Steady, LoadsTyped, LoadsTyped', NEW m \in Missions,
         ChatStep(m)
  PROVE  Freight
<1>1. /\ tasks \in Seq(SystemItem) /\ jobs \in [Missions -> Seq(ChatJob)]
      /\ UNCHANGED <<flights, flying, proc, to_drone, to_server>>
      /\ jobs[m] # <<>> /\ jobs' = [jobs EXCEPT ![m] = Tail(@)]
  BY DEF SystemInv, MissionInv, Steady, ChatStep, FinishSave, FinishAnalysis, Job, droneVars,
         clientVars, linkVars
<1>2. \/ tasks' = tasks
      \/ \E e \in SystemItem : /\ tasks' = Publish(tasks, e) /\ e.type \in ChatNotice
      \/ \E e \in SystemItem : /\ tasks' = Publish(tasks, e)
                               /\ e.type = "VlmAnalysisCompleted" /\ e.mission = m
                               /\ Head(jobs[m]).type = "analysis"
  <2>1. /\ \A type \in ChatNotice : ChatNews(type, m) \in SystemItem
        /\ \A found \in BOOLEAN, move \in Moves :
              [type |-> "VlmAnalysisCompleted", mission |-> m, found |-> found,
               move |-> move, to |-> Subscribed] \in SystemItem
    <3>1. Subscribed \subseteq Orchs
      BY DEF Subscribed
    <3> QED
      BY <3>1 DEF ChatNews, SystemItem, Items, Events
  <2>2. \A type \in ChatNotice : ChatNews(type, m).type \in ChatNotice
    BY DEF ChatNews
  <2>3. CASE FinishSave(m)
    BY <2>1, <2>2, <2>3 DEF FinishSave, ChatNotice
  <2>4. CASE FinishAnalysis(m)
    BY <2>1, <2>2, <2>4 DEF FinishAnalysis, ChatNotice, Job
  <2> QED
    BY <2>3, <2>4 DEF ChatStep
<1> SUFFICES ASSUME NEW o \in Orchs, NEW k \in Kinds
             PROVE  Load(k, o)' <= Load(k, o)
  BY DEF Freight
<1> DEFINE n == IF MissionOf[o] = m THEN Bit(Head(jobs[m]), InChat(k, o)) ELSE 0
<1>3. InQueue(k, o)' <= InQueue(k, o) + n
  <2>1. n \in Nat /\ InQueue(k, o) \in Nat
    BY DEF Bit, LoadsTyped
  <2>2. CASE tasks' = tasks
    <3>1. InQueue(k, o)' <= InQueue(k, o) + 0
      BY <1>1, <2>2, FreshKept, PartsKept
    <3>2. InQueue(k, o)' \in Nat
      BY DEF LoadsTyped
    <3> HIDE DEF n
    <3> QED
      BY <2>1, <3>1, <3>2
  <2>3. ASSUME NEW e \in SystemItem, tasks' = Publish(tasks, e),
               \/ e.type \in ChatNotice
               \/ /\ e.type = "VlmAnalysisCompleted" /\ e.mission = m
                  /\ Head(jobs[m]).type = "analysis"
        PROVE  InQueue(k, o)' <= InQueue(k, o) + n
    <3>1. InQueue(k, o)' <= InQueue(k, o) + Bit(e, Waiting(k, o))
      BY <1>1, <2>3, QueueTold
    <3>2. e \in Waiting(k, o) => n = 1
      <4>1. SUFFICES ASSUME e \in Waiting(k, o)
                     PROVE  n = 1
        OBVIOUS
      <4>2. e.type \in Carriers
        BY <4>1, WaitingCarries
      <4>3. e.type = "VlmAnalysisCompleted" /\ e.mission = m /\ Head(jobs[m]).type = "analysis"
        BY <2>3, <4>2 DEF ChatNotice, Carriers
      <4>4. Concerns(o, e) /\ k = "analysis"
        BY <4>1, <4>3, WaitingIs
      <4>5. MissionOf[o] = m
        BY <4>3, <4>4 DEF Concerns, DroneEventTypes, DroneNotice
      <4>6. Head(jobs[m]) \in ChatJob
        BY <1>1
      <4>7. Head(jobs[m]) \in InChat(k, o)
        BY <4>3, <4>4, <4>6 DEF InChat, ChatJob
      <4> QED
        BY <4>5, <4>7 DEF Bit
    <3>3. Bit(e, Waiting(k, o)) <= n /\ Bit(e, Waiting(k, o)) \in Nat
      BY <2>1, <3>2 DEF Bit
    <3>4. InQueue(k, o)' \in Nat
      BY DEF LoadsTyped
    <3> HIDE DEF n
    <3> QED
      BY <2>1, <3>1, <3>3, <3>4
  <2> QED
    BY <1>2, <2>2, <2>3
<1>4. InJobs(k, o)' <= InJobs(k, o) + (0 - n)
  <2>1. InJobs(k, o)' <= InJobs(k, o)
                 + (IF MissionOf[o] = m THEN 0 - Bit(Head(jobs[m]), InChat(k, o)) ELSE 0)
    BY <1>1, JobsShrink
  <2> QED
    BY <2>1
<1>5. /\ InCommands(k, o)' <= InCommands(k, o) + 0
      /\ InReports(k, o)' <= InReports(k, o) + 0 /\ InFlight(k, o)' <= InFlight(k, o) + 0
  BY <1>1, FreshKept, PartsKept
<1>6. n \in Int /\ 0 - n \in Int
  BY DEF Bit
<1> HIDE DEF n
<1>7. Load(k, o)' <= Load(k, o) + (n + 0 + 0 + (0 - n) + 0)
  BY <1>3, <1>4, <1>5, <1>6, LoadMoves
<1> QED
  BY <1>6, <1>7 DEF LoadsTyped

\* The two ends of a connection that holds.
LEMMA InboxIs ==
  ASSUME LinkInv, Steady, NEW d \in Drones, proc[d] # NoConn, UNCHANGED proc,
         NEW q, to_drone' = [to_drone EXCEPT ![proc[d]] = q]
  PROVE  /\ Inbox(d) = to_drone[proc[d]] /\ Inbox(d) \in Seq(Request)
         /\ \A b \in Drones : Inbox(b)' = IF b = d THEN q ELSE Inbox(b)
<1>1. /\ proc \in [Drones -> Conns \cup {NoConn}] /\ to_drone \in [Conns -> Seq(Request)]
      /\ \A b \in Drones : proc[b] # NoConn => owner[proc[b]] = b
  BY DEF LinkInv, LinkTypeOK, Owned, Steady
<1> QED
  BY <1>1 DEF Inbox

LEMMA OutboxIs ==
  ASSUME LinkInv, NEW d \in Drones, proc[d] # NoConn, UNCHANGED proc,
         NEW q, to_server' = [to_server EXCEPT ![proc[d]] = q]
  PROVE  /\ Outbox(d) = to_server[proc[d]] /\ Outbox(d) \in Seq(Report)
         /\ \A b \in Drones : Outbox(b)' = IF b = d THEN q ELSE Outbox(b)
<1>1. /\ proc \in [Drones -> Conns \cup {NoConn}] /\ to_server \in [Conns -> Seq(Report)]
      /\ \A b \in Drones : proc[b] # NoConn => owner[proc[b]] = b
  BY DEF LinkInv, LinkTypeOK, Owned
<1> QED
  BY <1>1 DEF Outbox

\* One item more, or one less.
LEMMA CountMoves ==
  ASSUME NEW Q, NEW q \in Seq(Q), NEW S
  PROVE  /\ \A x \in Q : Count(q \o <<x>>, S) <= Count(q, S) + Bit(x, S)
         /\ q # <<>> => Count(Tail(q), S) <= Count(q, S) + (0 - Bit(Head(q), S))
<1>1. Count(q, S) \in Nat
  BY CountNat
<1>2. ASSUME NEW x \in Q
      PROVE  Count(q \o <<x>>, S) <= Count(q, S) + Bit(x, S)
  <2>1. q \o <<x>> = Append(q, x)
    OBVIOUS
  <2>2. Count(Append(q, x), S) = Count(q, S) + Bit(x, S)
    BY CountAppend DEF Bit
  <2>3. Bit(x, S) \in Nat
    BY DEF Bit
  <2>4. Count(q \o <<x>>, S) = Count(q, S) + Bit(x, S)
    BY <2>1, <2>2, Zenon
  <2> DEFINE n == Count(q \o <<x>>, S)
             m == Count(q, S)
             b == Bit(x, S)
  <2>5. n = m + b /\ m \in Nat /\ b \in Nat
    BY <1>1, <2>3, <2>4
  <2> HIDE DEF n, m, b
  <2>6. n <= m + b
    BY <2>5
  <2> QED
    BY <2>6 DEF n, m, b
<1>3. ASSUME q # <<>>
      PROVE  Count(Tail(q), S) <= Count(q, S) + (0 - Bit(Head(q), S))
  <2>1. Count(q, S) = Count(Tail(q), S) + Bit(Head(q), S)
    BY <1>3, CountTail DEF Bit
  <2>2. Count(Tail(q), S) \in Nat
    <3>1. Tail(q) \in Seq(Q)
      BY <1>3
    <3> QED
      BY <3>1, CountNat
  <2>3. Bit(Head(q), S) \in Nat
    BY DEF Bit
  <2> QED
    BY <1>1, <2>1, <2>2, <2>3
<1> QED
  BY <1>2, <1>3

LEMMA CommandsRead ==
  ASSUME LoadsTyped, LinkInv, Steady, NEW d \in Drones, proc[d] # NoConn, UNCHANGED proc,
         to_drone[proc[d]] # <<>>, to_drone' = [to_drone EXCEPT ![proc[d]] = Tail(@)],
         NEW o \in Orchs, NEW k \in Kinds
  PROVE  InCommands(k, o)' <= InCommands(k, o)
           + (IF DroneOf[o] = d THEN 0 - Bit(Head(to_drone[proc[d]]), Commanded(k)) ELSE 0)
<1> DEFINE b == DroneOf[o]
           C == Commanded(k)
           q == Tail(to_drone[proc[d]])
<1>1. b \in Drones /\ InCommands(k, o) \in Nat
  BY DEF LoadsTyped
<1>2. to_drone' = [to_drone EXCEPT ![proc[d]] = q]
  OBVIOUS
<1> HIDE DEF q
<1>3. /\ Inbox(d) = to_drone[proc[d]] /\ Inbox(d) \in Seq(Request)
      /\ Inbox(b)' = IF b = d THEN q ELSE Inbox(b)
  BY <1>1, <1>2, InboxIs
<1>4. InCommands(k, o) = Count(Inbox(b), C) /\ InCommands(k, o)' = Count(Inbox(b)', C)
  BY DEF InCommands, Count, Indices
<1>5. Count(q, C) <= Count(Inbox(d), C) + (0 - Bit(Head(Inbox(d)), C))
  BY <1>3, CountMoves DEF q
<1> HIDE DEF b, C
<1>6. InCommands(k, o)' <= InCommands(k, o)
           + (IF b = d THEN 0 - Bit(Head(to_drone[proc[d]]), C) ELSE 0)
  BY <1>1, <1>3, <1>4, <1>5
<1> QED
  BY <1>6 DEF b, C

LEMMA CommandsSent ==
  ASSUME LoadsTyped, LinkInv, Steady, NEW d \in Drones, proc[d] # NoConn, UNCHANGED proc,
         NEW x \in Request, to_drone' = [to_drone EXCEPT ![proc[d]] = @ \o <<x>>],
         NEW o \in Orchs, NEW k \in Kinds
  PROVE  InCommands(k, o)' <= InCommands(k, o)
           + (IF DroneOf[o] = d THEN Bit(x, Commanded(k)) ELSE 0)
<1> DEFINE b == DroneOf[o]
           C == Commanded(k)
           q == to_drone[proc[d]] \o <<x>>
<1>1. b \in Drones /\ InCommands(k, o) \in Nat
  BY DEF LoadsTyped
<1>2. to_drone' = [to_drone EXCEPT ![proc[d]] = q]
  OBVIOUS
<1> HIDE DEF q
<1>3. /\ Inbox(d) = to_drone[proc[d]] /\ Inbox(d) \in Seq(Request)
      /\ Inbox(b)' = IF b = d THEN q ELSE Inbox(b)
  BY <1>1, <1>2, InboxIs
<1>4. InCommands(k, o) = Count(Inbox(b), C) /\ InCommands(k, o)' = Count(Inbox(b)', C)
  BY DEF InCommands, Count, Indices
<1>5. Count(q, C) <= Count(Inbox(d), C) + Bit(x, C)
  BY <1>3, CountMoves DEF q
<1> HIDE DEF b, C
<1>6. InCommands(k, o)' <= InCommands(k, o) + (IF b = d THEN Bit(x, C) ELSE 0)
  BY <1>1, <1>3, <1>4, <1>5
<1> QED
  BY <1>6 DEF b, C

LEMMA ReportsRead ==
  ASSUME LoadsTyped, LinkInv, NEW d \in Drones, proc[d] # NoConn,
         UNCHANGED proc, to_server[proc[d]] # <<>>,
         to_server' = [to_server EXCEPT ![proc[d]] = Tail(@)],
         NEW o \in Orchs, NEW k \in Kinds, k = "stale" => UNCHANGED Fresh(o)
  PROVE  InReports(k, o)' <= InReports(k, o)
           + (IF DroneOf[o] = d THEN 0 - Bit(Head(to_server[proc[d]]), Returned(k, o)) ELSE 0)
<1> DEFINE b == DroneOf[o]
           C == Returned(k, o)
           q == Tail(to_server[proc[d]])
<1>1. b \in Drones /\ InReports(k, o) \in Nat /\ Returned(k, o)' = C
  BY KindsKept DEF LoadsTyped
<1>2. to_server' = [to_server EXCEPT ![proc[d]] = q]
  OBVIOUS
<1> HIDE DEF q, C
<1>3. /\ Outbox(d) = to_server[proc[d]] /\ Outbox(d) \in Seq(Report)
      /\ Outbox(b)' = IF b = d THEN q ELSE Outbox(b)
  BY <1>1, <1>2, OutboxIs
<1>4. InReports(k, o) = Count(Outbox(b), C) /\ InReports(k, o)' = Count(Outbox(b)', C)
  BY <1>1 DEF InReports, Count, Indices, C
<1>5. Count(q, C) <= Count(Outbox(d), C) + (0 - Bit(Head(Outbox(d)), C))
  BY <1>3, CountMoves DEF q
<1> HIDE DEF b
<1>6. InReports(k, o)' <= InReports(k, o)
           + (IF b = d THEN 0 - Bit(Head(to_server[proc[d]]), C) ELSE 0)
  BY <1>1, <1>3, <1>4, <1>5
<1> QED
  BY <1>6 DEF b, C

LEMMA ReportsMade ==
  ASSUME LoadsTyped, LinkInv, NEW d \in Drones, proc[d] # NoConn,
         UNCHANGED proc, NEW x \in Report,
         to_server' = [to_server EXCEPT ![proc[d]] = @ \o <<x>>],
         NEW o \in Orchs, NEW k \in Kinds, k = "stale" => UNCHANGED Fresh(o)
  PROVE  InReports(k, o)' <= InReports(k, o)
           + (IF DroneOf[o] = d THEN Bit(x, Returned(k, o)) ELSE 0)
<1> DEFINE b == DroneOf[o]
           C == Returned(k, o)
           q == to_server[proc[d]] \o <<x>>
<1>1. b \in Drones /\ InReports(k, o) \in Nat /\ Returned(k, o)' = C
  BY KindsKept DEF LoadsTyped
<1>2. to_server' = [to_server EXCEPT ![proc[d]] = q]
  OBVIOUS
<1> HIDE DEF q, C
<1>3. /\ Outbox(d) = to_server[proc[d]] /\ Outbox(d) \in Seq(Report)
      /\ Outbox(b)' = IF b = d THEN q ELSE Outbox(b)
  BY <1>1, <1>2, OutboxIs
<1>4. InReports(k, o) = Count(Outbox(b), C) /\ InReports(k, o)' = Count(Outbox(b)', C)
  BY <1>1 DEF InReports, Count, Indices, C
<1>5. Count(q, C) <= Count(Outbox(d), C) + Bit(x, C)
  BY <1>3, CountMoves DEF q
<1> HIDE DEF b
<1>6. InReports(k, o)' <= InReports(k, o) + (IF b = d THEN Bit(x, C) ELSE 0)
  BY <1>1, <1>3, <1>4, <1>5
<1> QED
  BY <1>6 DEF b, C

-----------------------------------------------------------------------------
(* Steps outside the missions *)

\* What comes to one place has left another.
LEMMA LoadBalance ==
  ASSUME LoadsTyped, LoadsTyped', NEW o \in Orchs, NEW k \in Kinds,
         NEW a \in Int, NEW b \in Int, NEW c \in Int, NEW e \in Int, NEW f \in Int,
         InQueue(k, o)' <= InQueue(k, o) + a, InCommands(k, o)' <= InCommands(k, o) + b,
         InReports(k, o)' <= InReports(k, o) + c, InJobs(k, o)' <= InJobs(k, o) + e,
         InFlight(k, o)' <= InFlight(k, o) + f, a + b + c + e + f <= 0
  PROVE  Load(k, o)' <= Load(k, o)
<1> DEFINE n == a + b + c + e + f
<1>1. Load(k, o)' <= Load(k, o) + n
  BY LoadMoves
<1>2. Load(k, o)' \in Nat /\ Load(k, o) \in Nat /\ n \in Int /\ n <= 0
  BY DEF LoadsTyped
<1> HIDE DEF n
<1> QED
  BY <1>1, <1>2

LEMMA LoadCommand ==
  ASSUME OrchAssumption, OwnDrones, SystemInv, Steady, LoadsTyped, LoadsTyped', DroneCommand
  PROVE  Freight
<1>1. /\ tasks \in Seq(SystemItem) /\ LinkInv
      /\ UNCHANGED <<flights, flying, proc, to_server, jobs, wire>>
  BY DEF SystemInv, MissionInv, DroneCommand, HandleGetPhoto, SendMove, SendCommand,
         linkVars, clientVars, chatVars
<1>2. tasks # <<>> /\ Task \in SystemItem /\ Task.by \in Orchs
  BY <1>1, TaskData DEF DroneCommand, HandleGetPhoto, SendMove
<1>3. PICK p \in Orchs : p = Task.by
  BY <1>2
<1>4. \E msg \in Request :
        /\ SendCommand(p, msg)
        /\ \A o \in Orchs, k \in Kinds :
             msg \in Commanded(k) /\ o = p => Task \in Waiting(k, o)
  <2>1. CASE HandleGetPhoto
    <3>1. SendCommand(p, PhotoRequest) /\ Task.type = "GetPhoto"
      BY <1>3, <2>1 DEF HandleGetPhoto
    <3>2. PhotoRequest \in Request
      BY DEF Request
    <3>3. ASSUME NEW o \in Orchs, NEW k \in Kinds, PhotoRequest \in Commanded(k), o = p
          PROVE  Task \in Waiting(k, o)
      <4>1. k = "photo"
        BY <3>3 DEF Commanded, PhotoRequest, MoveRequest
      <4> QED
        BY <1>2, <1>3, <3>1, <3>3, <4>1, WaitingIs
    <3> QED
      BY <3>1, <3>2, <3>3
  <2>2. CASE SendMove
    <3>1. SendCommand(p, MoveRequest(Task.move)) /\ Task.type = "ExecuteMove"
      BY <1>3, <2>2 DEF SendMove
    <3>2. MoveRequest(Task.move) \in Request
      BY <1>1, <1>2, <3>1, TaskData DEF Request
    <3>3. ASSUME NEW o \in Orchs, NEW k \in Kinds, MoveRequest(Task.move) \in Commanded(k),
                 o = p
          PROVE  Task \in Waiting(k, o)
      <4>1. k \in {"ack", "move", "again"}
        BY <3>3 DEF Commanded, PhotoRequest, MoveRequest
      <4> QED
        BY <1>2, <1>3, <3>1, <3>3, <4>1, WaitingIs
    <3> QED
      BY <3>1, <3>2, <3>3
  <2> QED
    BY <2>1, <2>2 DEF DroneCommand
<1>5. PICK msg \in Request :
        /\ SendCommand(p, msg)
        /\ \A o \in Orchs, k \in Kinds :
             msg \in Commanded(k) /\ o = p => Task \in Waiting(k, o)
  BY <1>4
<1>6. PICK d \in Drones : d = DroneOf[p]
  BY DEF OrchAssumption
<1>7. /\ tasks' = Tail(tasks)
      /\ \/ UNCHANGED to_drone
         \/ /\ proc[d] # NoConn
            /\ to_drone' = [to_drone EXCEPT ![proc[d]] = @ \o <<msg>>]
  <2>1. d \notin disconnected
    BY DEF Steady
  <2>2. connected[d] # NoConn =>
          /\ connected[d] = proc[d] /\ wire[proc[d]] = "up"
          /\ proc[d] \in Conns /\ ~noticed[proc[d]]
    BY <1>1 DEF Steady, LinkInv, LinkTypeOK, Owned
  <2> QED
    BY <1>5, <1>6, <2>1, <2>2 DEF SendCommand, linkVars, Sent
<1> SUFFICES ASSUME NEW o \in Orchs, NEW k \in Kinds
             PROVE  Load(k, o)' <= Load(k, o)
  BY DEF Freight
<1> DEFINE n == IF DroneOf[o] = d THEN Bit(msg, Commanded(k)) ELSE 0
           w == Bit(Task, Waiting(k, o))
<1>8. InQueue(k, o)' <= InQueue(k, o) + (0 - w)
  BY <1>1, <1>2, <1>7, QueueTaken
<1>9. n \in {0, 1} /\ w \in {0, 1} /\ n <= w
  <2>1. DroneOf[o] = d => o = p
    BY <1>6 DEF OwnDrones
  <2>2. DroneOf[o] = d /\ msg \in Commanded(k) => Task \in Waiting(k, o)
    BY <1>5, <2>1
  <2> QED
    BY <2>2 DEF Bit
<1>10. InCommands(k, o)' <= InCommands(k, o) + n
  <2>1. CASE UNCHANGED to_drone
    <3>1. InCommands(k, o)' <= InCommands(k, o) + 0
      BY <1>1, <2>1, FreshKept, PartsKept
    <3>2. InCommands(k, o)' \in Nat /\ InCommands(k, o) \in Nat
      BY DEF LoadsTyped
    <3> HIDE DEF n
    <3> QED
      BY <1>9, <3>1, <3>2
  <2>2. CASE /\ proc[d] # NoConn
             /\ to_drone' = [to_drone EXCEPT ![proc[d]] = @ \o <<msg>>]
    BY <1>1, <2>2, CommandsSent
  <2> QED
    BY <1>7, <2>1, <2>2
<1>11. /\ InReports(k, o)' <= InReports(k, o) + 0 /\ InJobs(k, o)' <= InJobs(k, o) + 0
       /\ InFlight(k, o)' <= InFlight(k, o) + 0
  BY <1>1, FreshKept, PartsKept
<1> HIDE DEF n, w
<1>12. n \in Int /\ 0 - w \in Int /\ (0 - w) + n + 0 + 0 + 0 <= 0
  BY <1>9
<1> QED
  BY <1>8, <1>10, <1>11, <1>12, LoadBalance

\* An event made of a report is for those the report is for.
LEMMA MakesIs ==
  ASSUME NEW r \in Report, NEW d \in Drones, NEW e, Makes(r, d, e)
  PROVE  /\ e \in SystemItem
         /\ \A o \in Orchs, k \in Kinds :
              e \in Waiting(k, o) => DroneOf[o] = d /\ r \in Returned(k, o)
<1>1. e \in SystemItem /\ e.drone = d
      /\ e.type \in {"MoveStarted", "MoveExecuted", "PhotoWithTelemetryReceived"}
  <2>1. PICK m : m = e
    OBVIOUS
  <2>2. CASE r = MoveAck /\ e = [type |-> "MoveStarted", drone |-> d, to |-> Subscribed]
    <3>1. Subscribed \in SUBSET Orchs
      BY DEF Subscribed
    <3> QED
      BY <2>2, <3>1 DEF SystemItem, Items, Events, DroneNotice
  <2>3. CASE \E ok \in BOOLEAN :
               /\ r = MoveReport(ok)
               /\ e = [type |-> "MoveExecuted", drone |-> d, ok |-> ok, to |-> Subscribed]
    <3>1. Subscribed \in SUBSET Orchs
      BY DEF Subscribed
    <3> QED
      BY <2>3, <3>1 DEF SystemItem, Items, Events
  <2>4. CASE \E place \in Int :
               /\ r = PhotoReport(place)
               /\ e = [type |-> "PhotoWithTelemetryReceived", drone |-> d, photo |-> place,
                       to |-> Subscribed]
    <3>1. Subscribed \in SUBSET Orchs
      BY DEF Subscribed
    <3> QED
      BY <2>4, <3>1 DEF SystemItem, Items, Events
  <2> QED
    BY <2>2, <2>3, <2>4 DEF Makes
<1>2. \A o \in Orchs : Concerns(o, e) => DroneOf[o] = d
  BY <1>1 DEF Concerns, DroneEventTypes, DroneNotice
<1>3. ASSUME NEW o \in Orchs, NEW k \in Kinds, e \in Waiting(k, o)
      PROVE  DroneOf[o] = d /\ r \in Returned(k, o)
  <2>1. CASE e.type = "MoveStarted"
    <3>1. Concerns(o, e) /\ k = "ack"
      BY <1>1, <1>3, <2>1, WaitingIs
    <3>2. r = MoveAck
      BY <2>1 DEF Makes
    <3> QED
      BY <1>2, <3>1, <3>2 DEF Returned
  <2>2. CASE e.type = "MoveExecuted"
    <3>1. Concerns(o, e) /\ (k = "move" \/ (k = "again" /\ ~e.ok))
      BY <1>1, <1>3, <2>2, WaitingIs
    <3>2. PICK ok \in BOOLEAN :
            /\ r = MoveReport(ok)
            /\ e = [type |-> "MoveExecuted", drone |-> d, ok |-> ok, to |-> Subscribed]
      BY <2>2 DEF Makes
    <3>3. e.ok = ok
      BY <3>2
    <3> QED
      BY <1>2, <3>1, <3>2, <3>3 DEF Returned
  <2>3. CASE e.type = "PhotoWithTelemetryReceived"
    <3>1. Concerns(o, e) /\ (k = "photo" \/ (k = "stale" /\ e.photo \notin Fresh(o)))
      BY <1>1, <1>3, <2>3, WaitingIs
    <3>2. PICK place \in Int :
            /\ r = PhotoReport(place)
            /\ e = [type |-> "PhotoWithTelemetryReceived", drone |-> d, photo |-> place,
                    to |-> Subscribed]
      BY <2>3 DEF Makes
    <3>3. e.photo = place
      BY <3>2
    <3> QED
      BY <1>2, <3>1, <3>2, <3>3 DEF Returned
  <2> QED
    BY <1>1, <2>1, <2>2, <2>3
<1> QED
  BY <1>1, <1>3

LEMMA LoadServer ==
  ASSUME NothingLost, SystemInv, Steady, LoadsTyped, LoadsTyped', NEW c \in Conns, ServerStep(c)
  PROVE  Freight
<1>1. /\ tasks \in Seq(SystemItem) /\ LinkInv /\ to_server \in [Conns -> Seq(Report)]
      /\ UNCHANGED <<flights, flying, proc, jobs>>
  BY DEF SystemInv, MissionInv, LinkInv, LinkTypeOK, ServerStep, clientVars, chatVars
<1>2. CASE Notice(c) /\ UNCHANGED <<bridgeVars, missionVars>>
  <2>1. UNCHANGED <<to_drone, to_server, tasks>>
    BY <1>2 DEF Notice, missionVars
  <2> QED
    BY <1>1, <2>1, FreshKept, PartsKept, LoadKept
<1>3. CASE Serve(c)
  <2>1. /\ owner[c] \in Drones /\ proc[owner[c]] = c /\ to_server[c] # <<>>
        /\ to_server' = [to_server EXCEPT ![c] = Tail(@)]
        /\ Accepts(c) \/ Hears(c)
    BY <1>1, <1>3, SteadyServe
  <2>2. PICK d \in Drones : d = owner[c]
    BY <2>1
  <2>3. proc[d] = c /\ c # NoConn /\ Head(to_server[c]) \in Report
    BY <1>1, <2>1, <2>2, BridgeAssumption, NoConnIsNone
  <2> SUFFICES ASSUME NEW o \in Orchs, NEW k \in Kinds
               PROVE  Load(k, o)' <= Load(k, o)
    BY DEF Freight
  <2> DEFINE r == IF DroneOf[o] = d THEN Bit(Head(to_server[c]), Returned(k, o)) ELSE 0
  <2>4. InReports(k, o)' <= InReports(k, o) + (0 - r) /\ r \in {0, 1}
    <3>1. InReports(k, o)' <= InReports(k, o)
             + (IF DroneOf[o] = d THEN 0 - Bit(Head(to_server[proc[d]]), Returned(k, o))
                                  ELSE 0)
      BY <1>1, <2>1, <2>3, FreshKept, ReportsRead
    <3> QED
      BY <2>3, <3>1 DEF Bit
  <2>5. InJobs(k, o)' <= InJobs(k, o) + 0 /\ InFlight(k, o)' <= InFlight(k, o) + 0
    BY <1>1, FreshKept, PartsKept
  <2>6. CASE Accepts(c)
    <3> DEFINE x == AuthAck(TRUE)
    <3>1. /\ x \in Request /\ Bit(x, Commanded(k)) = 0
          /\ to_drone' = [to_drone EXCEPT ![proc[d]] = @ \o <<x>>] /\ UNCHANGED tasks
      BY <2>3, <2>6 DEF Accepts, Request, Commanded, AuthAck, PhotoRequest, MoveRequest, Bit
    <3> HIDE DEF x
    <3>2. InCommands(k, o)' <= InCommands(k, o)
             + (IF DroneOf[o] = d THEN Bit(x, Commanded(k)) ELSE 0)
      BY <1>1, <2>3, <3>1, CommandsSent
    <3>3. InCommands(k, o)' <= InCommands(k, o) + 0
      BY <3>1, <3>2
    <3>4. InQueue(k, o)' <= InQueue(k, o) + 0
      BY <1>1, <3>1, FreshKept, PartsKept
    <3> HIDE DEF r
    <3>5. 0 - r \in Int /\ 0 + 0 + (0 - r) + 0 + 0 <= 0
      BY <2>4
    <3> QED
      BY <2>4, <2>5, <3>3, <3>4, <3>5, LoadBalance
  <2>7. CASE Hears(c)
    <3>1. PICK e : Makes(Head(to_server[c]), d, e) /\ tasks' = Publish(tasks, e)
      BY <2>2, <2>7 DEF Hears
    <3>2. /\ e \in SystemItem
          /\ e \in Waiting(k, o) => DroneOf[o] = d /\ Head(to_server[c]) \in Returned(k, o)
      BY <2>3, <3>1, MakesIs
    <3>3. InQueue(k, o)' <= InQueue(k, o) + Bit(e, Waiting(k, o))
      BY <1>1, <3>1, <3>2, QueueTold
    <3>4. InCommands(k, o)' <= InCommands(k, o) + 0
      BY <1>1, <2>7, FreshKept, PartsKept DEF Hears
    <3> DEFINE w == Bit(e, Waiting(k, o))
    <3>5. w \in {0, 1} /\ w <= r
      BY <3>2 DEF Bit
    <3> HIDE DEF r, w
    <3>6. w \in Int /\ 0 - r \in Int /\ w + 0 + (0 - r) + 0 + 0 <= 0
      BY <2>4, <3>5
    <3>7. InQueue(k, o)' <= InQueue(k, o) + w
      BY <3>3 DEF w
    <3> QED
      BY <2>4, <2>5, <3>4, <3>6, <3>7, LoadBalance
  <2> QED
    BY <2>1, <2>6, <2>7
<1> QED
  BY <1>2, <1>3 DEF ServerStep

\* The drone reads a message and answers it.
LEMMA MessageIs ==
  ASSUME LinkInv, Steady, NEW d \in Drones, NEW type, Arrived(d, type)
  PROVE  /\ proc[d] # NoConn /\ proc[d] \in Conns /\ to_drone[proc[d]] # <<>>
         /\ wire[proc[d]] = "up" /\ Message(d) \in Request
         /\ type = "GET_PHOTO_TELEMETRY" => Message(d) = PhotoRequest
         /\ type = "MOVE" => \E m \in Moves \cup {NoMove} : Message(d) = MoveRequest(m)
<1>1. proc[d] # NoConn /\ proc[d] \in Conns /\ to_drone[proc[d]] # <<>> /\ wire[proc[d]] = "up"
  BY DEF LinkInv, LinkTypeOK, Arrived, Steady
<1>2. Message(d) \in Request
  <2>1. to_drone[proc[d]] \in Seq(Request)
    BY <1>1 DEF Steady
  <2> QED
    BY <1>1, <2>1 DEF Message
<1> QED
  BY <1>1, <1>2 DEF Arrived, Request, AuthAck, PhotoRequest, MoveRequest

LEMMA LoadDispatch ==
  ASSUME OrchAssumption, SystemInv, Steady, LoadsTyped, LoadsTyped', NEW d \in Drones,
         Dispatch(d), UNCHANGED <<missionVars, chatVars>>
  PROVE  Freight
<1>1. /\ LinkInv /\ UNCHANGED <<flights, proc, jobs, tasks>>
      /\ flying \in [Drones -> Nat] /\ to_server \in [Conns -> Seq(Report)]
  BY DEF SystemInv, LinkInv, LinkTypeOK, Dispatch, AuthAnswer, TakePhoto, BeginMove,
         missionVars, chatVars, clientVars
<1>2. /\ proc[d] # NoConn /\ to_drone[proc[d]] # <<>>
      /\ to_drone' = [to_drone EXCEPT ![proc[d]] = Tail(@)]
  BY DEF Dispatch, AuthAnswer, TakePhoto, BeginMove, Arrived, Read
<1> SUFFICES ASSUME NEW o \in Orchs, NEW k \in Kinds
             PROVE  Load(k, o)' <= Load(k, o)
  BY DEF Freight
<1> DEFINE n == IF DroneOf[o] = d THEN Bit(Message(d), Commanded(k)) ELSE 0
<1>3. InCommands(k, o)' <= InCommands(k, o) + (0 - n) /\ n \in {0, 1}
  <2>1. InCommands(k, o)' <= InCommands(k, o)
          + (IF DroneOf[o] = d THEN 0 - Bit(Head(to_drone[proc[d]]), Commanded(k)) ELSE 0)
    BY <1>1, <1>2, CommandsRead
  <2> QED
    BY <2>1 DEF Bit, Message
<1>4. InQueue(k, o)' <= InQueue(k, o) + 0 /\ InJobs(k, o)' <= InJobs(k, o) + 0
  BY <1>1, FreshKept, PartsKept
<1>5. CASE AuthAnswer(d)
  <2>1. UNCHANGED <<to_server, flying>>
    BY <1>5 DEF AuthAnswer
  <2>2. InReports(k, o)' <= InReports(k, o) + 0 /\ InFlight(k, o)' <= InFlight(k, o) + 0
    BY <1>1, <2>1, FreshKept, PartsKept
  <2> HIDE DEF n
  <2>3. 0 - n \in Int /\ 0 + (0 - n) + 0 + 0 + 0 <= 0
    BY <1>3
  <2> QED
    BY <1>3, <1>4, <2>2, <2>3, LoadBalance
<1>6. CASE TakePhoto(d)
  <2>1. Message(d) = PhotoRequest /\ wire[proc[d]] = "up"
    BY <1>1, <1>6, MessageIs DEF TakePhoto
  <2>2. PICK place \in {NoPhoto, flights[d]} :
          to_server' = [to_server EXCEPT ![proc[d]] = @ \o <<PhotoReport(place)>>]
    BY <1>6, <2>1 DEF TakePhoto, Send, Sent
  <2>3. place \in Int
    BY <1>1 DEF NoPhoto, LinkInv, LinkTypeOK
  <2>4. PhotoReport(place) \in Report
    BY <2>3 DEF Report
  <2> DEFINE r == IF DroneOf[o] = d THEN Bit(PhotoReport(place), Returned(k, o)) ELSE 0
  <2>5. InReports(k, o)' <= InReports(k, o) + r
    BY <1>1, <1>2, <2>2, <2>4, FreshKept, ReportsMade
  <2>6. r \in {0, 1} /\ r <= n
    <3>1. ASSUME DroneOf[o] = d, PhotoReport(place) \in Returned(k, o)
          PROVE  k = "photo"
      <4>1. k \in {"photo", "ack", "move", "again", "stale"}
        BY <3>1 DEF Kinds, Returned
      <4>2. k \notin {"ack", "move", "again"}
        BY <3>1 DEF Returned, PhotoReport, MoveAck, MoveReport
      <4>3. k # "stale"
        <5>1. place \in Fresh(o)
          BY <3>1 DEF Fresh
        <5> QED
          BY <3>1, <5>1 DEF Returned, PhotoReport
      <4> QED
        BY <4>1, <4>2, <4>3
    <3>2. k = "photo" => Message(d) \in Commanded(k)
      BY <2>1 DEF Commanded
    <3> QED
      BY <3>1, <3>2 DEF Bit
  <2>7. InFlight(k, o)' <= InFlight(k, o) + 0
    BY <1>1, <1>6, FreshKept, PartsKept DEF TakePhoto, clientVars
  <2> HIDE DEF n, r
  <2>8. r \in Int /\ 0 - n \in Int /\ 0 + (0 - n) + r + 0 + 0 <= 0
    BY <1>3, <2>6
  <2> QED
    BY <1>3, <1>4, <2>5, <2>7, <2>8, LoadBalance
<1>7. CASE BeginMove(d)
  <2>1. (\E m \in Moves \cup {NoMove} : Message(d) = MoveRequest(m)) /\ wire[proc[d]] = "up"
    BY <1>1, <1>7, MessageIs DEF BeginMove
  <2>2. /\ to_server' = [to_server EXCEPT ![proc[d]] = @ \o <<MoveAck>>]
        /\ flying' = [flying EXCEPT ![d] = @ + 1]
    BY <1>7, <2>1 DEF BeginMove, Send, Sent
  <2> DEFINE r == IF DroneOf[o] = d THEN Bit(MoveAck, Returned(k, o)) ELSE 0
             f == IF DroneOf[o] = d /\ k \in {"move", "again"} THEN 1 ELSE 0
  <2>3. InReports(k, o)' <= InReports(k, o) + r
    BY <1>1, <1>2, <2>2, FreshKept, ReportsMade DEF Report
  <2>4. InFlight(k, o)' <= InFlight(k, o) + f
    <3>1. DroneOf[o] \in Drones /\ flying[DroneOf[o]] \in Nat /\ flights[DroneOf[o]] \in Nat
      BY <1>1 DEF LoadsTyped, LinkInv, LinkTypeOK
    <3>2. flying'[DroneOf[o]] = flying[DroneOf[o]] + (IF DroneOf[o] = d THEN 1 ELSE 0)
      BY <1>1, <2>2, <3>1
    <3>3. CASE k = "move"
      BY <3>1, <3>2, <3>3 DEF InFlight
    <3>4. CASE k = "again"
      BY <1>1, <3>1, <3>2, <3>4 DEF InFlight
    <3>5. CASE k \notin {"move", "again"}
      BY <3>5 DEF InFlight
    <3> QED
      BY <3>3, <3>4, <3>5
  <2>5. r + f <= n /\ r \in {0, 1} /\ f \in {0, 1}
    <3>1. MoveAck \in Returned(k, o) => k = "ack"
      BY DEF Returned, MoveAck, PhotoReport, MoveReport, Kinds
    <3>2. k \in {"ack", "move", "again"} => Message(d) \in Commanded(k)
      BY <2>1 DEF Commanded
    <3> QED
      BY <3>1, <3>2 DEF Bit
  <2> HIDE DEF n, r, f
  <2>6. r \in Int /\ f \in Int /\ 0 - n \in Int /\ 0 + (0 - n) + r + 0 + f <= 0
    BY <1>3, <2>5
  <2> QED
    BY <1>3, <1>4, <2>3, <2>4, <2>6, LoadBalance
<1> QED
  BY <1>5, <1>6, <1>7 DEF Dispatch

LEMMA LoadRestart ==
  ASSUME SystemInv, Steady, LoadsTyped, LoadsTyped', NEW d \in Drones, RestartDrone(d)
  PROVE  Freight
<1>1. /\ proc \in [Drones -> Conns \cup {NoConn}] /\ NoConn \notin Conns
      /\ to_drone \in [Conns -> Seq(Request)] /\ to_server \in [Conns -> Seq(Report)]
      /\ UNCHANGED <<flights, flying, jobs, tasks>>
  BY BridgeAssumption, NoConnIsNone
  DEF SystemInv, LinkInv, LinkTypeOK, Steady, RestartDrone, StartProcess, missionVars, chatVars
<1>2. PICK c \in Conns : FreeSlot(c) /\ StartProcess(d, c)
  BY DEF RestartDrone
<1>3. /\ proc[d] = NoConn /\ proc' = [proc EXCEPT ![d] = c]
      /\ to_server' = [to_server EXCEPT ![c] = <<Auth>>]
      /\ to_drone' = [to_drone EXCEPT ![c] = <<>>]
      /\ \A b \in Drones : proc[b] # c
  BY <1>2 DEF StartProcess, Open, FreeSlot
<1>4. \A b \in Drones : /\ Inbox(b)' = IF b = d THEN <<>> ELSE Inbox(b)
                        /\ Outbox(b)' = IF b = d THEN <<Auth>> ELSE Outbox(b)
  BY <1>1, <1>3 DEF Inbox, Outbox
<1> SUFFICES ASSUME NEW o \in Orchs, NEW k \in Kinds
             PROVE  Load(k, o)' <= Load(k, o)
  BY DEF Freight
<1>5. DroneOf[o] \in Drones /\ InCommands(k, o) \in Nat /\ InReports(k, o) \in Nat
  BY DEF LoadsTyped
<1>6. InCommands(k, o)' <= InCommands(k, o) + 0
  <2>1. InCommands(k, o)' = Count(Inbox(DroneOf[o])', Commanded(k))
    BY DEF InCommands, Count, Indices
  <2>2. Count(<<>>, Commanded(k)) = 0
    BY CountOne
  <2>3. CASE DroneOf[o] = d
    BY <1>4, <1>5, <2>1, <2>2, <2>3
  <2>4. CASE DroneOf[o] # d
    BY <1>4, <1>5, <2>1, <2>4 DEF InCommands
  <2> QED
    BY <2>3, <2>4
<1>7. InReports(k, o)' <= InReports(k, o) + 0
  <2>1. InReports(k, o)' = Count(Outbox(DroneOf[o])', Returned(k, o))
    BY <1>1, FreshKept, KindsKept DEF InReports, Count, Indices
  <2>2. Count(<<Auth>>, Returned(k, o)) = 0
    <3>1. Auth \notin Returned(k, o)
      BY DEF Returned, Auth, MoveAck, MoveReport, PhotoReport
    <3> QED
      BY <3>1, CountOne
  <2>3. CASE DroneOf[o] = d
    BY <1>4, <1>5, <2>1, <2>2, <2>3
  <2>4. CASE DroneOf[o] # d
    BY <1>4, <1>5, <2>1, <2>4 DEF InReports
  <2> QED
    BY <2>3, <2>4
<1>8. /\ InQueue(k, o)' <= InQueue(k, o) + 0 /\ InJobs(k, o)' <= InJobs(k, o) + 0
      /\ InFlight(k, o)' <= InFlight(k, o) + 0
  BY <1>1, FreshKept, PartsKept
<1> QED
  BY <1>6, <1>7, <1>8, LoadBalance

LEMMA NoneOfMany ==
  ASSUME NEW a \in Nat, NEW b \in Nat, NEW c \in Nat, NEW e \in Nat, NEW f \in Nat,
         a + b + c + e + f = 0
  PROVE  a = 0 /\ b = 0 /\ c = 0 /\ e = 0 /\ f = 0
  OBVIOUS

\* A photo is current when there is none.
NoneIsStale ==
  \A o \in Orchs :
    (\A k \in Kinds \ {"stale"} : k \in {"photo", "analysis"} => Load(k, o) = 0)
      => \A k \in Kinds : k = "stale" => Load(k, o) = 0

LEMMA StaleIsPhoto == SystemInv /\ Steady => NoneIsStale
<1> SUFFICES ASSUME SystemInv, Steady, NEW o \in Orchs,
                    Load("photo", o) = 0, Load("analysis", o) = 0
             PROVE  Load("stale", o) = 0
  BY DEF NoneIsStale, Kinds
<1>1. LoadsTyped /\ {"photo", "analysis", "stale"} \subseteq Kinds
  BY LoadsAre DEF Kinds
<1>2. /\ tasks \in Seq(SystemItem) /\ jobs[MissionOf[o]] \in Seq(ChatJob)
      /\ Outbox(DroneOf[o]) \in Seq(Report) /\ Inbox(DroneOf[o]) \in Seq(Request)
  BY <1>1 DEF LoadsTyped, SystemInv, MissionInv, Steady
<1>3. /\ InQueue("photo", o) = 0 /\ InReports("photo", o) = 0
      /\ InQueue("analysis", o) = 0 /\ InJobs("analysis", o) = 0
  <2>1. /\ InQueue("photo", o) \in Nat /\ InCommands("photo", o) \in Nat
        /\ InReports("photo", o) \in Nat /\ InJobs("photo", o) \in Nat
        /\ InFlight("photo", o) \in Nat
    BY <1>1 DEF LoadsTyped
  <2>2. /\ InQueue("analysis", o) \in Nat /\ InCommands("analysis", o) \in Nat
        /\ InReports("analysis", o) \in Nat /\ InJobs("analysis", o) \in Nat
        /\ InFlight("analysis", o) \in Nat
    BY <1>1 DEF LoadsTyped
  <2>3. InQueue("photo", o) = 0 /\ InReports("photo", o) = 0
    BY <2>1, NoneOfMany DEF Load
  <2>4. InQueue("analysis", o) = 0 /\ InJobs("analysis", o) = 0
    BY <2>2, NoneOfMany DEF Load
  <2> QED
    BY <2>3, <2>4
<1>4. InQueue("stale", o) = 0
  <2>1. \A i \in 1..Len(tasks) : /\ tasks[i] \notin Waiting("photo", o)
                                 /\ tasks[i] \notin Waiting("analysis", o)
    BY <1>2, <1>3, CountNat DEF InQueue
  <2>2. Waiting("stale", o) \subseteq Waiting("photo", o) \cup Waiting("analysis", o)
    BY DEF Waiting
  <2> QED
    BY <1>2, <2>1, <2>2, CountNat DEF InQueue
<1>5. InReports("stale", o) = 0
  <2>1. \A i \in 1..Len(Outbox(DroneOf[o])) : Outbox(DroneOf[o])[i] \notin Returned("photo", o)
    BY <1>2, <1>3, CountNat DEF InReports
  <2>2. Returned("stale", o) \subseteq Returned("photo", o)
    BY DEF Returned
  <2> QED
    BY <1>2, <2>1, <2>2, CountNat DEF InReports
<1>6. InJobs("stale", o) = 0
  <2>1. \A i \in 1..Len(jobs[MissionOf[o]]) : jobs[MissionOf[o]][i] \notin InChat("analysis", o)
    BY <1>2, <1>3, CountNat DEF InJobs
  <2>2. InChat("stale", o) \subseteq InChat("analysis", o)
    BY DEF InChat
  <2> QED
    BY <1>2, <2>1, <2>2, CountNat DEF InJobs
<1>7. InCommands("stale", o) = 0
  <2>1. Commanded("stale") = {}
    BY DEF Commanded
  <2> QED
    BY <1>2, <2>1, CountNat DEF InCommands
<1>8. InFlight("stale", o) = 0
  BY DEF InFlight
<1> QED
  BY <1>4, <1>5, <1>6, <1>7, <1>8 DEF Load

LEMMA StaleWillBePhoto == SystemInv' /\ Steady' => NoneIsStale'
  BY StaleIsPhoto, PTL

\* What matters to a mission has not become more.
Hauls(o) == \A k \in Kinds : Matters(k, o) => Load(k, o)' <= Load(k, o)

LEMMA FlowKept ==
  ASSUME MissionTypeOK, LoadsTyped, LoadsTyped', NEW o \in Orchs, Flow(o), Hauls(o),
         state'[o] = state[o], confirmed'[o] = confirmed[o], o \in cancelled' => o \in cancelled
  PROVE  Flow(o)'
<1>1. ASSUME NEW k \in Kinds, Matters(k, o)'
      PROVE  Load(k, o)' <= Allowed(k, o)'
  <2>1. Matters(k, o) /\ Allowed(k, o)' = Allowed(k, o)
    BY <1>1 DEF Matters, Allowed
  <2>2. Load(k, o) \in Nat /\ Load(k, o)' \in Nat /\ Allowed(k, o) \in Nat
    BY DEF LoadsTyped, MissionTypeOK, Allowed
  <2>3. Load(k, o)' <= Load(k, o) /\ Load(k, o) <= Allowed(k, o)
    BY <2>1 DEF Flow, Hauls
  <2> DEFINE a == Load(k, o)
             b == Load(k, o)'
             c == Allowed(k, o)
  <2> HIDE DEF a, b, c
  <2>4. b <= c
    BY <2>2, <2>3 DEF a, b, c
  <2> QED
    BY <2>1, <2>4 DEF b, c
<1>2. state'[o] # "PAUSED" /\ (o \in cancelled' => state'[o] = "ENDED")
  BY DEF Flow
<1> QED
  BY <1>1, <1>2 DEF Flow

\* A flight ends: it is reported, and the next photo shows another place.
LEMMA FlowFinish ==
  ASSUME OrchAssumption, SystemInv, Steady, LoadsTyped, LoadsTyped', NoneIsStale',
         NEW d \in Drones, FinishMove(d), UNCHANGED <<missionVars, chatVars>>,
         NEW o \in Orchs, Flow(o)
  PROVE  Hauls(o)
<1>1. /\ LinkInv /\ UNCHANGED <<proc, jobs, tasks, to_drone>>
      /\ flying \in [Drones -> Nat] /\ flights \in [Drones -> Nat]
      /\ to_server \in [Conns -> Seq(Report)] /\ proc \in [Drones -> Conns \cup {NoConn}]
      /\ DroneOf[o] \in Drones /\ ClientAssumption
  BY ClientAssumption DEF SystemInv, LinkInv, LinkTypeOK, FinishMove, missionVars, chatVars, LoadsTyped
<1>2. PICK result \in MoveOutcomes :
        /\ flights' = [flights EXCEPT ![d] = IF result[1] THEN @ + 1 ELSE @]
        /\ Send(d, MoveReport(result[2]))
  BY DEF FinishMove
<1>3. result = <<result[1], result[2]>> /\ result[1] \in BOOLEAN /\ result[2] \in BOOLEAN
  BY <1>1 DEF ClientAssumption
<1> DEFINE x == MoveReport(result[2])
           flew == IF result[1] THEN 1 ELSE 0
<1>4. x \in Report /\ flew \in {0, 1} /\ flights' = [flights EXCEPT ![d] = @ + flew]
  <2>1. x \in Report
    BY <1>3 DEF Report
  <2>2. flights[d] \in Nat /\ flew \in {0, 1}
    BY <1>1
  <2>3. (IF result[1] THEN flights[d] + 1 ELSE flights[d]) = flights[d] + flew
    BY <2>2
  <2>4. flights' = [flights EXCEPT ![d] = flights[d] + flew]
    BY <1>2, <2>3
  <2> HIDE DEF x, flew
  <2> QED
    BY <2>1, <2>2, <2>4
<1>5. /\ flying[d] \in Nat /\ flying[d] > 0
      /\ flying' = [flying EXCEPT ![d] = @ - 1]
  BY <1>1 DEF FinishMove
<1>6. ASSUME NEW k \in Kinds, Matters(k, o), k = "stale" => DroneOf[o] # d
      PROVE  Load(k, o)' <= Load(k, o)
  <2> DEFINE r == IF DroneOf[o] = d THEN Bit(x, Returned(k, o)) ELSE 0
             f == IF DroneOf[o] = d THEN IF k = "move" THEN 0 - 1
                                         ELSE IF k = "again" THEN flew - 1 ELSE 0
                                    ELSE 0
  <2>1. k = "stale" => UNCHANGED Fresh(o)
    BY <1>1, <1>4, <1>6 DEF Fresh
  <2>2. r \in {0, 1}
    BY DEF Bit
  <2>3. InReports(k, o)' <= InReports(k, o) + r
    <3>1. CASE proc[d] = NoConn
      <4>1. UNCHANGED to_server
        BY <1>1, <1>2, <3>1, BridgeAssumption, NoConnIsNone DEF Send
      <4>2. InReports(k, o)' <= InReports(k, o) + 0
        BY <1>1, <2>1, <4>1, PartsKept
      <4>3. InReports(k, o) \in Nat /\ InReports(k, o)' \in Nat
        BY DEF LoadsTyped
      <4> HIDE DEF r
      <4> QED
        BY <2>2, <4>2, <4>3
    <3>2. CASE proc[d] # NoConn
      <4>1. wire[proc[d]] = "up"
        BY <3>2 DEF Steady
      <4>2. to_server' = [to_server EXCEPT ![proc[d]] = @ \o <<x>>]
        BY <1>2, <4>1 DEF Send, Sent
      <4> HIDE DEF x
      <4> QED
        BY <1>1, <1>4, <2>1, <3>2, <4>2, ReportsMade
    <3> QED
      BY <3>1, <3>2
  <2>4. InFlight(k, o)' <= InFlight(k, o) + f
    <3>1. /\ flying[DroneOf[o]] \in Nat /\ flights[DroneOf[o]] \in Nat
          /\ flying'[DroneOf[o]] = flying[DroneOf[o]] - (IF DroneOf[o] = d THEN 1 ELSE 0)
          /\ flights'[DroneOf[o]] = flights[DroneOf[o]] + (IF DroneOf[o] = d THEN flew ELSE 0)
      BY <1>1, <1>4, <1>5
    <3> HIDE DEF flew
    <3>2. CASE k = "move"
      BY <3>1, <3>2 DEF InFlight
    <3>3. CASE k = "again"
      BY <1>4, <3>1, <3>3 DEF InFlight
    <3>4. CASE k \notin {"move", "again"}
      BY <3>4 DEF InFlight
    <3> QED
      BY <3>2, <3>3, <3>4
  <2>5. r + f <= 0 /\ f \in Int
    <3>1. CASE DroneOf[o] # d
      BY <3>1
    <3>2. CASE DroneOf[o] = d /\ k = "move"
      BY <2>2, <3>2
    <3>3. CASE DroneOf[o] = d /\ k = "again"
      <4>1. ~(result[1] /\ ~result[2])
        <5>1. <<TRUE, FALSE>> \notin MoveOutcomes
          BY <1>6, <3>3 DEF Matters
        <5> QED
          BY <1>2, <1>3, <5>1
      <4>2. x \in Returned(k, o) => ~result[2]
        BY <3>3 DEF Returned, MoveReport
      <4>3. r = 1 => flew = 0
        BY <1>3, <3>3, <4>1, <4>2 DEF Bit
      <4>4. f = flew - 1
        BY <3>3
      <4> HIDE DEF r, f, flew
      <4> QED
        BY <1>4, <2>2, <4>3, <4>4
    <3>4. CASE DroneOf[o] = d /\ k \notin {"move", "again"}
      <4>1. x \notin Returned(k, o)
        BY <3>4 DEF Returned, MoveReport, MoveAck, PhotoReport
      <4> QED
        BY <3>4, <4>1 DEF Bit
    <3> QED
      BY <3>1, <3>2, <3>3, <3>4
  <2>6. /\ InQueue(k, o)' <= InQueue(k, o) + 0 /\ InJobs(k, o)' <= InJobs(k, o) + 0
        /\ InCommands(k, o)' <= InCommands(k, o) + 0
    BY <1>1, <2>1, PartsKept
  <2> HIDE DEF r, f
  <2>7. r \in Int /\ 0 + 0 + r + 0 + f <= 0
    BY <2>2, <2>5
  <2> QED
    BY <2>3, <2>4, <2>5, <2>6, <2>7, LoadBalance
<1>7. ASSUME NEW k \in Kinds, Matters(k, o), k = "stale", DroneOf[o] = d
      PROVE  Load(k, o)' <= Load(k, o)
  <2>1. state[o] # "ENDED"
    BY <1>7 DEF Matters
  <2>2. ASSUME NEW j \in Kinds, j = "move"
        PROVE  state[o] \in {"WAITING_FOR_ACK", "FLYING"}
    <3>1. Matters(j, o)
      BY <2>1, <2>2 DEF Matters
    <3>2. Load(j, o) <= Allowed(j, o)
      BY <3>1 DEF Flow
    <3>3. Load(j, o) >= InFlight(j, o) /\ Load(j, o) \in Nat
      <4>1. /\ InQueue(j, o) \in Nat /\ InCommands(j, o) \in Nat /\ InReports(j, o) \in Nat
            /\ InJobs(j, o) \in Nat /\ InFlight(j, o) \in Nat
        BY DEF LoadsTyped
      <4> QED
        BY <4>1 DEF Load
    <3>4. InFlight(j, o) = flying[d]
      BY <1>7, <2>2 DEF InFlight
    <3>5. Allowed(j, o) >= 1
      <4>1. Allowed(j, o) \in {0, 1}
        BY <2>2 DEF Allowed
      <4> QED
        BY <1>5, <3>2, <3>3, <3>4, <4>1
    <3> QED
      BY <2>2, <3>5 DEF Allowed
  <2>3. state[o] \in {"WAITING_FOR_ACK", "FLYING"}
    BY <2>2 DEF Kinds
  <2>4. ASSUME NEW j \in Kinds \ {"stale"}, j \in {"photo", "analysis"}
        PROVE  Load(j, o)' = 0
    <3>1. Matters(j, o) /\ Allowed(j, o) = 0
      BY <2>1, <2>3, <2>4 DEF Matters, Allowed
    <3>2. Load(j, o) <= Allowed(j, o) /\ Load(j, o)' <= Load(j, o)
      BY <1>6, <3>1 DEF Flow
    <3>3. Load(j, o) \in Nat /\ Load(j, o)' \in Nat
      BY DEF LoadsTyped
    <3> QED
      BY <3>1, <3>2, <3>3
  <2>5. Load(k, o)' = 0
    BY <1>7, <2>4 DEF NoneIsStale
  <2> QED
    BY <2>5 DEF LoadsTyped
<1> QED
  BY <1>6, <1>7 DEF Hauls

LEMMA FlowOutside ==
  ASSUME NothingLost, OwnDrones, OwnMissions, SystemInv, SystemInv', FlowInv, Steady',
         [SystemNext]_systemVars, ~\E p \in Orchs : MissionActs(p)
  PROVE  \A o \in Orchs : Flow(o)'
<1> USE OrchAssumption, BridgeAssumption, SystemAssumption
<1>1. /\ Steady /\ LoadsTyped /\ LoadsTyped' /\ NoneIsStale' /\ LinkInv /\ MissionTypeOK
  BY LoadsAre, LoadsWillBe, StaleWillBePhoto DEF FlowInv, SystemInv, MissionInv
<1>2. UNCHANGED <<orchVars, cancelled>>
  <2>1. CASE \E c \in Conns : ServerStep(c)
    <3>1. PICK c \in Conns : ServerStep(c)
      BY <2>1
    <3>2. CASE Serve(c)
      BY <1>1, <3>1, <3>2, SteadyServe DEF ServerStep, historyVars
    <3> QED
      BY <3>1, <3>2 DEF ServerStep, missionVars, historyVars
  <2>2. CASE DroneCommand
    BY <2>2 DEF DroneCommand, HandleGetPhoto, SendMove, historyVars
  <2>3. CASE ~(\E c \in Conns : ServerStep(c)) /\ ~DroneCommand
    BY <2>3 DEF SystemNext, LoopStep, MissionActs, systemVars, missionVars, historyVars,
         ChatCommand, OperatorCommand, ChatStep, OperatorStep, DroneStep, RestartDrone,
         ConnectionLost
  <2> QED
    BY <2>1, <2>2, <2>3
<1>3. \A o \in Orchs : Hauls(o)
  <2>1. Freight => \A o \in Orchs : Hauls(o)
    BY DEF Freight, Hauls
  <2>2. CASE UNCHANGED systemVars
    <3>1. UNCHANGED <<flights, flying, proc, to_drone, to_server, jobs, tasks>>
      BY <2>2 DEF systemVars, missionVars, droneVars, linkVars, clientVars, chatVars
    <3> QED
      BY <1>1, <2>1, <3>1, FreshKept, PartsKept, LoadKept
  <2>3. CASE ChatCommand
    BY <1>1, <2>1, <2>3, LoadChat
  <2>4. CASE OperatorCommand \/ \E u \in UIs : OperatorStep(u)
    BY <1>1, <2>1, <2>4, LoadOperator
  <2>5. CASE DroneCommand
    BY <1>1, <2>1, <2>5, LoadCommand
  <2>6. CASE \E m \in Missions : ChatStep(m)
    BY <1>1, <2>1, <2>6, LoadChatStep
  <2>7. CASE \E c \in Conns : ServerStep(c)
    BY <1>1, <2>1, <2>7, LoadServer
  <2>8. CASE \E d \in Drones : RestartDrone(d)
    BY <1>1, <2>1, <2>8, LoadRestart
  <2>9. CASE ConnectionLost
    BY <1>1, <2>9 DEF ConnectionLost, NothingLost, Steady
  <2>10. ASSUME NEW d \in Drones, DroneStep(d)
         PROVE  \A o \in Orchs : Hauls(o)
    <3>1. UNCHANGED <<missionVars, chatVars>>
      BY <2>10 DEF DroneStep
    <3>2. CASE Dispatch(d)
      BY <1>1, <2>1, <3>1, <3>2, LoadDispatch
    <3>3. CASE FinishMove(d)
      BY <1>1, <3>1, <3>3, FlowFinish DEF FlowInv
    <3>4. CASE ConnectionGone(d)
      BY <1>1, <3>4 DEF ConnectionGone, Steady
    <3> QED
      BY <2>10, <3>2, <3>3, <3>4 DEF DroneStep
  <2> QED
    BY <2>2, <2>3, <2>4, <2>5, <2>6, <2>7, <2>8, <2>9, <2>10
    DEF SystemNext, LoopStep, MissionActs
<1> QED
  BY <1>1, <1>2, <1>3, FlowKept DEF FlowInv, orchVars

\* What a mission still waits for, it has waited for before another handled it.
LEMMA WaitingLasts ==
  ASSUME NEW p \in Orchs, NEW o \in Orchs, NEW k \in Kinds, NEW x \in SystemItem,
         NEW y \in Waiting(k, o), Told(p, x, y)
  PROVE  x \in Waiting(k, o)
<1>1. /\ y \in SystemItem /\ x.type = y.type /\ y.to = x.to \ {p}
      /\ y.type \in EventTypes /\ y.type \in Carriers /\ o \in y.to
  BY WaitingCarries DEF Told
<1>2. o \in x.to
  BY <1>1
<1>3. Concerns(o, y) <=> Concerns(o, x)
  BY <1>1 DEF Told, Concerns, EventTypes
<1>4. CASE y.type = "PhotoWithTelemetryReceived"
  <2>1. x.photo = y.photo
    BY <1>1, <1>4 DEF Told
  <2> QED
    BY <1>1, <1>2, <1>3, <1>4, <2>1, WaitingIs
<1>5. CASE y.type = "MoveExecuted"
  <2>1. x.ok = y.ok
    BY <1>1, <1>5 DEF Told
  <2> QED
    BY <1>1, <1>2, <1>3, <1>5, <2>1, WaitingIs
<1>6. CASE y.type \in {"MoveStarted", "VlmAnalysisCompleted", "DroneConnectionLost",
                       "DroneReconnected"}
  BY <1>1, <1>2, <1>3, <1>6, WaitingIs
<1>7. y.type \in {"PhotoWithTelemetryReceived", "MoveExecuted", "MoveStarted",
                  "VlmAnalysisCompleted", "DroneConnectionLost", "DroneReconnected"}
  BY <1>1 DEF Carriers, EventTypes, DroneEventTypes, MissionEventTypes, DroneNotice, ChatNotice
<1> QED
  BY <1>4, <1>5, <1>6, <1>7

LEMMA MissionLeaves ==
  ASSUME NEW p \in Orchs, MissionActs(p)
  PROVE  UNCHANGED <<flights, flying, proc, to_drone, to_server, jobs>>
  BY DEF MissionActs, OrchestratorStep, StartMission, droneVars, clientVars, linkVars, chatVars

\* A step of one mission brings nothing to another.
LEMMA FlowOther ==
  ASSUME OrchAssumption, SystemInv, LoadsTyped, LoadsTyped', NEW p \in Orchs, MissionActs(p),
         NEW o \in Orchs, o # p, Flow(o)
  PROVE  Flow(o)'
<1>1. /\ Writes(p) /\ tasks \in Seq(SystemItem) /\ MissionInv(SystemItem) /\ MissionTypeOK
      /\ UNCHANGED <<flights, flying, proc, to_drone, to_server, jobs>>
  BY ActsAreMission, MissionLeaves DEF SystemInv, MissionInv
<1>2. Follows(SystemItem, p, tasks')
  BY <1>1, SystemCarries, MissionFollows DEF MissionInv
<1>3. ASSUME NEW k \in Kinds
      PROVE  Load(k, o)' <= Load(k, o)
  <2> DEFINE W == Waiting(k, o)
  <2>1. \A x \in W : x.type \in EventTypes \/ x.by # p
    BY WaitingCarries
  <2>2. \A x \in SystemItem : \A y : Told(p, x, y) /\ y \in W => x \in W
    BY WaitingLasts
  <2>3. Waiting(k, o)' = W
    BY <1>1, FreshKept, KindsKept
  <2> HIDE DEF W
  <2>4. Count(tasks', W) <= Count(tasks, W) /\ Count(tasks, W) \in Nat
    BY <1>1, <1>2, <2>1, <2>2, SystemCarries, CountWritten, CountNat
  <2>5. InQueue(k, o)' = Count(tasks', W)
    BY <2>3 DEF InQueue
  <2>6. InQueue(k, o) = Count(tasks, W)
    BY DEF InQueue, W
  <2>7. InQueue(k, o)' <= InQueue(k, o) + 0
    BY <2>4, <2>5, <2>6
  <2>8. /\ InCommands(k, o)' <= InCommands(k, o) + 0 /\ InReports(k, o)' <= InReports(k, o) + 0
        /\ InJobs(k, o)' <= InJobs(k, o) + 0 /\ InFlight(k, o)' <= InFlight(k, o) + 0
    BY <1>1, FreshKept, PartsKept
  <2> QED
    BY <2>7, <2>8, LoadBalance
<1>4. state'[o] = state[o] /\ confirmed'[o] = confirmed[o]
  BY <1>1, OthersKept DEF Ledger
<1>5. o \in cancelled' => o \in cancelled
  BY DEF MissionActs, OrchestratorStep, StartMission, historyVars
<1>6. Hauls(o)
  BY <1>3 DEF Hauls
<1> QED
  BY <1>1, <1>4, <1>5, <1>6, FlowKept

-----------------------------------------------------------------------------
(* The mission's own steps *)

\* What a handler has taken from the queue before it publishes.
Holds(k, o, q, a) ==
  /\ q \in Seq(SystemItem) /\ a \in Int
  /\ Count(q, Waiting(k, o)) <= InQueue(k, o) + a

LEMMA OwnRest ==
  ASSUME tasks \in Seq(SystemItem), NEW o \in Orchs, EventFor(o), NEW k \in Kinds
  PROVE  Holds(k, o, Rest(o), 0 - Bit(Task, Waiting(k, o)))
<1> DEFINE W == Waiting(k, o)
<1>1. tasks # <<>> /\ Task.type \in EventTypes /\ Task \in SystemItem
  BY SystemCarries, TaskCarries DEF EventFor
<1>2. Passed(o) \notin W
  <2>1. Passed(o) \in SystemItem /\ Told(o, Task, Passed(o))
    BY <1>1, SystemCarries DEF Carries, Passed
  <2>2. Passed(o).type \in EventTypes /\ o \notin Passed(o).to
    BY <1>1, <2>1 DEF Told
  <2> QED
    BY <2>2, WaitingCarries
<1>3. InQueue(k, o) = Count(tasks, W)
  BY DEF InQueue
<1> HIDE DEF W
<1>4. Rest(o) \in Seq(SystemItem) /\ Count(Rest(o), W) = Count(Tail(tasks), W) + 0
  BY <1>2, SystemCarries, CountRest
<1>5. Tail(tasks) \in Seq(SystemItem)
  BY <1>1
<1>6. Count(tasks, W) = Count(Tail(tasks), W) + Bit(Task, W) /\ Count(Tail(tasks), W) \in Nat
  BY <1>1, <1>5, CountTail, CountNat DEF Bit, Task
<1>7. Bit(Task, W) \in Nat
  BY DEF Bit
<1>8. Count(Rest(o), W) <= InQueue(k, o) + (0 - Bit(Task, W))
  BY <1>3, <1>4, <1>6, <1>7
<1>9. 0 - Bit(Task, W) \in Int
  BY <1>7
<1> QED
  BY <1>4, <1>8, <1>9 DEF Holds, W

LEMMA OwnTail ==
  ASSUME tasks \in Seq(SystemItem), tasks # <<>>, NEW o \in Orchs, NEW k \in Kinds
  PROVE  Holds(k, o, Tail(tasks), 0)
<1> DEFINE W == Waiting(k, o)
<1>1. Tail(tasks) \in Seq(SystemItem)
  OBVIOUS
<1>2. InQueue(k, o) = Count(tasks, W)
  BY DEF InQueue
<1> HIDE DEF W
<1>3. Count(tasks, W) = Count(Tail(tasks), W) + Bit(Task, W) /\ Count(Tail(tasks), W) \in Nat
  BY <1>1, CountTail, CountNat DEF Bit, Task
<1>4. Bit(Task, W) \in Nat
  BY DEF Bit
<1>5. Count(Tail(tasks), W) <= InQueue(k, o) + 0
  BY <1>2, <1>3, <1>4
<1> QED
  BY <1>1, <1>5 DEF Holds, W

LEMMA OwnWhole ==
  ASSUME tasks \in Seq(SystemItem), NEW o \in Orchs, NEW k \in Kinds
  PROVE  Holds(k, o, tasks, 0)
<1>1. InQueue(k, o) = Count(tasks, Waiting(k, o)) /\ InQueue(k, o) \in Nat
  BY CountNat DEF InQueue
<1> QED
  BY <1>1 DEF Holds

LEMMA SaysHolds ==
  ASSUME NEW o \in Orchs, NEW k \in Kinds, NEW q, NEW a, Holds(k, o, q, a),
         InQueue(k, o) \in Nat, NEW x \in SystemItem
  PROVE  Holds(k, o, Append(q, x), a + Bit(x, Waiting(k, o)))
<1> DEFINE W == Waiting(k, o)
<1>1. q \in Seq(SystemItem) /\ a \in Int /\ Count(q, W) <= InQueue(k, o) + a
  BY DEF Holds
<1> HIDE DEF W
<1>2. Append(q, x) \in Seq(SystemItem)
  BY <1>1
<1>3. Count(Append(q, x), W) = Count(q, W) + Bit(x, W) /\ Count(q, W) \in Nat
  BY <1>1, CountAppend, CountNat DEF Bit
<1>4. Bit(x, W) \in Nat
  BY DEF Bit
<1>5. Count(Append(q, x), W) <= InQueue(k, o) + (a + Bit(x, W)) /\ a + Bit(x, W) \in Int
  BY <1>1, <1>3, <1>4
<1> QED
  BY <1>2, <1>5 DEF Holds, W

LEMMA OwnFarewell ==
  ASSUME NEW o \in Orchs, NEW k \in Kinds, NEW q, NEW a, Holds(k, o, q, a)
  PROVE  Holds(k, o, q \o Farewell(o), a)
<1> DEFINE W == Waiting(k, o)
           b == Farewell(o)
<1>1. q \in Seq(SystemItem) /\ a \in Int /\ Count(q, W) <= InQueue(k, o) + a
  BY DEF Holds
<1>2. /\ b \in Seq({Await(o, "StopRecording"), Await(o, "SearchEnded"), Await(o, "DeleteSession")})
      /\ {Await(o, "StopRecording"), Await(o, "SearchEnded"), Await(o, "DeleteSession")}
            \subseteq SystemItem
  <2>1. {Await(o, "StopRecording"), Await(o, "SearchEnded"), Await(o, "DeleteSession")}
          \subseteq SystemItem
    BY SystemCarries DEF Carries, OwnItems
  <2> DEFINE x == Await(o, "StopRecording")
             y == Await(o, "SearchEnded")
             z == Await(o, "DeleteSession")
  <2>2. b = (IF VideoEnabled THEN <<x>> ELSE <<>>) \o <<y, z>>
    BY DEF Farewell
  <2> HIDE DEF x, y, z, b
  <2>3. /\ <<y, z>> \in Seq({x, y, z}) /\ <<x>> \in Seq({x, y, z})
        /\ <<>> \in Seq({x, y, z})
    OBVIOUS
  <2>4. b \in Seq({x, y, z})
    <3>1. CASE VideoEnabled
      BY <2>2, <2>3, <3>1
    <3>2. CASE ~VideoEnabled
      BY <2>2, <2>3, <3>2
    <3> QED
      BY <3>1, <3>2
  <2> QED
    BY <2>1, <2>4 DEF x, y, z
<1>3. \A x \in {Await(o, "StopRecording"), Await(o, "SearchEnded"), Await(o, "DeleteSession")} :
        x \notin W
  BY WaitingCarries DEF Await, Carriers
<1> HIDE DEF W, b
<1>4. b \in Seq(SystemItem) /\ \A i \in 1..Len(b) : b[i] \notin W
  BY <1>2, <1>3
<1>5. Count(b, W) = 0
  BY <1>4, CountNat
<1>6. q \o b \in Seq(SystemItem) /\ Count(q \o b, W) = Count(q, W) + Count(b, W)
  BY <1>1, <1>4, CountCat
<1>7. Count(q, W) \in Nat
  BY <1>1, CountNat
<1>8. Count(q \o b, W) <= InQueue(k, o) + a
  BY <1>1, <1>5, <1>6, <1>7
<1> QED
  BY <1>1, <1>6, <1>8 DEF Holds, W, b


\* What the items of a mission carry.
LEMMA OwnBits ==
  ASSUME OrchAssumption, NEW o \in Orchs, NEW k \in Kinds
  PROVE  /\ GetPhoto(o) \in SystemItem
         /\ Bit(GetPhoto(o), Waiting(k, o)) = IF k = "photo" THEN 1 ELSE 0
         /\ \A m \in Moves \cup {NoMove} :
              /\ ExecuteMove(o, m) \in SystemItem
              /\ Bit(ExecuteMove(o, m), Waiting(k, o)) =
                   IF k \in {"ack", "move", "again"} THEN 1 ELSE 0
         /\ \A c \in Awaited : /\ Await(o, c) \in SystemItem
                               /\ Bit(Await(o, c), Waiting(k, o)) = 0
         /\ \A m \in Moves : /\ Asked(o, m) \in SystemItem
                             /\ Bit(Asked(o, m), Waiting(k, o)) = 0
<1>1. /\ GetPhoto(o) \in SystemItem
      /\ \A m \in Moves \cup {NoMove} : ExecuteMove(o, m) \in SystemItem
      /\ \A c \in Awaited : Await(o, c) \in SystemItem
      /\ \A m \in Moves : Asked(o, m) \in SystemItem
  BY SystemCarries DEF Carries, OwnItems
<1>2. GetPhoto(o) \in Waiting(k, o) <=> k = "photo"
  <2>1. GetPhoto(o).type = "GetPhoto" /\ GetPhoto(o).by = o
    BY DEF GetPhoto
  <2> QED
    BY <1>1, <2>1, WaitingIs
<1>3. \A m \in Moves \cup {NoMove} :
        ExecuteMove(o, m) \in Waiting(k, o) <=> k \in {"ack", "move", "again"}
  <2>1. \A m : ExecuteMove(o, m).type = "ExecuteMove" /\ ExecuteMove(o, m).by = o
    BY DEF ExecuteMove
  <2> QED
    BY <1>1, <2>1, WaitingIs
<1>4. \A c \in Awaited : Await(o, c) \notin Waiting(k, o)
  BY WaitingCarries DEF Await, Awaited, Carriers
<1>5. \A m \in Moves : Asked(o, m) \notin Waiting(k, o)
  BY WaitingCarries DEF Asked, Carriers
<1> QED
  BY <1>1, <1>2, <1>3, <1>4, <1>5 DEF Bit

LEMMA EventBits ==
  ASSUME tasks \in Seq(SystemItem), NEW o \in Orchs, EventFor(o), NEW k \in Kinds
  PROVE  /\ Bit(Task, Waiting(k, o)) \in {0, 1}
         /\ Concerns(o, Task) =>
              /\ Task.type = "PhotoWithTelemetryReceived" =>
                   /\ k = "photo" => Bit(Task, Waiting(k, o)) = 1
                   /\ \A w \in BOOLEAN :
                        /\ Analyze(o, Task.photo, w) \in SystemItem
                        /\ k \notin {"analysis", "stale"} =>
                             Bit(Analyze(o, Task.photo, w), Waiting(k, o)) = 0
                        /\ k = "analysis" =>
                             Bit(Analyze(o, Task.photo, w), Waiting(k, o)) = 1
                        /\ k = "stale" =>
                             Bit(Analyze(o, Task.photo, w), Waiting(k, o))
                               = Bit(Task, Waiting(k, o))
              /\ Task.type = "VlmAnalysisCompleted" =>
                   (k = "analysis" => Bit(Task, Waiting(k, o)) = 1)
              /\ Task.type = "MoveStarted" => (k = "ack" => Bit(Task, Waiting(k, o)) = 1)
              /\ Task.type = "MoveExecuted" =>
                   /\ k = "move" => Bit(Task, Waiting(k, o)) = 1
                   /\ k = "again" /\ ~Task.ok => Bit(Task, Waiting(k, o)) = 1
              /\ Task.type \in {"DroneConnectionLost", "DroneReconnected"} =>
                   (k = "lost" => Bit(Task, Waiting(k, o)) = 1)
<1>1. Task \in SystemItem /\ o \in Task.to
  BY SystemCarries, TaskCarries DEF EventFor
<1>2. Bit(Task, Waiting(k, o)) \in {0, 1}
  BY DEF Bit
<1>3. ASSUME Concerns(o, Task), Task.type = "PhotoWithTelemetryReceived", NEW w \in BOOLEAN
      PROVE  /\ k = "photo" => Bit(Task, Waiting(k, o)) = 1
             /\ Analyze(o, Task.photo, w) \in SystemItem
             /\ k \notin {"analysis", "stale"} =>
                  Bit(Analyze(o, Task.photo, w), Waiting(k, o)) = 0
             /\ k = "analysis" => Bit(Analyze(o, Task.photo, w), Waiting(k, o)) = 1
             /\ k = "stale" => Bit(Analyze(o, Task.photo, w), Waiting(k, o))
                                 = Bit(Task, Waiting(k, o))
  <2> DEFINE x == Analyze(o, Task.photo, w)
  <2>1. x \in SystemItem
    BY <1>1, <1>3, SystemCarries, TaskCarries
  <2>2. x.type = "AnalyzePhoto" /\ x.by = o /\ x.photo = Task.photo
    BY DEF Analyze
  <2> HIDE DEF x
  <2>3. x \in Waiting(k, o) <=> k = "analysis" \/ (k = "stale" /\ Task.photo \notin Fresh(o))
    BY <2>1, <2>2, WaitingIs
  <2>4. Task \in Waiting(k, o) <=> k = "photo" \/ (k = "stale" /\ Task.photo \notin Fresh(o))
    BY <1>1, <1>3, WaitingIs
  <2>5. /\ k = "photo" => Bit(Task, Waiting(k, o)) = 1
        /\ k \notin {"analysis", "stale"} => Bit(x, Waiting(k, o)) = 0
        /\ k = "analysis" => Bit(x, Waiting(k, o)) = 1
        /\ k = "stale" => Bit(x, Waiting(k, o)) = Bit(Task, Waiting(k, o))
    BY <2>3, <2>4 DEF Bit
  <2> QED
    BY <2>1, <2>5 DEF x
<1>4. ASSUME Concerns(o, Task)
      PROVE  /\ Task.type = "VlmAnalysisCompleted" =>
                  (k = "analysis" => Bit(Task, Waiting(k, o)) = 1)
             /\ Task.type = "MoveStarted" => (k = "ack" => Bit(Task, Waiting(k, o)) = 1)
             /\ Task.type = "MoveExecuted" =>
                  /\ k = "move" => Bit(Task, Waiting(k, o)) = 1
                  /\ k = "again" /\ ~Task.ok => Bit(Task, Waiting(k, o)) = 1
             /\ Task.type \in {"DroneConnectionLost", "DroneReconnected"} =>
                  (k = "lost" => Bit(Task, Waiting(k, o)) = 1)
  <2>1. CASE Task.type = "VlmAnalysisCompleted"
    BY <1>1, <1>4, <2>1, WaitingIs DEF Bit
  <2>2. CASE Task.type = "MoveStarted"
    BY <1>1, <1>4, <2>2, WaitingIs DEF Bit
  <2>3. CASE Task.type = "MoveExecuted"
    BY <1>1, <1>4, <2>3, WaitingIs DEF Bit
  <2>4. CASE Task.type \in {"DroneConnectionLost", "DroneReconnected"}
    BY <1>1, <1>4, <2>4, WaitingIs DEF Bit
  <2> QED
    BY <2>1, <2>2, <2>3, <2>4
<1> QED
  BY <1>2, <1>3, <1>4

\* A mission takes on no more than its new state waits for.
Turns(o) ==
  /\ state[o] # "ENDED" /\ state'[o] # "PAUSED"
  /\ o \in cancelled' => state'[o] = "ENDED"
  /\ \A k \in Kinds : Matters(k, o)' =>
       \E a \in Int : Holds(k, o, tasks', a) /\ Allowed(k, o) + a <= Allowed(k, o)'

LEMMA OwnFlow ==
  ASSUME MissionTypeOK, MissionTypeOK', LoadsTyped, LoadsTyped', NEW o \in Orchs, Flow(o),
         UNCHANGED <<flights, flying, proc, to_drone, to_server, jobs>>, Turns(o)
  PROVE  Flow(o)'
<1>1. ASSUME NEW k \in Kinds, Matters(k, o)'
      PROVE  Load(k, o)' <= Allowed(k, o)'
  <2>1. PICK a \in Int : Holds(k, o, tasks', a) /\ Allowed(k, o) + a <= Allowed(k, o)'
    BY <1>1 DEF Turns
  <2>2. Matters(k, o)
    BY <1>1 DEF Turns, Matters
  <2>3. Load(k, o) <= Allowed(k, o)
    BY <2>2 DEF Flow
  <2>4. InQueue(k, o)' <= InQueue(k, o) + a
    <3>1. Waiting(k, o)' = Waiting(k, o)
      BY FreshKept, KindsKept
    <3>2. InQueue(k, o)' = Count(tasks', Waiting(k, o))
      BY <3>1 DEF InQueue
    <3> QED
      BY <2>1, <3>2 DEF Holds
  <2>5. /\ InCommands(k, o)' <= InCommands(k, o) + 0 /\ InReports(k, o)' <= InReports(k, o) + 0
        /\ InJobs(k, o)' <= InJobs(k, o) + 0 /\ InFlight(k, o)' <= InFlight(k, o) + 0
    BY FreshKept, PartsKept
  <2>6. Load(k, o)' <= Load(k, o) + (a + 0 + 0 + 0 + 0)
    BY <2>4, <2>5, LoadMoves
  <2>7. /\ Load(k, o) \in Nat /\ Load(k, o)' \in Nat
        /\ Allowed(k, o) \in Nat /\ Allowed(k, o)' \in Nat
    BY DEF LoadsTyped, MissionTypeOK, Allowed
  <2> DEFINE l == Load(k, o)
             m == Load(k, o)'
             b == Allowed(k, o)
             c == Allowed(k, o)'
  <2>8. m <= l + (a + 0 + 0 + 0 + 0) /\ l <= b /\ b + a <= c
    BY <2>1, <2>3, <2>6
  <2>9. l \in Nat /\ m \in Nat /\ b \in Nat /\ c \in Nat
    BY <2>7
  <2> HIDE DEF l, m, b, c
  <2>10. m <= c
    BY <2>8, <2>9
  <2> QED
    BY <2>10 DEF m, c
<1> QED
  BY <1>1 DEF Flow, Turns

LEMMA PhotoTurns ==
  ASSUME SystemInv, LoadsTyped, NEW o \in Orchs, Flow(o), HandlePhotoAndTelemetry(o),
         o \in cancelled' => o \in cancelled
  PROVE  Turns(o)
<1>1. /\ tasks \in Seq(SystemItem) /\ MissionTypeOK /\ UNCHANGED confirmed
      /\ EventFor(o) /\ Concerns(o, Task) /\ Task.type = "PhotoWithTelemetryReceived"
      /\ state[o] = "WAITING_FOR_DRONE"
      /\ tasks' = Append(Rest(o), Analyze(o, Task.photo, is_warning[o]))
  BY DEF SystemInv, MissionInv, HandlePhotoAndTelemetry, Handles, Expected, Analyze
<1>2. state'[o] = "WAITING_FOR_VLM" /\ confirmed[o] \in Nat /\ is_warning[o] \in BOOLEAN
  BY <1>1 DEF HandlePhotoAndTelemetry, Goto, MissionTypeOK
<1>3. o \notin cancelled'
  BY <1>1 DEF Flow
<1>4. ASSUME NEW k \in Kinds
      PROVE  \E a \in Int : Holds(k, o, tasks', a) /\ Allowed(k, o) + a <= Allowed(k, o)'
  <2> DEFINE x == Analyze(o, Task.photo, is_warning[o])
             b == Bit(Task, Waiting(k, o))
             e == Bit(x, Waiting(k, o))
  <2>1. /\ x \in SystemItem /\ b \in {0, 1}
        /\ k = "photo" => b = 1
        /\ k \notin {"analysis", "stale"} => e = 0
        /\ k = "analysis" => e = 1
        /\ k = "stale" => e = b
    BY <1>1, <1>2, EventBits
  <2>2. Holds(k, o, Rest(o), 0 - b)
    BY <1>1, OwnRest
  <2>3. InQueue(k, o) \in Nat
    BY DEF LoadsTyped
  <2>4. Holds(k, o, tasks', (0 - b) + e)
    BY <1>1, <2>1, <2>2, <2>3, SaysHolds
  <2> HIDE DEF b, e
  <2>5. (0 - b) + e \in Int /\ Allowed(k, o) + ((0 - b) + e) <= Allowed(k, o)'
    BY <1>1, <1>2, <2>1 DEF Kinds, Allowed
  <2> QED
    BY <2>4, <2>5
<1> QED
  BY <1>1, <1>2, <1>3, <1>4 DEF Turns

LEMMA AnalysisTurns ==
  ASSUME OrchAssumption, SystemInv, LoadsTyped, NEW o \in Orchs, Flow(o), HandleVlmAnalysis(o),
         o \in cancelled' => o \in cancelled
  PROVE  Turns(o)
<1>1. /\ tasks \in Seq(SystemItem) /\ MissionTypeOK /\ UNCHANGED confirmed
      /\ EventFor(o) /\ Concerns(o, Task) /\ Task.type = "VlmAnalysisCompleted"
      /\ state[o] = "WAITING_FOR_VLM"
  BY DEF SystemInv, MissionInv, HandleVlmAnalysis, Handles, Expected
<1>2. Task.move \in Moves
  BY <1>1, SystemCarries, TaskCarries DEF Proposing
<1> DEFINE saved == Append(Rest(o), Await(o, "SaveSession"))
<1>3. /\ state'[o] \in {"WAITING_FOR_USER", "ENDED"} /\ confirmed[o] \in Nat
      /\ tasks' = saved \o Farewell(o) \/ tasks' = Append(saved, Asked(o, Task.move))
  BY <1>1 DEF HandleVlmAnalysis, Terminate, Goto, MissionTypeOK, Asked
<1>4. o \notin cancelled'
  BY <1>1 DEF Flow
<1>5. ASSUME NEW k \in Kinds
      PROVE  \E a \in Int : Holds(k, o, tasks', a) /\ Allowed(k, o) + a <= Allowed(k, o)'
  <2> DEFINE b == Bit(Task, Waiting(k, o))
  <2>1. b \in {0, 1} /\ (k = "analysis" => b = 1)
    BY <1>1, EventBits
  <2>2. Holds(k, o, Rest(o), 0 - b)
    BY <1>1, OwnRest
  <2>3. InQueue(k, o) \in Nat
    BY DEF LoadsTyped
  <2>4. /\ Await(o, "SaveSession") \in SystemItem /\ Asked(o, Task.move) \in SystemItem
        /\ Bit(Await(o, "SaveSession"), Waiting(k, o)) = 0
        /\ Bit(Asked(o, Task.move), Waiting(k, o)) = 0
    BY <1>2, OwnBits DEF Awaited
  <2>5. Holds(k, o, saved, (0 - b) + 0)
    BY <2>2, <2>3, <2>4, SaysHolds
  <2> DEFINE c == (0 - b) + 0
             y == Asked(o, Task.move)
  <2> HIDE DEF b, c, saved, y
  <2>6. Holds(k, o, saved, c) /\ y \in SystemItem /\ Bit(y, Waiting(k, o)) = 0
    BY <2>4, <2>5 DEF c, y
  <2>7. c \in Int /\ c = 0 - b /\ c + 0 = c
    BY <2>1 DEF c
  <2>8. Holds(k, o, saved \o Farewell(o), c)
    BY <2>6, OwnFarewell
  <2>9. Holds(k, o, Append(saved, y), c)
    <3>1. Holds(k, o, Append(saved, y), c + 0)
      BY <2>3, <2>6, SaysHolds
    <3> QED
      BY <2>7, <3>1
  <2>10. Holds(k, o, tasks', c)
    BY <1>3, <2>8, <2>9 DEF y
  <2>11. Allowed(k, o) + c <= Allowed(k, o)'
    BY <1>1, <1>3, <2>1, <2>7 DEF Kinds, Allowed
  <2> QED
    BY <2>7, <2>10, <2>11
<1> QED
  BY <1>1, <1>3, <1>4, <1>5 DEF Turns

LEMMA DecisionTurns ==
  ASSUME OrchAssumption, SystemInv, LoadsTyped, NEW o \in Orchs, Flow(o),
         \/ (UserConfirms(o) \/ UserWarns(o)) /\ (o \in cancelled' => o \in cancelled)
         \/ UserCancels(o)
  PROVE  Turns(o)
<1>1. /\ tasks \in Seq(SystemItem) /\ MissionTypeOK /\ Task.type = "UserDecisionReceived"
      /\ EventFor(o) /\ state[o] = "WAITING_FOR_USER"
  BY DEF SystemInv, MissionInv, UserConfirms, UserWarns, UserCancels, Handles, Expected
<1>2. Task.move \in Moves /\ o \notin cancelled
  BY <1>1, SystemCarries, TaskCarries DEF Proposing, Flow
<1>3. \/ /\ state'[o] = "WAITING_FOR_ACK" /\ confirmed'[o] = confirmed[o] + 1
         /\ tasks' = Append(Rest(o), ExecuteMove(o, Task.move)) /\ o \notin cancelled'
      \/ /\ state'[o] = "WAITING_FOR_DRONE" /\ confirmed'[o] = confirmed[o]
         /\ tasks' = Append(Rest(o), GetPhoto(o)) /\ o \notin cancelled'
      \/ /\ state'[o] = "ENDED" /\ confirmed'[o] = confirmed[o]
         /\ tasks' = Rest(o) \o Farewell(o)
  BY <1>1, <1>2 DEF UserConfirms, UserWarns, UserCancels, Goto, Terminate, MissionTypeOK
<1>4. ASSUME NEW k \in Kinds
      PROVE  \E a \in Int : Holds(k, o, tasks', a) /\ Allowed(k, o) + a <= Allowed(k, o)'
  <2> DEFINE b == Bit(Task, Waiting(k, o))
             e == Bit(ExecuteMove(o, Task.move), Waiting(k, o))
             g == Bit(GetPhoto(o), Waiting(k, o))
  <2>1. b \in {0, 1}
    BY <1>1, EventBits
  <2>2. Holds(k, o, Rest(o), 0 - b)
    BY <1>1, OwnRest
  <2>3. InQueue(k, o) \in Nat /\ confirmed[o] \in Nat
    BY <1>1 DEF LoadsTyped, MissionTypeOK
  <2>4. /\ ExecuteMove(o, Task.move) \in SystemItem /\ GetPhoto(o) \in SystemItem
        /\ e = (IF k \in {"ack", "move", "again"} THEN 1 ELSE 0)
        /\ g = (IF k = "photo" THEN 1 ELSE 0)
    BY <1>2, OwnBits
  <2>5. /\ Holds(k, o, Append(Rest(o), ExecuteMove(o, Task.move)), (0 - b) + e)
        /\ Holds(k, o, Append(Rest(o), GetPhoto(o)), (0 - b) + g)
        /\ Holds(k, o, Rest(o) \o Farewell(o), 0 - b)
    BY <2>2, <2>3, <2>4, SaysHolds, OwnFarewell
  <2> HIDE DEF b, e, g
  <2>6. CASE state'[o] = "WAITING_FOR_ACK"
    <3>1. (0 - b) + e \in Int /\ Allowed(k, o) + ((0 - b) + e) <= Allowed(k, o)'
      BY <1>1, <1>3, <2>1, <2>3, <2>4, <2>6 DEF Kinds, Allowed
    <3> QED
      BY <1>3, <2>5, <2>6, <3>1
  <2>7. CASE state'[o] = "WAITING_FOR_DRONE"
    <3>1. (0 - b) + g \in Int /\ Allowed(k, o) + ((0 - b) + g) <= Allowed(k, o)'
      BY <1>1, <1>3, <2>1, <2>3, <2>4, <2>7 DEF Kinds, Allowed
    <3> QED
      BY <1>3, <2>5, <2>7, <3>1
  <2>8. CASE state'[o] = "ENDED"
    <3>1. 0 - b \in Int /\ Allowed(k, o) + (0 - b) <= Allowed(k, o)'
      BY <1>1, <1>3, <2>1, <2>3, <2>8 DEF Kinds, Allowed
    <3> QED
      BY <1>3, <2>5, <2>8, <3>1
  <2> QED
    BY <1>3, <2>6, <2>7, <2>8
<1> QED
  BY <1>1, <1>3, <1>4 DEF Turns

LEMMA MoveTurns ==
  ASSUME OrchAssumption, SystemInv, LoadsTyped, NEW o \in Orchs, Flow(o),
         HandleMoveStarted(o) \/ MoveSucceeded(o) \/ MoveFailed(o),
         o \in cancelled' => o \in cancelled
  PROVE  Turns(o)
<1>1. /\ tasks \in Seq(SystemItem) /\ MissionTypeOK /\ UNCHANGED confirmed
      /\ EventFor(o) /\ Concerns(o, Task)
      /\ \/ Task.type = "MoveStarted" /\ state[o] = "WAITING_FOR_ACK"
         \/ Task.type = "MoveExecuted" /\ state[o] = "FLYING"
  BY DEF SystemInv, MissionInv, HandleMoveStarted, MoveSucceeded, MoveFailed, Handles, Expected
<1>2. confirmed[o] \in Nat /\ current_move[o] \in Moves \cup {NoMove}
  BY <1>1 DEF MissionTypeOK
<1>3. o \notin cancelled'
  BY <1>1 DEF Flow
<1>4. \/ /\ Task.type = "MoveStarted" /\ state[o] = "WAITING_FOR_ACK"
         /\ state'[o] = "FLYING" /\ tasks' = Rest(o)
      \/ /\ Task.type = "MoveExecuted" /\ state[o] = "FLYING"
         /\ state'[o] = "WAITING_FOR_DRONE" /\ tasks' = Append(Rest(o), GetPhoto(o))
      \/ /\ Task.type = "MoveExecuted" /\ ~Task.ok /\ state[o] = "FLYING"
         /\ state'[o] = "WAITING_FOR_ACK"
         /\ tasks' = Append(Rest(o), ExecuteMove(o, current_move[o]))
      \/ /\ Task.type = "MoveExecuted" /\ state[o] = "FLYING"
         /\ state'[o] = "ENDED" /\ tasks' = Rest(o) \o Farewell(o)
  <2>1. CASE HandleMoveStarted(o)
    BY <1>1, <2>1 DEF HandleMoveStarted, Goto, MissionTypeOK, Handles, Expected
  <2>2. CASE MoveSucceeded(o)
    BY <1>1, <2>2 DEF MoveSucceeded, Goto, MissionTypeOK, Handles, Expected
  <2>3. CASE MoveFailed(o)
    BY <1>1, <2>3 DEF MoveFailed, Goto, Terminate, MissionTypeOK, Handles, Expected
  <2> QED
    BY <2>1, <2>2, <2>3
<1>5. ASSUME NEW k \in Kinds
      PROVE  \E a \in Int : Holds(k, o, tasks', a) /\ Allowed(k, o) + a <= Allowed(k, o)'
  <2> DEFINE b == Bit(Task, Waiting(k, o))
             e == Bit(ExecuteMove(o, current_move[o]), Waiting(k, o))
             g == Bit(GetPhoto(o), Waiting(k, o))
  <2>1. /\ b \in {0, 1}
        /\ Task.type = "MoveStarted" => (k = "ack" => b = 1)
        /\ Task.type = "MoveExecuted" => (k = "move" => b = 1)
        /\ Task.type = "MoveExecuted" => (k = "again" /\ ~Task.ok => b = 1)
    BY <1>1, EventBits
  <2>2. Holds(k, o, Rest(o), 0 - b)
    BY <1>1, OwnRest
  <2>3. InQueue(k, o) \in Nat
    BY DEF LoadsTyped
  <2>4. /\ ExecuteMove(o, current_move[o]) \in SystemItem /\ GetPhoto(o) \in SystemItem
        /\ e = (IF k \in {"ack", "move", "again"} THEN 1 ELSE 0)
        /\ g = (IF k = "photo" THEN 1 ELSE 0)
    BY <1>2, OwnBits
  <2>5. /\ Holds(k, o, Append(Rest(o), ExecuteMove(o, current_move[o])), (0 - b) + e)
        /\ Holds(k, o, Append(Rest(o), GetPhoto(o)), (0 - b) + g)
        /\ Holds(k, o, Rest(o) \o Farewell(o), 0 - b)
    BY <2>2, <2>3, <2>4, SaysHolds, OwnFarewell
  <2> HIDE DEF b, e, g
  <2>6. CASE state'[o] = "FLYING"
    <3>1. 0 - b \in Int /\ Allowed(k, o) + (0 - b) <= Allowed(k, o)'
      BY <1>1, <1>2, <1>4, <2>1, <2>6 DEF Kinds, Allowed
    <3> QED
      BY <1>4, <2>2, <2>6, <3>1
  <2>7. CASE state'[o] = "WAITING_FOR_DRONE"
    <3>1. (0 - b) + g \in Int /\ Allowed(k, o) + ((0 - b) + g) <= Allowed(k, o)'
      BY <1>1, <1>2, <1>4, <2>1, <2>4, <2>7 DEF Kinds, Allowed
    <3> QED
      BY <1>4, <2>5, <2>7, <3>1
  <2>8. CASE state'[o] = "WAITING_FOR_ACK"
    <3>1. (0 - b) + e \in Int /\ Allowed(k, o) + ((0 - b) + e) <= Allowed(k, o)'
      BY <1>1, <1>2, <1>4, <2>1, <2>4, <2>8 DEF Kinds, Allowed
    <3> QED
      BY <1>4, <2>5, <2>8, <3>1
  <2>9. CASE state'[o] = "ENDED"
    <3>1. /\ state[o] = "FLYING" /\ tasks' = Rest(o) \o Farewell(o)
          /\ k = "move" => b = 1
      BY <1>4, <2>1, <2>9
    <3>2. 0 - b \in Int /\ Allowed(k, o) + (0 - b) <= Allowed(k, o)'
      BY <1>1, <1>2, <2>1, <2>9, <3>1 DEF Kinds, Allowed
    <3> QED
      BY <2>5, <3>1, <3>2
  <2> QED
    BY <1>4, <2>6, <2>7, <2>8, <2>9
<1> QED
  BY <1>1, <1>3, <1>4, <1>5 DEF Turns

\* While no connection is lost nothing is lost or back.
LEMMA NothingComesBack ==
  ASSUME SystemInv, LoadsTyped, NEW o \in Orchs, Flow(o), EventFor(o), Concerns(o, Task)
  PROVE  Task.type \notin {"DroneConnectionLost", "DroneReconnected"}
<1> SUFFICES ASSUME Task.type \in {"DroneConnectionLost", "DroneReconnected"}
             PROVE  FALSE
  OBVIOUS
<1>1. ASSUME NEW k \in Kinds, k = "lost"
      PROVE  FALSE
  <2>1. tasks \in Seq(SystemItem) /\ tasks # <<>>
    BY DEF SystemInv, MissionInv, EventFor
  <2>2. Bit(Task, Waiting(k, o)) = 1
    BY <1>1, <2>1, EventBits
  <2>3. Holds(k, o, Rest(o), 0 - Bit(Task, Waiting(k, o)))
    BY <2>1, OwnRest
  <2>4. Count(Rest(o), Waiting(k, o)) \in Nat /\ Rest(o) \in Seq(SystemItem)
    BY <2>3, CountNat DEF Holds
  <2>5. InQueue(k, o) > 0
    <3>1. InQueue(k, o) \in Nat
      BY DEF LoadsTyped
    <3> QED
      BY <2>2, <2>3, <2>4, <3>1 DEF Holds
  <2>6. /\ InQueue(k, o) \in Nat /\ InCommands(k, o) \in Nat /\ InReports(k, o) \in Nat
        /\ InJobs(k, o) \in Nat /\ InFlight(k, o) \in Nat
    BY DEF LoadsTyped
  <2>7. Load(k, o) > 0
    BY <2>5, <2>6 DEF Load
  <2>8. Load(k, o) <= 0
    BY <1>1 DEF Flow, Matters, Allowed
  <2>9. Load(k, o) \in Nat
    BY DEF LoadsTyped
  <2> QED
    BY <2>7, <2>8, <2>9
<1> QED
  BY <1>1 DEF Kinds

LEMMA FatalTurns ==
  ASSUME SystemInv, LoadsTyped, NEW o \in Orchs, Flow(o), HandleFatal(o),
         o \in cancelled' => o \in cancelled
  PROVE  Turns(o)
<1>1. /\ tasks \in Seq(SystemItem) /\ MissionTypeOK /\ UNCHANGED confirmed
      /\ EventFor(o) /\ state[o] # "ENDED"
  <2>1. PICK type \in Fatal : Handles(o, type)
    BY DEF HandleFatal
  <2>2. Expected(type) = MissionState \ {"ENDED"}
    BY DEF Fatal, ChatNotice, Expected
  <2> QED
    BY <2>1, <2>2 DEF SystemInv, MissionInv, HandleFatal, Handles
<1>2. state'[o] = "ENDED" /\ tasks' = Rest(o) \o Farewell(o) /\ confirmed[o] \in Nat
  BY <1>1 DEF HandleFatal, Terminate, Goto, MissionTypeOK
<1>3. o \notin cancelled'
  BY <1>1 DEF Flow
<1>4. ASSUME NEW k \in Kinds, Matters(k, o)'
      PROVE  \E a \in Int : Holds(k, o, tasks', a) /\ Allowed(k, o) + a <= Allowed(k, o)'
  <2> DEFINE b == Bit(Task, Waiting(k, o))
  <2>1. b \in {0, 1}
    BY <1>1, EventBits
  <2>2. Holds(k, o, Rest(o), 0 - b)
    BY <1>1, OwnRest
  <2> HIDE DEF b
  <2>3. Holds(k, o, tasks', 0 - b)
    BY <1>2, <2>2, OwnFarewell
  <2>4. k \in {"lost", "again"}
    BY <1>2, <1>3, <1>4 DEF Matters, Kinds
  <2>5. 0 - b \in Int /\ Allowed(k, o) + (0 - b) <= Allowed(k, o)'
    BY <1>1, <1>2, <2>1, <2>4 DEF Allowed
  <2> QED
    BY <2>3, <2>5
<1> QED
  BY <1>1, <1>2, <1>3, <1>4 DEF Turns

LEMMA SearchTurns ==
  ASSUME OrchAssumption, SystemAssumption, SystemInv, LoadsTyped, NEW o \in Orchs, Flow(o),
         StartSearch(o), state[o] # "ENDED", o \in cancelled' => o \in cancelled
  PROVE  Turns(o)
<1>1. /\ tasks \in Seq(SystemItem) /\ MissionTypeOK /\ UNCHANGED confirmed
      /\ tasks # <<>> /\ state[o] = "IDLE" /\ confirmed[o] \in Nat
  BY DEF SystemInv, MissionInv, StartSearch, Awake, Accounted, Starting, MissionTypeOK
<1>2. state'[o] = "WAITING_FOR_DRONE" /\ tasks' = Append(Tail(tasks), GetPhoto(o))
  BY <1>1 DEF StartSearch, Goto, MissionTypeOK, SystemAssumption
<1>3. o \notin cancelled'
  BY <1>1 DEF Flow
<1>4. ASSUME NEW k \in Kinds
      PROVE  \E a \in Int : Holds(k, o, tasks', a) /\ Allowed(k, o) + a <= Allowed(k, o)'
  <2> DEFINE g == Bit(GetPhoto(o), Waiting(k, o))
  <2>1. GetPhoto(o) \in SystemItem /\ g = (IF k = "photo" THEN 1 ELSE 0)
    BY OwnBits
  <2>2. Holds(k, o, Tail(tasks), 0) /\ InQueue(k, o) \in Nat
    BY <1>1, OwnTail DEF LoadsTyped
  <2>3. Holds(k, o, tasks', 0 + g)
    BY <1>2, <2>1, <2>2, SaysHolds
  <2> HIDE DEF g
  <2>4. 0 + g \in Int /\ Allowed(k, o) + (0 + g) <= Allowed(k, o)'
    BY <1>1, <1>2, <2>1 DEF Kinds, Allowed
  <2> QED
    BY <2>3, <2>4
<1> QED
  BY <1>1, <1>2, <1>3, <1>4 DEF Turns

LEMMA StartTurns ==
  ASSUME OrchAssumption, SystemInv, LoadsTyped, NEW o \in Orchs, Flow(o), StartMission(o)
  PROVE  Turns(o)
<1>1. /\ tasks \in Seq(SystemItem) /\ MissionTypeOK /\ UNCHANGED <<confirmed, cancelled>>
      /\ state[o] = "NEW" /\ confirmed[o] \in Nat
  BY DEF SystemInv, MissionInv, StartMission, Start, MissionTypeOK, historyVars
<1>2. /\ state'[o] \in {"IDLE", "ENDED"}
      /\ \/ tasks' = Append(tasks, Await(o, "CreateNewSession"))
         \/ tasks' = tasks \o Farewell(o)
  BY <1>1 DEF StartMission, Start, Goto, Terminate, MissionTypeOK
<1>3. o \notin cancelled'
  BY <1>1 DEF Flow
<1>4. ASSUME NEW k \in Kinds
      PROVE  \E a \in Int : Holds(k, o, tasks', a) /\ Allowed(k, o) + a <= Allowed(k, o)'
  <2>1. Holds(k, o, tasks, 0) /\ InQueue(k, o) \in Nat
    BY <1>1, OwnWhole DEF LoadsTyped
  <2>2. /\ Await(o, "CreateNewSession") \in SystemItem
        /\ Bit(Await(o, "CreateNewSession"), Waiting(k, o)) = 0
    BY OwnBits DEF Awaited
  <2> DEFINE x == Await(o, "CreateNewSession")
  <2>3. Holds(k, o, Append(tasks, x), 0)
    <3> HIDE DEF x
    <3>1. Holds(k, o, Append(tasks, x), 0 + Bit(x, Waiting(k, o)))
      BY <2>1, <2>2, SaysHolds DEF x
    <3> QED
      BY <2>2, <3>1 DEF x
  <2>4. Holds(k, o, tasks \o Farewell(o), 0)
    BY <2>1, OwnFarewell
  <2>5. Holds(k, o, tasks', 0)
    BY <1>2, <2>3, <2>4
  <2>6. Allowed(k, o) + 0 <= Allowed(k, o)'
    BY <1>1, <1>2 DEF Kinds, Allowed
  <2> QED
    BY <2>5, <2>6
<1> QED
  BY <1>1, <1>2, <1>3, <1>4 DEF Turns

LEMMA HoldsHauls ==
  ASSUME LoadsTyped, LoadsTyped', NEW o \in Orchs, NEW k \in Kinds, Holds(k, o, tasks', 0),
         UNCHANGED <<flights, flying, proc, to_drone, to_server, jobs>>
  PROVE  Load(k, o)' <= Load(k, o)
<1>1. Waiting(k, o)' = Waiting(k, o)
  BY FreshKept, KindsKept
<1>2. InQueue(k, o)' = Count(tasks', Waiting(k, o))
  BY <1>1 DEF InQueue
<1>3. InQueue(k, o)' <= InQueue(k, o) + 0
  BY <1>2 DEF Holds
<1>4. /\ InCommands(k, o)' <= InCommands(k, o) + 0 /\ InReports(k, o)' <= InReports(k, o) + 0
      /\ InJobs(k, o)' <= InJobs(k, o) + 0 /\ InFlight(k, o)' <= InFlight(k, o) + 0
  BY FreshKept, PartsKept
<1> QED
  BY <1>3, <1>4, LoadBalance

\* The steps of start() between its waits, and an event that is not heeded.
LEMMA QuietHauls ==
  ASSUME OrchAssumption, SystemInv, LoadsTyped, LoadsTyped', NEW o \in Orchs,
         UNCHANGED <<flights, flying, proc, to_drone, to_server, jobs>>,
         \/ AwaitedDone(o) \/ StartSave(o) \/ Ignore(o)
         \/ StartSearch(o) /\ state[o] = "ENDED"
  PROVE  Hauls(o) /\ state'[o] = state[o] /\ confirmed'[o] = confirmed[o]
<1>1. tasks \in Seq(SystemItem)
  BY DEF SystemInv, MissionInv
<1>2. /\ Woken(o) \in SystemItem /\ Await(o, "SaveSession") \in SystemItem
      /\ \A k \in Kinds : /\ Bit(Woken(o), Waiting(k, o)) = 0
                          /\ Bit(Await(o, "SaveSession"), Waiting(k, o)) = 0
  <2>1. Woken(o) \in SystemItem
    BY SystemCarries DEF Carries, OwnItems
  <2>2. \A k \in Kinds : Woken(o) \notin Waiting(k, o)
    BY WaitingCarries DEF Woken, Carriers
  <2>3. \A k \in Kinds : Bit(Woken(o), Waiting(k, o)) = 0
    BY <2>2 DEF Bit
  <2>4. "SaveSession" \in Awaited /\ \E k \in Kinds : TRUE
    BY DEF Awaited, Kinds
  <2>5. Await(o, "SaveSession") \in SystemItem
    BY <2>4, OwnBits
  <2>6. \A k \in Kinds : Bit(Await(o, "SaveSession"), Waiting(k, o)) = 0
    BY <2>4, OwnBits
  <2> QED
    BY <2>1, <2>3, <2>5, <2>6
<1>3. ASSUME NEW k \in Kinds
      PROVE  Load(k, o)' <= Load(k, o)
  <2> DEFINE x == Woken(o)
             y == Await(o, "SaveSession")
  <2>1. InQueue(k, o) \in Nat
    BY DEF LoadsTyped
  <2>2. /\ x \in SystemItem /\ y \in SystemItem
        /\ Bit(x, Waiting(k, o)) = 0 /\ Bit(y, Waiting(k, o)) = 0
    BY <1>2
  <2>3. CASE AwaitedDone(o)
    <3>1. tasks' = Append(tasks, x)
      BY <2>3 DEF AwaitedDone, Woken
    <3>2. Holds(k, o, tasks, 0)
      BY <1>1, OwnWhole
    <3> HIDE DEF x
    <3>3. Holds(k, o, tasks', 0 + Bit(x, Waiting(k, o)))
      BY <2>1, <2>2, <3>1, <3>2, SaysHolds
    <3>4. Holds(k, o, tasks', 0)
      BY <2>2, <3>3
    <3> QED
      BY <3>4, HoldsHauls
  <2>4. CASE StartSave(o)
    <3>1. tasks' = Append(Tail(tasks), y) /\ tasks # <<>>
      BY <2>4 DEF StartSave, Awake
    <3>2. Holds(k, o, Tail(tasks), 0)
      BY <1>1, <3>1, OwnTail
    <3> HIDE DEF y
    <3>3. Holds(k, o, tasks', 0 + Bit(y, Waiting(k, o)))
      BY <2>1, <2>2, <3>1, <3>2, SaysHolds
    <3>4. Holds(k, o, tasks', 0)
      BY <2>2, <3>3
    <3> QED
      BY <3>4, HoldsHauls
  <2>5. CASE StartSearch(o) /\ state[o] = "ENDED"
    <3>1. tasks' = Tail(tasks) /\ tasks # <<>>
      BY <2>5 DEF StartSearch, Awake
    <3>2. Holds(k, o, tasks', 0)
      BY <1>1, <3>1, OwnTail
    <3> QED
      BY <3>2, HoldsHauls
  <2>6. CASE Ignore(o)
    <3>1. tasks' = Rest(o) /\ EventFor(o)
      BY <2>6 DEF Ignore
    <3> DEFINE b == Bit(Task, Waiting(k, o))
    <3>2. Holds(k, o, tasks', 0 - b)
      BY <1>1, <3>1, OwnRest
    <3>3. b \in {0, 1}
      BY DEF Bit
    <3> HIDE DEF b
    <3>4. Holds(k, o, tasks', 0)
      <4>1. Count(tasks', Waiting(k, o)) \in Nat
        BY <3>2, CountNat DEF Holds
      <4> QED
        BY <2>1, <3>2, <3>3, <4>1 DEF Holds
    <3> QED
      BY <3>4, HoldsHauls
  <2> QED
    BY <2>3, <2>4, <2>5, <2>6
<1>4. state'[o] = state[o] /\ confirmed'[o] = confirmed[o]
  BY DEF AwaitedDone, StartSave, Ignore, StartSearch, orchVars
<1> QED
  BY <1>3, <1>4 DEF Hauls

\* A step of the mission itself.
LEMMA FlowOwn ==
  ASSUME OrchAssumption, SystemAssumption, SystemInv, MissionTypeOK', Steady, LoadsTyped,
         LoadsTyped', NEW o \in Orchs, MissionActs(o), Flow(o)
  PROVE  Flow(o)'
<1>1. /\ MissionTypeOK
      /\ UNCHANGED <<flights, flying, proc, to_drone, to_server, jobs>>
  BY MissionLeaves DEF SystemInv, MissionInv
<1>2. CASE Turns(o)
  BY <1>1, <1>2, OwnFlow
<1>3. CASE StartMission(o)
  BY <1>2, <1>3, StartTurns
<1>4. CASE OrchestratorStep(o)
  <2>1. /\ AwaitedDone(o) \/ Handle(o)
        /\ cancelled' = IF UserCancels(o) THEN cancelled \cup {o} ELSE cancelled
    BY <1>4 DEF OrchestratorStep
  <2>2. CASE UserCancels(o)
    BY <1>2, <2>2, DecisionTurns
  <2>3. CASE ~UserCancels(o)
    <3>1. o \in cancelled' => o \in cancelled
      BY <2>1, <2>3
    <3>2. CASE \/ AwaitedDone(o) \/ StartSave(o) \/ Ignore(o)
               \/ StartSearch(o) /\ state[o] = "ENDED"
      <4>1. Hauls(o) /\ state'[o] = state[o] /\ confirmed'[o] = confirmed[o]
        BY <1>1, <3>2, QuietHauls
      <4> QED
        BY <1>1, <3>1, <4>1, FlowKept
    <3>3. CASE StartSearch(o) /\ state[o] # "ENDED"
      BY <1>2, <3>1, <3>3, SearchTurns
    <3>4. CASE StartFirstPhoto(o)
      BY <3>4 DEF StartFirstPhoto, Awake, Steady
    <3>5. CASE HandlePhotoAndTelemetry(o)
      BY <1>2, <3>1, <3>5, PhotoTurns
    <3>6. CASE HandleVlmAnalysis(o)
      BY <1>2, <3>1, <3>6, AnalysisTurns
    <3>7. CASE UserConfirms(o) \/ UserWarns(o)
      BY <1>2, <3>1, <3>7, DecisionTurns
    <3>8. CASE HandleMoveStarted(o) \/ MoveSucceeded(o) \/ MoveFailed(o)
      BY <1>2, <3>1, <3>8, MoveTurns
    <3>9. CASE HandleDroneConnectionLost(o) \/ HandleDroneReconnected(o)
      <4>1. /\ EventFor(o) /\ Concerns(o, Task)
            /\ Task.type \in {"DroneConnectionLost", "DroneReconnected"}
        BY <3>9 DEF HandleDroneConnectionLost, HandleDroneReconnected, Handles
      <4> QED
        BY <4>1, NothingComesBack
    <3>10. CASE HandleFatal(o)
      BY <1>2, <3>1, <3>10, FatalTurns
    <3> QED
      BY <2>1, <2>3, <3>2, <3>3, <3>4, <3>5, <3>6, <3>7, <3>8, <3>9, <3>10 DEF Handle
  <2> QED
    BY <2>2, <2>3
<1> QED
  BY <1>3, <1>4 DEF MissionActs

LEMMA FlowNext ==
  ASSUME NothingLost, OwnDrones, OwnMissions, SystemInv, FlowInv, [SystemNext]_systemVars
  PROVE  FlowInv'
<1> USE OrchAssumption, SystemAssumption
<1>1. SystemInv' /\ Steady' /\ Steady
  BY SystemKept, SteadyNext DEF FlowInv
<1>2. LoadsTyped /\ LoadsTyped' /\ MissionTypeOK'
  <2>1. MissionTypeOK'
    BY <1>1 DEF SystemInv, MissionInv
  <2> QED
    BY <1>1, <2>1, LoadsAre, LoadsWillBe
<1>3. CASE \E p \in Orchs : MissionActs(p)
  <2>1. PICK p \in Orchs : MissionActs(p)
    BY <1>3
  <2>2. \A o \in Orchs : Flow(o)
    BY DEF FlowInv
  <2>3. Flow(p)'
    BY <1>1, <1>2, <2>1, <2>2, FlowOwn
  <2>4. \A o \in Orchs : o # p => Flow(o)'
    BY <1>2, <2>1, <2>2, FlowOther
  <2> QED
    BY <1>1, <2>3, <2>4 DEF FlowInv
<1>4. CASE ~\E p \in Orchs : MissionActs(p)
  <2>1. \A o \in Orchs : Flow(o)'
    BY <1>1, <1>4, FlowOutside
  <2> QED
    BY <1>1, <2>1 DEF FlowInv
<1> QED
  BY <1>3, <1>4

LEMMA FlowStart ==
  ASSUME SystemInit
  PROVE  FlowInv
<1> USE OrchAssumption
<1>1. SystemInv /\ Steady /\ LoadsTyped
  BY SystemStart, SteadyStart, LoadsAre
<1>2. /\ tasks = <<>> /\ state = [o \in Orchs |-> "NEW"] /\ cancelled = {}
      /\ confirmed = [o \in Orchs |-> 0] /\ jobs = [m \in Missions |-> <<>>]
      /\ proc = [d \in Drones |-> NoConn]
      /\ flying = [d \in Drones |-> 0] /\ flights = [d \in Drones |-> 0]
  BY DEF SystemInit, Init, ClientInit
<1>3. ASSUME NEW o \in Orchs, NEW k \in Kinds
      PROVE  Load(k, o) <= Allowed(k, o)
  <2>1. DroneOf[o] \in Drones /\ MissionOf[o] \in Missions
    BY <1>1 DEF LoadsTyped
  <2>2. \A S : Count(<<>>, S) = 0
    BY CountOne
  <2>3. Inbox(DroneOf[o]) = <<>> /\ Outbox(DroneOf[o]) = <<>> /\ jobs[MissionOf[o]] = <<>>
    BY <1>2, <2>1 DEF Inbox, Outbox
  <2>4. InQueue(k, o) = 0 /\ InCommands(k, o) = 0 /\ InReports(k, o) = 0 /\ InJobs(k, o) = 0
    BY <1>2, <2>2, <2>3 DEF InQueue, InCommands, InReports, InJobs
  <2>5. InFlight(k, o) = 0
    BY <1>2, <2>1 DEF InFlight
  <2>6. Load(k, o) = 0
    BY <2>4, <2>5 DEF Load
  <2>7. Allowed(k, o) \in Nat
    BY <1>2 DEF Allowed
  <2> QED
    BY <2>6, <2>7
<1> QED
  BY <1>1, <1>2, <1>3 DEF FlowInv, Flow

-----------------------------------------------------------------------------
(* What the loads say of the properties *)

LEMMA CardinalityNone ==
  ASSUME NEW S, S = {}
  PROVE  Cardinality(S) = 0
  BY FS_EmptySet

\* An empty load is nothing anywhere.
Nothing(k, o) ==
  /\ \A i \in 1..Len(tasks) : tasks[i] \notin Waiting(k, o)
  /\ \A i \in 1..Len(Inbox(DroneOf[o])) : Inbox(DroneOf[o])[i] \notin Commanded(k)
  /\ \A i \in 1..Len(Outbox(DroneOf[o])) : Outbox(DroneOf[o])[i] \notin Returned(k, o)
  /\ \A i \in 1..Len(jobs[MissionOf[o]]) : jobs[MissionOf[o]][i] \notin InChat(k, o)
  /\ InFlight(k, o) = 0

LEMMA NoLoad ==
  ASSUME SystemInv, FlowInv, NEW o \in Orchs, NEW k \in Kinds,
         Matters(k, o), Allowed(k, o) = 0
  PROVE  Nothing(k, o)
<1>1. LoadsTyped
  BY LoadsAre DEF FlowInv
<1>2. Load(k, o) = 0
  <2>1. Load(k, o) <= Allowed(k, o)
    BY DEF FlowInv, Flow
  <2> QED
    BY <1>1, <2>1 DEF LoadsTyped
<1>3. /\ tasks \in Seq(SystemItem) /\ jobs[MissionOf[o]] \in Seq(ChatJob)
      /\ Outbox(DroneOf[o]) \in Seq(Report) /\ Inbox(DroneOf[o]) \in Seq(Request)
  BY <1>1 DEF LoadsTyped, SystemInv, MissionInv, FlowInv, Steady
<1>4. /\ InQueue(k, o) \in Nat /\ InCommands(k, o) \in Nat /\ InReports(k, o) \in Nat
      /\ InJobs(k, o) \in Nat /\ InFlight(k, o) \in Nat
  BY <1>1 DEF LoadsTyped
<1>5. /\ InQueue(k, o) = 0 /\ InCommands(k, o) = 0 /\ InReports(k, o) = 0
      /\ InJobs(k, o) = 0 /\ InFlight(k, o) = 0
  BY <1>2, <1>4, NoneOfMany DEF Load
<1>6. \A i \in 1..Len(tasks) : tasks[i] \notin Waiting(k, o)
  BY <1>3, <1>5, CountNat DEF InQueue
<1>7. \A i \in 1..Len(Inbox(DroneOf[o])) : Inbox(DroneOf[o])[i] \notin Commanded(k)
  BY <1>3, <1>5, CountNat DEF InCommands
<1>8. \A i \in 1..Len(Outbox(DroneOf[o])) : Outbox(DroneOf[o])[i] \notin Returned(k, o)
  BY <1>3, <1>5, CountNat DEF InReports
<1>9. \A i \in 1..Len(jobs[MissionOf[o]]) : jobs[MissionOf[o]][i] \notin InChat(k, o)
  BY <1>3, <1>5, CountNat DEF InJobs
<1> QED
  BY <1>5, <1>6, <1>7, <1>8, <1>9 DEF Nothing

LEMMA NoMoves ==
  ASSUME OwnDrones, SystemInv, Steady, NEW o \in Orchs, NEW k \in Kinds, k = "move",
         Nothing(k, o)
  PROVE  MovesUnderWay(DroneOf[o]) = 0
<1>1. /\ tasks \in Seq(SystemItem) /\ to_drone \in [Conns -> Seq(Request)]
      /\ proc \in [Drones -> Conns \cup {NoConn}] /\ DroneOf[o] \in Drones
  BY OrchAssumption
  DEF OrchAssumption, SystemInv, MissionInv, LinkInv, LinkTypeOK, Steady
<1> DEFINE d == DroneOf[o]
           A == {i \in 1..Len(tasks) : /\ tasks[i].type = "ExecuteMove"
                                       /\ DroneOf[tasks[i].by] = d}
<1>2. A = {}
  <2> SUFFICES ASSUME NEW i \in 1..Len(tasks), tasks[i].type = "ExecuteMove",
                      DroneOf[tasks[i].by] = d
               PROVE  FALSE
    OBVIOUS
  <2>1. tasks[i] \in SystemItem
    BY <1>1
  <2>2. tasks[i].by \in Orchs
    BY <2>1 DEF SystemItem, Items, Events, SimpleCommand, Flight, Question, Analyses, WakeUp,
                Awaited, DroneNotice, ChatNotice
  <2>3. tasks[i].by = o
    BY <2>2 DEF OwnDrones
  <2>4. tasks[i] \in Waiting(k, o)
    BY <2>1, <2>3, WaitingIs
  <2> QED
    BY <2>4 DEF Nothing
<1>3. flying[d] = 0
  BY DEF Nothing, InFlight
<1>4. (IF proc[d] = NoConn THEN 0 ELSE Of(to_drone[proc[d]], "MOVE")) = 0
  <2> SUFFICES ASSUME proc[d] # NoConn
               PROVE  Of(to_drone[proc[d]], "MOVE") = 0
    OBVIOUS
  <2> DEFINE q == to_drone[proc[d]]
  <2>1. q \in Seq(Request) /\ q = Inbox(DroneOf[o])
    BY <1>1 DEF Inbox
  <2>2. \A i \in 1..Len(q) : q[i] \notin Commanded(k) /\ q[i] \in Request
    BY <2>1 DEF Nothing
  <2>3. \A x \in Request : x.type = "MOVE" => x \in Commanded(k)
    BY DEF Request, Commanded, AuthAck, PhotoRequest, MoveRequest
  <2> HIDE DEF q
  <2>4. {i \in 1..Len(q) : q[i].type = "MOVE"} = {}
    BY <2>2, <2>3
  <2>5. Of(q, "MOVE") = 0
    BY <2>4, CardinalityNone DEF Of
  <2> QED
    BY <2>5 DEF q
<1>5. Cardinality(A) = 0
  BY <1>2, CardinalityNone
<1>6. MovesUnderWay(d) = Cardinality(A) + flying[d]
                           + (IF proc[d] = NoConn THEN 0 ELSE Of(to_drone[proc[d]], "MOVE"))
  BY DEF MovesUnderWay
<1> HIDE DEF A
<1>7. MovesUnderWay(d) = 0
  BY <1>3, <1>4, <1>5, <1>6
<1> QED
  BY <1>7

LEMMA NothingUnheard ==
  ASSUME SystemInv, NEW o \in Orchs, NEW k \in Kinds, k = "move", Nothing(k, o),
         NEW j \in Kinds, j = "ack", Nothing(j, o)
  PROVE  Unheard(o) = 0
<1>1. /\ tasks \in Seq(SystemItem) /\ to_server \in [Conns -> Seq(Report)]
      /\ proc \in [Drones -> Conns \cup {NoConn}] /\ DroneOf[o] \in Drones
  BY OrchAssumption
  DEF OrchAssumption, SystemInv, MissionInv, LinkInv, LinkTypeOK
<1> DEFINE c == proc[DroneOf[o]]
           A == {i \in 1..Len(tasks) : /\ tasks[i].type \in {"MoveStarted", "MoveExecuted"}
                                       /\ o \in tasks[i].to /\ Concerns(o, tasks[i])}
<1>2. A = {}
  <2> SUFFICES ASSUME NEW i \in 1..Len(tasks), tasks[i].type \in {"MoveStarted", "MoveExecuted"},
                      o \in tasks[i].to, Concerns(o, tasks[i])
               PROVE  FALSE
    OBVIOUS
  <2>1. tasks[i] \in SystemItem
    BY <1>1
  <2>2. CASE tasks[i].type = "MoveStarted"
    <3>1. tasks[i] \in Waiting(j, o)
      BY <2>1, <2>2, WaitingIs
    <3> QED
      BY <3>1 DEF Nothing
  <2>3. CASE tasks[i].type = "MoveExecuted"
    <3>1. tasks[i] \in Waiting(k, o)
      BY <2>1, <2>3, WaitingIs
    <3> QED
      BY <3>1 DEF Nothing
  <2> QED
    BY <2>2, <2>3
<1>3. ASSUME c # NoConn
      PROVE  Of(to_server[c], "ACK_MOVE") = 0 /\ Of(to_server[c], "MOVE_EXECUTED") = 0
  <2> DEFINE q == to_server[c]
  <2>1. q \in Seq(Report) /\ q = Outbox(DroneOf[o])
    BY <1>1, <1>3 DEF Outbox
  <2>2. \A i \in 1..Len(q) :
          q[i] \notin Returned(k, o) /\ q[i] \notin Returned(j, o) /\ q[i] \in Report
    BY <2>1 DEF Nothing
  <2>3. \A x \in Report : /\ x.type = "ACK_MOVE" => x \in Returned(j, o)
                          /\ x.type = "MOVE_EXECUTED" => x \in Returned(k, o)
    BY DEF Report, Returned, Auth, MoveAck, MoveReport, PhotoReport
  <2> HIDE DEF q
  <2>4. /\ {i \in 1..Len(q) : q[i].type = "ACK_MOVE"} = {}
        /\ {i \in 1..Len(q) : q[i].type = "MOVE_EXECUTED"} = {}
    BY <2>2, <2>3
  <2>5. Of(q, "ACK_MOVE") = 0 /\ Of(q, "MOVE_EXECUTED") = 0
    BY <2>4, CardinalityNone DEF Of
  <2> QED
    BY <2>5 DEF q
<1>4. Cardinality(A) = 0
  BY <1>2, CardinalityNone
<1>5. Unheard(o) = Cardinality(A) + (IF c = NoConn THEN 0 ELSE Of(to_server[c], "ACK_MOVE")
                                                          + Of(to_server[c], "MOVE_EXECUTED"))
  BY DEF Unheard
<1> HIDE DEF A, c
<1> QED
  BY <1>3, <1>4, <1>5

LEMMA FlowInvariant ==
  ASSUME NothingLost, OwnDrones, OwnMissions
  PROVE  SystemSpec => [](SystemInv /\ FlowInv)
<1>1. SystemInit => SystemInv /\ FlowInv
  BY SystemStart, FlowStart
<1>2. SystemInv /\ FlowInv /\ [SystemNext]_systemVars => SystemInv' /\ FlowInv'
  BY SystemKept, FlowNext
<1> QED
  BY <1>1, <1>2, PTL DEF SystemSpec

(* While no connection is lost, each drone flies one mission and no id is    *)
(* used by two: a mission that waits for a photo, for the VLM or for the     *)
(* operator has no move queued, sent or flown and no news of one coming.     *)
THEOREM DroneWaits ==
  ASSUME NothingLost, OwnDrones, OwnMissions
  PROVE  SystemSpec => []DroneStandsStill
<1>1. ASSUME SystemInv, FlowInv
      PROVE  DroneStandsStill
  <2> SUFFICES ASSUME NEW o \in Orchs,
                      state[o] \in {"IDLE", "WAITING_FOR_DRONE", "WAITING_FOR_VLM",
                                    "WAITING_FOR_USER"}
               PROVE  MovesUnderWay(DroneOf[o]) + Unheard(o) = 0
    BY DEF DroneStandsStill
  <2>1. ASSUME NEW k \in Kinds, k \in {"move", "ack"}
        PROVE  Nothing(k, o)
    <3>1. Matters(k, o) /\ Allowed(k, o) = 0
      BY <2>1 DEF Matters, Allowed
    <3> QED
      BY <1>1, <3>1, NoLoad
  <2>2. "move" \in Kinds /\ "ack" \in Kinds
    BY DEF Kinds
  <2>3. MovesUnderWay(DroneOf[o]) = 0
    BY <1>1, <2>1, <2>2, NoMoves DEF FlowInv
  <2>4. Unheard(o) = 0
    BY <1>1, <2>1, <2>2, NothingUnheard
  <2> QED
    BY <2>3, <2>4
<1>2. SystemInv /\ FlowInv => DroneStandsStill
  BY <1>1
<1> QED
  BY <1>2, FlowInvariant, PTL

(* Under the same conditions the VLM is never asked about a photo taken      *)
(* before the last move.                                                     *)
THEOREM PhotosAreCurrent ==
  ASSUME NothingLost, OwnDrones, OwnMissions
  PROVE  SystemSpec => []PhotoIsCurrent
<1>1. ASSUME SystemInv, FlowInv
      PROVE  PhotoIsCurrent
  <2> SUFFICES ASSUME NEW o \in Subscribed
               PROVE  /\ \A i \in 1..Len(tasks) :
                           tasks[i].type = "AnalyzePhoto" /\ tasks[i].by = o
                             => tasks[i].photo \in {NoPhoto, flights[DroneOf[o]]}
                      /\ \A i \in 1..Len(jobs[MissionOf[o]]) :
                           jobs[MissionOf[o]][i].type = "analysis"
                             => jobs[MissionOf[o]][i].photo \in {NoPhoto, flights[DroneOf[o]]}
    BY DEF PhotoIsCurrent
  <2>1. /\ o \in Orchs /\ state[o] # "ENDED" /\ tasks \in Seq(SystemItem)
        /\ jobs \in [Missions -> Seq(ChatJob)] /\ MissionOf[o] \in Missions
    BY <1>1, OrchAssumption
    DEF OrchAssumption, Subscribed, SystemInv, MissionInv, FlowInv, Steady
  <2>2. ASSUME NEW k \in Kinds, k = "stale"
        PROVE  /\ \A i \in 1..Len(tasks) :
                    tasks[i].type = "AnalyzePhoto" /\ tasks[i].by = o
                      => tasks[i].photo \in Fresh(o)
               /\ \A i \in 1..Len(jobs[MissionOf[o]]) :
                    jobs[MissionOf[o]][i].type = "analysis"
                      => jobs[MissionOf[o]][i].photo \in Fresh(o)
    <3>1. Matters(k, o) /\ Allowed(k, o) = 0
      BY <2>1, <2>2 DEF Matters, Allowed
    <3>2. Nothing(k, o)
      BY <1>1, <2>1, <3>1, NoLoad
    <3>3. ASSUME NEW i \in 1..Len(tasks), tasks[i].type = "AnalyzePhoto", tasks[i].by = o,
                 tasks[i].photo \notin Fresh(o)
          PROVE  FALSE
      <4>1. tasks[i] \in SystemItem
        BY <2>1
      <4>2. tasks[i] \in Waiting(k, o)
        BY <2>1, <2>2, <3>3, <4>1, WaitingIs
      <4> QED
        BY <3>2, <4>2 DEF Nothing
    <3>4. ASSUME NEW i \in 1..Len(jobs[MissionOf[o]]), jobs[MissionOf[o]][i].type = "analysis",
                 jobs[MissionOf[o]][i].photo \notin Fresh(o)
          PROVE  FALSE
      <4> DEFINE x == jobs[MissionOf[o]][i]
      <4>1. x \in ChatJob
        BY <2>1
      <4>2. x \in [type : {"analysis"}, photo : Int \ Fresh(o)]
        BY <3>4, <4>1 DEF ChatJob
      <4>3. x \in InChat(k, o)
        BY <2>2, <4>2 DEF InChat
      <4> QED
        BY <3>2, <4>3 DEF Nothing
    <3> QED
      BY <3>3, <3>4
  <2>3. "stale" \in Kinds
    BY DEF Kinds
  <2> QED
    BY <2>2, <2>3 DEF Fresh
<1>2. SystemInv /\ FlowInv => PhotoIsCurrent
  BY <1>1
<1> QED
  BY <1>2, FlowInvariant, PTL

(* Under the same conditions, and if no flight that was made is reported as  *)
(* failed: a drone makes at most one flight for each confirmation.           *)
THEOREM FlightsAreApproved ==
  ASSUME NothingLost, OwnDrones, OwnMissions, <<TRUE, FALSE>> \notin MoveOutcomes
  PROVE  SystemSpec => []OneFlightPerApproval
<1>1. ASSUME SystemInv, FlowInv
      PROVE  OneFlightPerApproval
  <2>1. ASSUME NEW o \in Orchs, NEW k \in Kinds, k = "again"
        PROVE  flights[DroneOf[o]] + flying[DroneOf[o]] <= confirmed[o]
    <3>1. Matters(k, o) /\ Allowed(k, o) = confirmed[o]
      BY <2>1 DEF Matters, Allowed
    <3>2. Load(k, o) <= confirmed[o]
      BY <1>1, <3>1 DEF FlowInv, Flow
    <3>3. /\ InQueue(k, o) \in Nat /\ InCommands(k, o) \in Nat /\ InReports(k, o) \in Nat
          /\ InJobs(k, o) \in Nat /\ InFlight(k, o) \in Nat
      BY <1>1, LoadsAre DEF FlowInv, LoadsTyped
    <3>4. confirmed[o] \in Nat /\ flying[DroneOf[o]] \in Nat /\ flights[DroneOf[o]] \in Nat
      <4>1. DroneOf[o] \in Drones
        BY OrchAssumption DEF OrchAssumption
      <4> QED
        BY <1>1, <4>1 DEF SystemInv, MissionInv, MissionTypeOK, LinkInv, LinkTypeOK
    <3>5. InFlight(k, o) = flying[DroneOf[o]] + flights[DroneOf[o]]
      BY <2>1 DEF InFlight
    <3>6. InFlight(k, o) <= confirmed[o]
      BY <3>2, <3>3, <3>4 DEF Load
    <3> QED
      BY <3>4, <3>5, <3>6
  <2>2. "again" \in Kinds
    BY DEF Kinds
  <2> QED
    BY <2>1, <2>2 DEF OneFlightPerApproval
<1>2. SystemInv /\ FlowInv => OneFlightPerApproval
  BY <1>1
<1> QED
  BY <1>2, FlowInvariant, PTL

LEMMA CancelledNext ==
  ASSUME cancelled \subseteq Orchs, [SystemNext]_systemVars
  PROVE  cancelled' \subseteq Orchs
<1>1. CASE \E o \in Orchs : OrchestratorStep(o)
  BY <1>1 DEF OrchestratorStep
<1>2. CASE ~\E o \in Orchs : OrchestratorStep(o)
  <2>1. UNCHANGED cancelled
    BY <1>2
    DEF SystemNext, LoopStep, StartMission, ChatCommand, OperatorCommand, DroneCommand,
        ChatStep, OperatorStep, ServerStep, DroneStep, RestartDrone, ConnectionLost,
        historyVars, systemVars
  <2> QED
    BY <2>1
<1> QED
  BY <1>1, <1>2

(* Under the same conditions: a drone whose mission the operator has         *)
(* cancelled has no move queued, sent or flown, then or ever after.          *)
THEOREM CancelEndsMoves ==
  ASSUME NothingLost, OwnDrones, OwnMissions
  PROVE  SystemSpec => []CancelIsFinal
<1>1. SystemInit => cancelled \subseteq Orchs
  BY DEF SystemInit
<1>2. cancelled \subseteq Orchs /\ [SystemNext]_systemVars => (cancelled \subseteq Orchs)'
  BY CancelledNext
<1>3. ASSUME SystemInv, FlowInv, cancelled \subseteq Orchs
      PROVE  CancelIsFinal
  <2> SUFFICES ASSUME NEW o \in cancelled
               PROVE  MovesUnderWay(DroneOf[o]) = 0
    BY DEF CancelIsFinal
  <2>1. o \in Orchs /\ state[o] = "ENDED"
    BY <1>3 DEF FlowInv, Flow
  <2>2. ASSUME NEW k \in Kinds, k = "move"
        PROVE  MovesUnderWay(DroneOf[o]) = 0
    <3>1. Matters(k, o) /\ Allowed(k, o) = 0
      BY <2>1, <2>2 DEF Matters, Allowed
    <3>2. Nothing(k, o)
      BY <1>3, <2>1, <3>1, NoLoad
    <3> QED
      BY <1>3, <2>1, <2>2, <3>2, NoMoves DEF FlowInv
  <2>3. "move" \in Kinds
    BY DEF Kinds
  <2> QED
    BY <2>2, <2>3
<1>4. SystemInv /\ FlowInv /\ cancelled \subseteq Orchs => CancelIsFinal
  BY <1>3
<1> QED
  BY <1>1, <1>2, <1>4, FlowInvariant, PTL DEF SystemSpec
=============================================================================
