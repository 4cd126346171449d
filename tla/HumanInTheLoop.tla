----------------------------- MODULE HumanInTheLoop -----------------------------
(***************************************************************************)
(* What a mission promises the operator, without queue, pauses, retries    *)
(* and network: it looks at photos, asks about one move at a time, orders  *)
(* the drone to fly the move the operator has approved last and no other,  *)
(* counts it once, asks no more often than the budget allows, and orders   *)
(* nothing after its end.  SearchOrchestrator implements it (KeepsPromise  *)
(* there).                                                                 *)
(***************************************************************************)
EXTENDS Integers

CONSTANTS
  Missions,
  Moves,
  NoMove,   \* before the first approval
  Budgets   \* moves a mission may be allowed

VARIABLES
  stage,
  approved,  \* the move approved last
  made,      \* moves counted
  budget,    \* moves the mission may ask for
  orders     \* moves ordered from the drone that it has not been sent yet

promiseVars == <<stage, approved, made, budget, orders>>

Init ==
  /\ stage = [m \in Missions |-> "new"]
  /\ approved = [m \in Missions |-> NoMove]
  /\ made = [m \in Missions |-> 0]
  /\ budget = [m \in Missions |-> 0]
  /\ orders = [m \in Missions |-> {}]

Enter(m, s) == stage' = [stage EXCEPT ![m] = s]
Order(m, move) == orders' = [orders EXCEPT ![m] = @ \cup {move}]

Begin(m) ==
  /\ stage[m] = "new"
  /\ Enter(m, "looking") \/ Enter(m, "over")
  /\ \E b \in Budgets : budget' = [budget EXCEPT ![m] = b]
  /\ UNCHANGED <<approved, made, orders>>

Ask(m) ==
  /\ stage[m] = "looking"
  /\ made[m] < budget[m]
  /\ Enter(m, "asking")
  /\ UNCHANGED <<approved, made, budget, orders>>

Decline(m) ==
  /\ stage[m] = "asking"
  /\ Enter(m, "looking")
  /\ UNCHANGED <<approved, made, budget, orders>>

Approve(m) ==
  /\ stage[m] = "asking"
  /\ Enter(m, "moving")
  /\ \E move \in Moves : /\ approved' = [approved EXCEPT ![m] = move]
                         /\ Order(m, move)
  /\ UNCHANGED <<made, budget>>

\* After a failure or a lost connection.
OrderAgain(m) ==
  /\ stage[m] = "moving"
  /\ Order(m, approved[m])
  /\ UNCHANGED <<stage, approved, made, budget>>

Arrive(m) ==
  /\ stage[m] = "moving"
  /\ Enter(m, "looking")
  /\ made' = [made EXCEPT ![m] = @ + 1]
  /\ UNCHANGED <<approved, budget, orders>>

Finish(m) ==
  /\ stage[m] # "over"
  /\ Enter(m, "over")
  /\ UNCHANGED <<approved, made, budget, orders>>

\* Orders leave for the drone at any stage.
Send(m) ==
  /\ \E left \in SUBSET orders[m] : orders' = [orders EXCEPT ![m] = left]
  /\ UNCHANGED <<stage, approved, made, budget>>

Next ==
  \E m \in Missions :
    \/ Begin(m) \/ Ask(m) \/ Decline(m) \/ Approve(m) \/ OrderAgain(m)
    \/ Arrive(m) \/ Finish(m) \/ Send(m)

Spec == Init /\ [][Next]_promiseVars
===============================================================================
