\* One connection is lost, in every way and at any time, and the drone comes back;
\* photos are not taken or not stored, and moves are reported wrongly.
SPECIFICATION FairSystem
CONSTANTS
  Orchs <- OneOrch
  Drones <- OneDrone
  Missions <- OneMission
  DroneOf <- SameDrone
  MissionOf <- SameMission
  Moves = {mv1}
  NoMove = NoMove
  Photos = {}
  Glimpses = {3}
  VideoEnabled = FALSE
  MaxTasks = 0
  Conns = {1, 2}
  NoDrone = NoDrone
  StoreFails = TRUE
  MoveOutcomes <- AnyOutcome
  CaptureFails = TRUE
  UIs = {"cli"}
  ChatFails = FALSE
  Losses = {"break", "shutdown"}
  MaxLosses = 1
  MaxWarnings = 0
  Prompt = FALSE
INVARIANTS BridgeTypeOK ServedIsRegistered CountedMovesAreFlown PauseIsNoticed
PROPERTY PauseEnds
CHECK_DEADLOCK FALSE
