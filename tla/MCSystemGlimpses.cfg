\* One warning of the operator, and nothing fails.
SPECIFICATION SystemSpec
CONSTANTS
  Orchs <- OneOrch
  Drones <- OneDrone
  Missions <- OneMission
  DroneOf <- SameDrone
  MissionOf <- SameMission
  Moves = {mv1}
  NoMove = NoMove
  Photos = {}
  Glimpses = {2}
  VideoEnabled = FALSE
  MaxTasks = 0
  Conns = {1}
  NoDrone = NoDrone
  StoreFails = FALSE
  MoveOutcomes <- Flies
  CaptureFails = FALSE
  UIs = {"cli"}
  ChatFails = FALSE
  Losses = {}
  MaxLosses = 0
  MaxWarnings = 1
  Prompt = FALSE
INVARIANT GlimpsesAreTheLimit
CHECK_DEADLOCK FALSE
