\* The drone's process is ended by its operator.
SPECIFICATION SystemSpec
CONSTANTS
  Orchs <- OneOrch
  Drones <- OneDrone
  Missions <- OneMission
  DroneOf <- SameDrone
  MissionOf <- SameMission
  Moves = {mv1}
  NoMove = NoMove
  Photos = {}
  Glimpses = {3}
  VideoEnabled = FALSE
  MaxTasks = 0
  Conns = {1, 2}
  NoDrone = NoDrone
  StoreFails = FALSE
  MoveOutcomes <- Flies
  CaptureFails = FALSE
  UIs = {"cli"}
  ChatFails = FALSE
  Losses = {"shutdown"}
  MaxLosses = 1
  MaxWarnings = 0
  Prompt = TRUE
PROPERTY NormalCloseIsAnnounced
CHECK_DEADLOCK FALSE
