\* No connection is lost: warnings, failed moves and errors of the chat.
SPECIFICATION FairSystem
CONSTANTS
  Orchs <- OneOrch
  Drones <- OneDrone
  Missions <- OneMission
  DroneOf <- SameDrone
  MissionOf <- SameMission
  Moves = {mv1, mv2}
  NoMove = NoMove
  Photos = {}
  Glimpses = {1, 3}
  VideoEnabled = FALSE
  MaxTasks = 0
  Conns = {1}
  NoDrone = NoDrone
  StoreFails = FALSE
  MoveOutcomes <- FliesOrFails
  CaptureFails = TRUE
  UIs = {"cli"}
  ChatFails = TRUE
  Losses = {}
  MaxLosses = 0
  MaxWarnings = 2
  Prompt = FALSE
INVARIANTS DroneStandsStill PhotoIsCurrent OneFlightPerApproval CountedMovesAreFlown ApprovedIsProposed CancelIsFinal
PROPERTY MissionEnds
CHECK_DEADLOCK FALSE
