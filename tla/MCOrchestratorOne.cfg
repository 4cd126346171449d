\* One mission, every event at any time.
SPECIFICATION Spec
CONSTANTS
  Orchs <- OneOrch
  Drones <- OneDrone
  Missions <- OneMission
  DroneOf <- SameDrone
  MissionOf <- SameMission
  Moves = {mv1, mv2}
  NoMove = NoMove
  Photos = {p1}
  Glimpses = {0, 1, 2, 3}
  VideoEnabled = TRUE
  MaxTasks = 2
INVARIANTS TypeOK MoveBudget MovesAccounted PauseResumable OneFarewell
PROPERTIES NoFlightAfterEnd KeepsPromise
CHECK_DEADLOCK FALSE
