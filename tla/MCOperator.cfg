\* Two runs of one mission id, the CLI and one browser.
SPECIFICATION OperatorSpec
CONSTANTS
  Orchs <- TwoRuns
  Drones <- OneDrone
  Missions <- OneMission
  DroneOf <- SameDrone
  MissionOf <- SameMission
  Moves = {mv1, mv2}
  NoMove = NoMove
  Photos = {p1}
  Glimpses = {2}
  PromptOk = {TRUE}
  VideoEnabled = FALSE
  MaxTasks = 1
  Browsers <- OneBrowser
  Nothing = Nothing
  MaxLag = 1
SYMMETRY Symmetric
INVARIANTS OneLivePerMission RunsAreSeparate IdIsReleased QuestionIsHeld ApprovedIsAsked PagesCatchUp
CHECK_DEADLOCK FALSE
