\* Two runs of one id, slow saves and answers, every failure.
SPECIFICATION VlmSpec
CONSTANTS
  Orchs <- TwoRuns
  Drones <- OneDrone
  Missions <- OneMission
  DroneOf <- SameDrone
  MissionOf <- SameMission
  Moves = {mv1}
  NoMove = NoMove
  Photos = {p1}
  Glimpses = {2}
  PromptOk = {TRUE}
  VideoEnabled = FALSE
  MaxTasks = 1
  Nobody = Nobody
  Backends = {"openai", "gemini"}
  Failures = {"session", "photo", "model", "answer", "storage"}
  MaxMessages = 4
  Patient = TRUE
INVARIANTS SessionIsOwned OneQuestionAtATime SavedIsComplete
PROPERTY LocksAreReleased
CHECK_DEADLOCK FALSE
