\* One mission and a browser; nothing is lost and nobody is late.
SPECIFICATION RecordingsSpec
CONSTANTS
  Drones <- OneDrone
  CameraFails = FALSE
  MaxDrainAttempts = 64
  Orchs <- OneMission
  DroneOf <- SameDrone
  Browsers <- OneBrowser
  NoCall = NoCall
  Timeouts = FALSE
  Losses = {}
  MaxLosses = 0
INVARIANT PullSucceeds
CHECK_DEADLOCK FALSE
