\* Two missions on one drone, a browser, every fault once.
SPECIFICATION RecordingsSpec
CONSTANTS
  Drones <- OneDrone
  CameraFails = TRUE
  MaxDrainAttempts = 64
  Orchs <- TwoMissions
  DroneOf <- SameDrone
  Browsers <- OneBrowser
  NoCall = NoCall
  Timeouts = TRUE
  Losses = {"break", "shutdown"}
  MaxLosses = 1
INVARIANTS RecordingsTypeOK RecordingsAreFinalized WaitersAreRegistered CountIsOwners NoRecordingLeftBehind
PROPERTY CallsReturn
CHECK_DEADLOCK FALSE
