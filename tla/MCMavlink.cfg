\* The dispatcher and one move, with three of the methods of moving.
SPECIFICATION MavSpec
CONSTANTS
  Dispatcher = "main"
  Movers <- OneMover
  Methods <- SomeMethods
  Setpoints = 2
  LogFails = TRUE
  MaxConnections = 3
  MaxModes = 1
INVARIANTS ClosedIsForgotten ReceiversArePaid CacheIsFed ModeStopsMove
PROPERTY ThreadsReturn
