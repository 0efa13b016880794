SPECIFICATION Spec
CONSTANTS
  Lookback = 1
  DateTimeTick = 3
  MaxTime = 3
  MaxEvents = 2
  MaxRestarts = 1
  MaxTouches = 1
INVARIANTS TypeOK AccountedFor EnsuredMeansRunning
PROPERTIES FetchedOnce
CHECK_DEADLOCK FALSE
