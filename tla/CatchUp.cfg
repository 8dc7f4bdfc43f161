\* Four messages against a limit of three, one dropped event, two stops.
SPECIFICATION CatchUpFairSpec
CONSTANTS
  Limit = 3
  MaxPosted = 4
  MaxDropped = 1
  MaxStops = 2
INVARIANTS CatchUpTypeOK CheckpointIsNewest OnlyLiveEventsOvertake NothingLeftBehind
PROPERTY EventuallyCovered
CHECK_DEADLOCK FALSE
