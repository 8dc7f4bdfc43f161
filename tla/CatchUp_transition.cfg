\* No failure and no stop: the transition alone.
SPECIFICATION CatchUpSpec
CONSTANTS
  Limit = 3
  MaxPosted = 3
  MaxDropped = 0
  MaxStops = 0
INVARIANT TransitionCovered
CHECK_DEADLOCK FALSE
