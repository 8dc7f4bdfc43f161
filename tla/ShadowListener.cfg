\* A coin message that is delivered twice and a canonical message that may have
\* the row of an older version or of a run that crashed; a queue of one, two runs
\* that admit two events each.  After the last run the system stops.
SPECIFICATION Spec
CONSTANTS
  e1 = e1
  e2 = e2
  e3 = e3
  c = c
  p = p
  Events = {e1, e2, e3}
  Messages = {c, p}
  MessageOf <- Origin
  Coin = {c}
  Earlier = {p}
  MaxMessages = 2
  QueueMax = 1
  MaxRuns = 2
INVARIANTS TypeOK OutcomesMatchEvents CleanRunIsComplete
PROPERTY RunEnds
CHECK_DEADLOCK FALSE
