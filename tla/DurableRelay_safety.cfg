\* Two messages, two workers, one place in the queue, one crash.
SPECIFICATION Spec
CONSTANTS
  Messages = {1, 2}
  LegacyMessages = {}
  LinkCount <- OneLinkEach
  Handlers = {h1}
  Workers = {w1, w2}
  QueueMaxSize = 1
  RecoveryBatchSize = 2
  MaxAttempts = 2
  MaxReceives = 3
  MaxCrashes = 1
  MaxTaskDeaths = 1
  None = None
INVARIANTS TypeOK SingleHolder ClaimHeld
PROPERTY ExhaustedIsFinal
CHECK_DEADLOCK FALSE
