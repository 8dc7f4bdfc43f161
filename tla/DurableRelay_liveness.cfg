\* One worker, one place in the queue, recovery by one, a legacy row, one crash.
SPECIFICATION FairSpec
CONSTANTS
  Messages = {1, 2}
  LegacyMessages = {1}
  LinkCount <- OneLinkEach
  Handlers = {h1}
  Workers = {w1}
  QueueMaxSize = 1
  RecoveryBatchSize = 1
  MaxAttempts = 2
  MaxReceives = 3
  MaxCrashes = 1
  MaxTaskDeaths = 0
  None = None
PROPERTY EventuallySettled
