\* One canonical and one coin message, two deliveries, a budget of one send.
SPECIFICATION Spec
CONSTANTS
  Canonical = {m}
  Coin = {n}
  Tasks = {k1, k2}
  MaxSends = 1
  MaxVersions = 2
INVARIANTS TypeOK AtMostOnePost RowsTellTheTruth BudgetCoversRequests
PROPERTY ImplementsAtMostOncePost
