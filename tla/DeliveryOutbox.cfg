\* Two deliveries, two concurrent calls of send, two attempts.
SPECIFICATION Spec
CONSTANTS
  Deliveries = {d1, d2}
  Senders = {s1, s2}
  MaxAttempts = 2
  None = None
INVARIANTS TypeOK AtMostOnce RowTellsTruth
PROPERTY ImplementsPromise
