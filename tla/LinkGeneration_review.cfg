\* One conversion that is cancelled.
SPECIFICATION Spec
CONSTANTS
  Candidates = {a, b}
  LegacyCandidates = {b}
  Messages <- OneOrBoth
  Converters = {p1}
  MaxAttempts = 2
  MaxCalls = 1
INVARIANT UncertainIsReviewed
