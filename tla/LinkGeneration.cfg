\* Two candidates, one of them with a legacy proof, two conversions, three calls.
SPECIFICATION Spec
CONSTANTS
  Candidates = {a, b}
  LegacyCandidates = {b}
  Messages <- OneOrBoth
  Converters = {p1, p2}
  MaxAttempts = 2
  MaxCalls = 3
INVARIANTS TypeOK NoCallAfterUnknown WireIsAudited ProofIsNewestConfirmed ClaimMatchesLedger
PROPERTY ImplementsAuditedCalls
