\* Two shorts, one with a row older than the ledger; a single and a double
\* message; two preparations; three calls.
SPECIFICATION Spec
CONSTANTS
  a = a
  b = b
  one = one
  both = both
  Inputs = {a, b}
  LegacyInputs = {a}
  Messages = {one, both}
  InputsOf <- ShortsOf
  Single = {one}
  Preparers = {p1, p2}
  MaxApiCalls = 2
  MaxCalls = 3
INVARIANTS TypeOK NoCallAfterUnknown EvidenceMatchesLedger ReadyPreviewIsCurrent
PROPERTY ImplementsAuditedCalls
