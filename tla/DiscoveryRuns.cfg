CONSTANTS
  Scans = {d1, d2}
  Refinements = {s1, s2}
  Earlier = {o1, o2}
  EarlierPrices <- MCEarlierPrices
  Keywords = 1
  MaxPages = 2
  PageSize = 3
  MaxResults = 2
  MaxCalls = 1
  MaxRefined = 2
  MaxSkuCalls = 1
  MinimumDrop = 20
  Products = {1, 2}
  Pages <- MCPages
  Skus <- MCSkus
  None = None
SPECIFICATION Spec
INVARIANTS TypeOK RunsAgree
PROPERTY SettledRunsStay
CHECK_DEADLOCK FALSE
SYMMETRY MCSymmetry
