\* Two workers, two attempts, a crash; what is settled stays settled, so the
\* system stops.
SPECIFICATION Spec
CONSTANTS
  m1 = m1
  m2 = m2
  m3 = m3
  a = a
  b = b
  c = c
  d = d
  e = e
  f = f
  plain = plain
  variant = variant
  other = other
  NoItem = NoItem
  Messages = {m1, m2, m3}
  Links = {a, b, c, d, e, f}
  LinksOf <- MCLinksOf
  Items = {plain, variant, other}
  ItemOf <- MCItemOf
  Short = {d}
  Foreign = {e}
  Shopee = {plain, variant}
  AliExpress = {other}
  Bare <- MCBare
  Old = {a}
  Workers = {1, 2}
  MaxAttempts = 2
  BatchSize = 1
  MaxCrashes = 1
INVARIANTS TypeOK DuplicateHasOriginal LinksAreCovered
CHECK_DEADLOCK FALSE
