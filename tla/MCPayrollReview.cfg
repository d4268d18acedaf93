SPECIFICATION Spec
CONSTANTS
  u1 = u1  u2 = u2  u3 = u3  None = None
  bonus = bonus  advance = advance  early = early  late = late
  User = {u1, u2, u3}
  Sheet = {1}
  Terms = {1}
  Policy = {1}
  NotConfigured = 1
  Adj = {bonus}
  Kind <- PlainKind
  Date <- PlainDate
  Amount = {1}
  MaxRevision = 5
  SealsRevision = TRUE
INVARIANTS ReviewPossible
