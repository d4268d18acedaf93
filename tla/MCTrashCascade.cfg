SPECIFICATION Spec
CONSTANTS
  b = b  d = d  p = p  e1 = e1  e2 = e2  t1 = t1  t2 = t2
  Root = {b, d, p}
  Child = {e1, e2}
  Owns <- Owners
  PageChild = {e2}
  Project = {p}
  Tab = {t1, t2}
  MaxEvents = 4
  Self = Self
  None = None
SYMMETRY TabSymmetry
CHECK_DEADLOCK FALSE
INVARIANTS TrashInv
PROPERTIES RestoresRight
