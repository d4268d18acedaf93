SPECIFICATION Spec
CONSTANTS
  l1 = l1  l2 = l2  l0 = l0  b1 = b1  b2 = b2
  Line = {l1, l2, l0}
  Net <- Nets
  Batch = {b1, b2}
  SealsRevision = FALSE
  MaxAttempts = 3
  MaxFiles = 3
SYMMETRY BatchSymmetry
INVARIANTS SalaryInv
PROPERTIES PaysAsPromised OutcomesStand
CHECK_DEADLOCK FALSE
