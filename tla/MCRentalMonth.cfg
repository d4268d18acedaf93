SPECIFICATION RentalSpec
CONSTANTS
  w1 = w1  f1 = f1
  p1 = p1  p2 = p2
  Worker = {w1}
  Firm = {f1}
  FirmOf <- Suppliers
  Site = {p1, p2}
  MaxDay = 2
  MonthOf <- Months
  MaxSegments = 3
  MaxChanges = 2
INVARIANTS RentalInv
PROPERTIES ReviewedRowsKept
CHECK_DEADLOCK FALSE
SYMMETRY SiteSymmetry
