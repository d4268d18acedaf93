SPECIFICATION DeskSpec
CONSTANTS
  s1 = s1  s2 = s2  a1 = a1  a2 = a2
  None = None
  User = {"reviewer", "manager", "assistant"}
  May <- Profiles
  Supplier = {s1, s2}
  Gross <- Earned
  Adj = {a1, a2}
  Owner <- Owners
  Effect <- Deduction
  Vat = {0, 1}
  Amounts = {1, 2}
  MaxPayments = 3
SYMMETRY Interchangeable
INVARIANTS SupplierDeskInv NeverOverpaid PagesOffer
PROPERTIES ApprovedTrue ClosedUntilReversed SettlesAsPromised
CHECK_DEADLOCK FALSE
