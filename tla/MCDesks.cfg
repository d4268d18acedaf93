SPECIFICATION DesksSpec
CONSTANTS
  None = None
  bonus = bonus
  User = {"officer", "reviewer", "owner"}
  May <- Profiles
  Sheet = {1, 2}
  Terms = {1, 2}
  Policy = {1, 2}
  NotConfigured = 1
  Adj = {bonus}
  Kind <- PlainKind
  Date <- PlainDate
  Amount = {1}
  MaxRevision = 8
  SealsRevision = FALSE
  Provider = {"vendor", "manpower", "subcontractor"}
  Master = {"vendor", "manpower", "subcontractor"}
  Role <- Same
  Sort <- Same
  Contact = {"c", "d"}
  Offer = {"o"}
  File = {"f"}
  Content = {1, 2}
  Rights <- DirectoryRights
INVARIANTS DeskInv ThreePeople DirectoryTrue DesksOffer ApprovesWhatIs
CHECK_DEADLOCK FALSE
