SPECIFICATION PartsSpec
CONSTANTS
  None = None
  m1 = m1  m2 = m2  m3 = m3  owner = owner  custom = custom
  Member = {m1, m2, m3}
  Profile = {owner, custom}
  OwnerProfile = owner
  Scope = {1}
  MaxChanges = 4
  Identity <- Items
  Material <- Stuff
  Job = {1, 2}
  Book <- Books
  MaxEdits = 2
  Origin <- Origins
  SeriesOf <- Numbers
  Reference <- Printed
  Reversible = {"a", "b"}
  Caller = {1, 2}
  Orders <- Selections
  MaxReports = 1
  Pack = {"e", "h", "k"}
  Channel <- By
  Sender = {1, 2}
  Batches <- Packs
  MaxGeneration = 2
  MaxLost = 1
  Sheet = {1, 2}
  Slot = {1, 2}
  MaxRows = 2
  Employee = {"e"}
  Branch = {"b", "x"}
  Department = {"d"}
  Component = {"s", "h"}
  Policy = {"q"}
  MaxDay = 3
  MonthFirst = 2
  MonthLast = 3
  Mark = {"8"}
  Login = {1, 2}
INVARIANTS BackOfficeTypeOK OwnerRemains ProfilesInForce SessionsCurrent NumbersWhole EvidenceTrue AwaitedIsComing FilesSound UpgradeTrue RunTellsTheMonth
PROPERTIES OwnersByOwners BooksTrue MailedLinkStands SlowReadsLose PastSalaryKept
CHECK_DEADLOCK FALSE
