SPECIFICATION StockedSpec
CONSTANTS
  c1 = c1  c2 = c2  k1 = k1  k2 = k2  k3 = k3  k4 = k4
  project = project  office = office  steel = steel
  None = None
  Location = {project, office}
  Office = {office}
  Material = {steel}
  Client = {c1, c2}
  Key = {k1, k2, k3, k4}
  Forms <- TransferForms
SYMMETRY RequestSymmetry
INVARIANTS TransfersWhole
PROPERTIES HistoryAppendOnly
