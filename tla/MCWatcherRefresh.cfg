\* The watch loop and two concurrent refresh requests.
SPECIFICATION Spec
CONSTANTS
  Loop = loop
  Clients = {c1, c2}
  MaxRev = 2
  MaxFaults = 1
  MaxRefreshes = 2
  IssueLimit = 1
SYMMETRY RefreshSymmetry
INVARIANTS
  TypeOK
  EveryChangeAccounted
  VersionsUnique
PROPERTIES
  OnlyOvertakenScansRollBack
