\* One refresh request that overlaps with the handling of an event; nothing fails.
SPECIFICATION Spec
CONSTANTS
  Loop = loop
  Clients = {c1}
  MaxRev = 2
  MaxFaults = 0
  MaxRefreshes = 1
  IssueLimit = 2
INVARIANTS
  SettledIsFresh
