\* The watch loop alone: no refresh request ever arrives.
SPECIFICATION FairSpec
CONSTANTS
  Loop = loop
  Clients = {}
  MaxRev = 3
  MaxFaults = 2
  MaxRefreshes = 0
  IssueLimit = 2
INVARIANTS
  LossIsSurfaced
  SettledIsFresh
PROPERTIES
  ReconnectResyncs
  StreamRepaired
  EventsReachSnapshot
  LoopStops
