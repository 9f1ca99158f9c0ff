CONSTANTS
  IssueLimit = 2
  MaxDaemons = 2
  MaxFaults = 1
  Busy <- MCBusy
SPECIFICATION FairSpec
INVARIANTS
  FirstIsUndisturbed
  DegradedIsRecorded
  DNSPortReleased
PROPERTIES
  SocketLostOnlyToLateClose
  StopWaitsOnlyForRequests
