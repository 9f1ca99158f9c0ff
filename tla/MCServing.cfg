\* One request and one page against three snapshots, a pause and a resume.
SYMMETRY Symmetry
SPECIFICATION Spec
CONSTANTS
  Managed = {h1, h2, a1}
  Rootless = {a1}
  Foreign = {f1}
  Upstreams = {u1, u2}
  NoRoute = NoRoute
  Routings <- MCRoutings
  Requests = {r1}
  Pages = {p1}
  MaxClients = 1
  MaxSyncs = 2
  MaxFlips = 2
  MaxFaults = 1
INVARIANTS
  RouteIsCurrent
  PauseIsCurrent
  OfferedIsServed
  PageMovesForward
PROPERTIES
  RefusedOnlyBehind
