\* Two goroutines refresh, one after the other or concurrently; mkcert may fail.
SPECIFICATION Spec
CONSTANTS
  Starter = s
  Refreshers = {s, c}
  Projects <- MCProjects
  Hosts <- MCHosts
  NoProject = "none"
  ProjectOf <- MCProjectOf
  Root <- MCRoot
  Deep <- MCDeep
  Rank <- MCRank
  Snapshots <- MCSnapshots
  MaxRebuilds = 2
  MaxFaults = 1
INVARIANTS
  ServedUnderOwnName
  ReadyCovers
  RecordsMatchListener
PROPERTIES
  StartsCovered
  ReissueOnlyUncovered
