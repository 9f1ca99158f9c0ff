CONSTANTS
  Catalogue <- MCCatalogue
  MaxListed = 3
  Overrides <- MCOverrides
  Suffix <- MCSuffix
  ManagedSuffix <- MCManagedSuffix
  RootServices = {"web"}
  IgnoredServices = {"redis"}
  IgnoredPorts = {3306}
  PreferredPorts <- MCPreferredPorts
  PublicLabels = {"com", "io"}
  Folded <- MCFolded
  Trimmed <- MCTrimmed
SPECIFICATION Spec
INVARIANT DisabledHasNoRoute
