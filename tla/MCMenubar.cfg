\* Two hosts, polls of both goroutines, clicks, changes and a failed call.
SPECIFICATION Spec
SYMMETRY Symmetry
CONSTANTS
  Hosts = {a, b}
  Nothing = Nothing
  MaxPolls = 1
  MaxClicks = 2
  MaxChanges = 2
  MaxFaults = 1
INVARIANTS
  ShownIsPolled
  ClickOpensShown
  TitleIsAction
