\* Uninstall where no managed file is in place: repeated, or without an install.
SPECIFICATION Spec
CONSTANTS
  CLI = cli
  Toggles = {}
  UserFiles = {u1}
  Scopes <- MCScopes
  Absent = Absent
  Managed = Managed
  Torn = Torn
  MaxCommands = 3
  MaxToggles = 0
  MaxFaults = 1
  MaxTorn = 0
  MaxEdits = 0
PROPERTIES
  OnlyManagedRemoved
