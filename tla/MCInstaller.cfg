\* Commands that fail, are interrupted and repeated, next to startup requests;
\* writes may be torn and the user edits the resolver file.
SPECIFICATION Spec
CONSTANTS
  CLI = cli
  Toggles = {t1}
  UserFiles = {u1}
  Scopes <- MCScopes
  Absent = Absent
  Managed = Managed
  Torn = Torn
  MaxCommands = 3
  MaxToggles = 2
  MaxFaults = 2
  MaxTorn = 1
  MaxEdits = 1
INVARIANTS
  ManagedHasBackup
  LoadedIsInstalled
  UninstallFinal
PROPERTIES
  InstallInPlace
