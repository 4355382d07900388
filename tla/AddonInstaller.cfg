\* One add-on, three releases, an administrator who moves the range over them.
SPECIFICATION FairInstaller
CHECK_DEADLOCK FALSE
CONSTANTS
  Releases = {1, 2, 3}
  Ranges = {{1, 2}, {2, 3}}
  MaxCrashes = 3
  MaxFailures = 2
  MaxDamages = 1
  MaxEdits = 1
  MaxUpdates = 2
INVARIANTS
  FallbackKept
  LoadedIsPinned
  CrashCostsNothing
PROPERTIES
  UpdateSettled
  UpdateEnds
