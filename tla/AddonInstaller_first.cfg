\* A first install that stops between the unpacking and the lock: the folder
\* it leaves is taken for somebody else's, at every start from then on.
SPECIFICATION InstallerSpec
CHECK_DEADLOCK FALSE
CONSTANTS
  Releases = {1, 2}
  Ranges = {{1, 2}}
  MaxCrashes = 1
  MaxFailures = 0
  MaxDamages = 0
  MaxEdits = 0
  MaxUpdates = 0
INVARIANTS
  ForeignIsForeign
