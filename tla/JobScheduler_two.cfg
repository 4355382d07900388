\* Two servers over one state, a rolling update: one slot, two runs, a crash.
\* A look needs a slot with runs to spare: no deadlock check.
CONSTANTS
  s1 = s1
  s2 = s2
  Server = {s1, s2}
  NoServer = NoServer
  DeadServer = DeadServer
  MaxAttempts = 2
  Backoff = 1
  SlowStore = TRUE
  MaxTime = 1
  MaxFailures = 0
  MaxCrashes = 1
  MaxStops = 1
  MaxRuns = 1
  OnTime = 1
  Cap = 2
  CatchUp = "latest"
  Overlap = "queue"
  Slots = {1}
SPECIFICATION Spec
SYMMETRY Servers
CHECK_DEADLOCK FALSE
INVARIANTS
  SlotLockExcludes
  LockBacked
