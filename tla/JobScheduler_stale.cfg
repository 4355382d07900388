\* A crash during the last attempt of a slot.
CONSTANTS
  s1 = s1
  Server = {s1}
  NoServer = NoServer
  DeadServer = DeadServer
  MaxAttempts = 1
  Backoff = 1
  SlowStore = FALSE
  MaxTime = 4
  MaxFailures = 0
  MaxCrashes = 1
  MaxStops = 0
  MaxRuns = 9
  OnTime = 1
  Cap = 2
  CatchUp = "latest"
  Overlap = "queue"
  Slots = {1, 2, 4}
SPECIFICATION Spec
CHECK_DEADLOCK FALSE
PROPERTIES
  FinalIsFinal
