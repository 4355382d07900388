\* One server that fails, stops past its grace and crashes, with attempts to spare.
CONSTANTS
  s1 = s1
  Server = {s1}
  NoServer = NoServer
  DeadServer = DeadServer
  MaxAttempts = 4
  Backoff = 1
  SlowStore = TRUE
  MaxTime = 3
  MaxFailures = 1
  MaxCrashes = 1
  MaxStops = 1
  MaxRuns = 9
  OnTime = 1
  Cap = 2
  CatchUp = "all"
  Overlap = "skip"
  Slots = {1, 2, 3}
SPECIFICATION FairSpec
INVARIANTS
  TodoStillDue
PROPERTIES
  FinalIsFinal
  BegunRunsSettle
