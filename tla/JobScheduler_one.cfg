\* One server: failures up to the last attempt and a stop, in any order, no crash.
CONSTANTS
  s1 = s1
  Server = {s1}
  NoServer = NoServer
  DeadServer = DeadServer
  MaxAttempts = 2
  Backoff = 1
  SlowStore = FALSE
  MaxTime = 5
  MaxFailures = 2
  MaxCrashes = 0
  MaxStops = 1
  MaxRuns = 9
  OnTime = 1
  Cap = 2
  CatchUp = "latest"
  Overlap = "queue"
  Slots = {1, 2, 4}
SPECIFICATION FairSpec
INVARIANTS
  TypeOK
  NoSlotDropped
  AttemptsBounded
PROPERTIES
  EverySlotSettles
