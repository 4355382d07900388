\* A job with a schedule, one process, two runs asked for, two crashes and a stop.
\* When every run has ended the process may have nothing left to do: no deadlock check.
CONSTANTS
  s1 = s1
  r1 = r1
  r2 = r2
  Server = {s1}
  NoServer = NoServer
  DeadServer = DeadServer
  Run = {r1, r2}
  NoRun = NoRun
  Resumable = TRUE
  Scheduled = TRUE
  MaxAttempts = 2
  MaxStarts = 6
  MaxCrashes = 2
  MaxStops = 1
  MayAskInLook = FALSE
SPECIFICATION FairSpec
CHECK_DEADLOCK FALSE
INVARIANTS
  HandTypeOK
  LiveRunsAreHeld
  BeginningsBounded
PROPERTIES
  CompletedIsFinal
  NeverSilent
