\* One process in which nothing goes wrong, and three runs asked for.
\* When every run has ended the process may have nothing left to do: no deadlock check.
CONSTANTS
  s1 = s1
  r1 = r1
  r2 = r2
  r3 = r3
  Server = {s1}
  NoServer = NoServer
  DeadServer = DeadServer
  Run = {r1, r2, r3}
  NoRun = NoRun
  Resumable = TRUE
  Scheduled = TRUE
  MaxAttempts = 2
  MaxStarts = 4
  MaxCrashes = 0
  MaxStops = 0
  MayAskInLook = FALSE
SPECIFICATION Spec
CHECK_DEADLOCK FALSE
INVARIANTS
  OneInstanceAtATime
