\* Two critical events in flight at once, and nothing fails.
CONSTANTS
  c1 = c1
  s1 = s1
  c2 = c2
  Event = {c1, c2, s1}
  Critical = {c1, c2}
  Genesis = Genesis
  Timer = Timer
  Close = Close
  MaxQueue = 2
  FileSize = 1
  MaxFiles = 1
  MaxFaults = 0
SPECIFICATION Spec
INVARIANTS
  CompletedIsSynced
