\* A critical event and two standard ones, a queue of two, and one fault.
CONSTANTS
  c1 = c1
  s1 = s1
  s2 = s2
  Event = {c1, s1, s2}
  Critical = {c1}
  Genesis = Genesis
  Timer = Timer
  Close = Close
  MaxQueue = 2
  FileSize = 1
  MaxFiles = 1
  MaxFaults = 1
SPECIFICATION FairSpec
INVARIANTS
  LogTypeOK
  ChainUnbroken
  WitnessHonest
PROPERTIES
  StopLosesNothing
  TrailSpec
  EveryCallIsAnswered
  WaitingIsWritten
