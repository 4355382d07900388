\* Two live processes and either backend; a lock file left by a third that is gone.
\* Every process may be gone, and then nothing moves: no deadlock check.
CONSTANTS
  o1 = o1
  o2 = o2
  Owner = {o1, o2}
  NoOwner = NoOwner
  Ttl = 3
  MaxTime = 8
CHECK_DEADLOCK FALSE
SPECIFICATION LocksSpec
INVARIANTS
  OneHolder
PROPERTY LeaseSpec
