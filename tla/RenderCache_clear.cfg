\* A render in use while an administrator clears the cache, and with it the
\* versions: what CacheManager.bump's comment promises does not hold.
SPECIFICATION CacheSpec
CONSTANTS
  Requests = {r1, r2}
  Topics = {t1, t2}
  Base = {t1}
  MaxWrites = 1
  MaxClears = 1
INVARIANTS
  ReRendered
