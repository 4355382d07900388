\* Two requests for one page over two topics, one of them declared while
\* rendering; each topic is written once and the cache cleared once.
SPECIFICATION CacheSpec
CONSTANTS
  Requests = {r1, r2}
  Topics = {t1, t2}
  Base = {t1}
  MaxWrites = 1
  MaxClears = 1
INVARIANTS
  ServedIsFresh
