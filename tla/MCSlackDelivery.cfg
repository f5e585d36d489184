SPECIFICATION Spec
CONSTANTS
  Events = {e1, e2}
  Ignored = {e2}
  Procs = {p1, p2}
  e1 = e1
  e2 = e2
  p1 = p1
  p2 = p2
  PoolSize = 1
  Window = 0
  RetrySpan = 1
  Skew = 0
  Ttl = 1
  MaxTime = 2
  MaxCrashes = 1
SYMMETRY Symmetry
INVARIANTS TypeOK OncePerTtl  NothingDropped
CHECK_DEADLOCK FALSE
