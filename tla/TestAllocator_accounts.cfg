SPECIFICATION Spec
CONSTANTS
  Allocators = {a1, a2, a3}
  Stats = {s1, s2, s3}
  nullptr = nullptr
  Ptrs = {p1, p2}
  Sizes = {1, 2}
  MaxElements = 2
  NDEBUG = FALSE
SYMMETRY Symmetry
INVARIANT RefCountExact
INVARIANT StatsLiveWhileHeld
INVARIANT BlocksAccounted
INVARIANT NoLeakGoesUnnoticed
INVARIANT DetectedBoundsGrowth
