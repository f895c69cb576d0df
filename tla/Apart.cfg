SPECIFICATION Spec
CONSTANTS
  c1 = c1
  c2 = c2
  k1 = k1
  k2 = k2
  word = word
  r1 = r1
  r2 = r2
  r3 = r3
  b1 = b1
  b2 = b2
  Conns = {c1, c2}
  Keys = {k1, k2}
  KeysOf <- Apart
  Texts <- WordAndNumber
  Timeouts <- NumberOnly
  Headers <- Private
  Reqs = {r1, r2, r3}
  Bufs = {b1, b2}
  IDLE = IDLE
  DefaultIdle = 2
  STATS = STATS
  NULL = NULL
  BLANK = BLANK
  FailSites = {}
  DirtyStructs = FALSE
  MaxTime = 0
INVARIANTS IInv ExclusiveOwnership NoDangling NeverDies CachedIsKept
PROPERTIES RefinesService
SYMMETRY BlockSymmetry
