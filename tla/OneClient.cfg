SPECIFICATION Spec
CONSTANTS
  c1 = c1
  c2 = c2
  k1 = k1
  k2 = k2
  word = word
  r1 = r1
  r2 = r2
  r3 = r3
  b1 = b1
  b2 = b2
  Conns = {c1}
  Keys = {k1, k2}
  KeysOf <- OneClient
  Texts <- WordAndNumber
  Timeouts <- NumberOnly
  Headers <- WithFlush
  Reqs = {r1, r2}
  Bufs = {b1, b2}
  IDLE = k2
  DefaultIdle = 1
  STATS = STATS
  NULL = NULL
  BLANK = BLANK
  FailSites = {"rkey", "rextra", "item"}
  DirtyStructs = FALSE
  MaxTime = 2
INVARIANTS NoLeak
PROPERTIES RefinesService
SYMMETRY BlockSymmetry
