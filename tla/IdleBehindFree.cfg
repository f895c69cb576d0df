SPECIFICATION Spec
CONSTANTS
  c1 = c1
  c2 = c2
  k1 = k1
  k2 = k2
  word = word
  r1 = r1
  r2 = r2
  r3 = r3
  b1 = b1
  b2 = b2
  Conns = {c1, c2}
  Keys = {k1}
  KeysOf <- OneClient
  Texts <- WordAndNumber
  Timeouts <- NumberOnly
  Headers <- WellFormedOnly
  Reqs = {r1, r2}
  Bufs = {b1, b2}
  IDLE = IDLE
  DefaultIdle = 1
  STATS = STATS
  NULL = NULL
  BLANK = BLANK
  FailSites = {}
  DirtyStructs = FALSE
  MaxTime = 3
PROPERTIES AuditReachesAll
SYMMETRY BlockSymmetry
CHECK_DEADLOCK FALSE
