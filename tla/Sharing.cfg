SPECIFICATION Spec
CONSTANTS
  c1 = c1
  c2 = c2
  k1 = k1
  k2 = k2
  word = word
  r1 = r1
  r2 = r2
  r3 = r3
  b1 = b1
  b2 = b2
  Conns = {c1, c2}
  Keys = {k1}
  KeysOf <- OneClient
  Texts <- NumberOnly
  Timeouts <- NumberOnly
  Headers <- Careless
  Reqs = {r1, r2}
  Bufs = {b1, b2}
  IDLE = IDLE
  DefaultIdle = 2
  STATS = STATS
  NULL = NULL
  BLANK = BLANK
  FailSites = {"grow"}
  DirtyStructs = TRUE
  MaxTime = 0
INVARIANTS TypeOK EventMatchesState ConnectionsListed
SYMMETRY BlockSymmetry
CHECK_DEADLOCK FALSE
