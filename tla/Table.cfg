SPECIFICATION Spec
CONSTANTS
  k1 = k1
  k2 = k2
  k3 = k3
  k4 = k4
  k5 = k5
  Keys = {k1, k2, k3, k4, k5}
  Hash <- HashOf
  KeyLen <- LenOf
  Vals = {1, 2}
  logsize = 1
  Sites = {"item", "key", "move"}
  NULL = NULL
INVARIANTS CountTrue ItemsSound NoKeyTwice
PROPERTIES RefinesDict
CHECK_DEADLOCK FALSE
