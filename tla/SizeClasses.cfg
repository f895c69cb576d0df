SPECIFICATION FairSpec
CONSTANTS
  MaxSize = 6
  Arrays <- Tables
  Requests <- Sizes
  INT_MAX = 48
  NULL = NULL
INVARIANTS LoopInv FindsSmallestFit InBounds
PROPERTIES Terminates
