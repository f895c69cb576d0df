SPECIFICATION MSpec
CONSTANTS
  SLAB_SIZE = 6
  ChunkSizes <- ThreeClasses
  slabctl_count = 3
  BITS = 4
  WIDTH = 32
  METADATA = 11
  Asked = {1, 2, 3, 5, 6}
  NULL = NULL
  Limits = {15, 22, 28, 29, 31}
  HEAD = 1
  MANAGER = 1
  CACHE = 1
  CTL = 1
INVARIANTS Counted SlabsListed HeldDisjoint MemUsedTrue NeverDies StartupAccounted MemUsedWithin
PROPERTIES RefinesPool
CHECK_DEADLOCK FALSE
