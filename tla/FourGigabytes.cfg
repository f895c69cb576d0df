SPECIFICATION Spec
CONSTANTS
  SLAB_SIZE = 6
  ChunkSizes <- ThreeClasses
  slabctl_count = 3
  BITS = 4
  WIDTH = 12
  METADATA = 1
  Asked = {2, 3, 5}
  NULL = NULL
INVARIANTS NoFailedAssertion
CHECK_DEADLOCK FALSE
