SPECIFICATION Spec
CONSTANTS
  free = free
  partial = partial
  full = full
  slabctl_count = 4
  Lists = {free, partial, full}
  slabs_free = free
  NULL = NULL
INVARIANTS Linked
PROPERTIES RefinesSequences
