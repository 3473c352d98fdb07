SPECIFICATION Spec
CONSTANTS
  H = 1
  BLOCK = 2
  last = 9
  WORD = 10
  Requests = {1, 3, 9}
INVARIANTS Tiling FreeListExact Accounting
PROPERTY ImplementsAllocator
