\* A variable captured by one copy.
CONSTANTS
  b1 = b1  b2 = b2  b3 = b3  v1 = v1  v2 = v2
  HeapBlocks <- MCHeapBlocks
  Vars <- MCVars
  Captures <- MCCaptures
  Latch = 3
  MaxRefs = 2
SPECIFICATION Spec
INVARIANT ByrefAlive
CHECK_DEADLOCK FALSE
