\* Closures copied and released, strings made and changed, in any order.
CONSTANTS
  b1 = b1  b2 = b2  b3 = b3  v1 = v1  v2 = v2
  HeapBlocks <- MCHeapBlocks
  Vars <- MCVars
  Captures <- MCCaptures
  Latch = 3
  MaxRefs = 2
  s1 = s1  s2 = s2  a = a   Junk = Junk
  Strings <- MCStrings
  Chars <- MCChars
  Texts <- MCTexts
  SMALL_STR_CAPACITY = 5
  Step = 2
  MaxLen = 7
SPECIFICATION RuntimeSpec
INVARIANTS NoDanglingBlock FreedIfCopiedOnce ValueKept
PROPERTY OverrunOnlyHere
CHECK_DEADLOCK FALSE
