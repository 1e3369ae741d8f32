SPECIFICATION Spec
CONSTANTS
  MaxPpn = 8
  TableSize = 2
  LowMemReserved = 2
  MaxReserved = 1
  KernelMaxMem = 5
  FirstAvail = 4
  KernelBase = 3
  LargeSizes = {6, 7}
  Points = {0, 1, 2, 3, 4, 6, 7, 8}
  BootArgs <- MCBootArgs
INVARIANT
  BelowFirstAvailMarked
CHECK_DEADLOCK FALSE
