SPECIFICATION Spec
CONSTANTS
  b1 = b1
  b2 = b2
  b3 = b3
  Blocks = {b1, b2, b3}
  Sizes = {1, 2}
  FirstAvail = 1
  KptPages = 6
  PoisonPages = 19
  Devices = {20}
SYMMETRY Symmetry
INVARIANTS
  BlocksApart
  MappedContiguously
PROPERTY ImplementsContract
CHECK_DEADLOCK FALSE
