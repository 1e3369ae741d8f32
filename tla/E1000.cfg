\* Rings of three slots: the driver and the card each lap the other, every
\* slot is used twice, and the receive ring reaches the transmit buffers.
CONSTANTS
  TXBufferNum = 3
  RXBufferNum = 3
  PageCells = 1
  MaxSends = 4
  MaxFrames = 4
SPECIFICATION Spec
INVARIANTS
  SentOnceInOrder
  ContentsKept
  NoFrameSkipped
PROPERTY NothingStuck
CHECK_DEADLOCK FALSE
