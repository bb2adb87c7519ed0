SPECIFICATION WriterFairSpec
CONSTANTS
  Writers = {w1, w2}
  Producers = {p1, p2}
  Ticker = ticker
  Closer = closer
  Nobody = nobody
  ArenaCap = 3
  MaxPackets = 2
  Sizes = {1, 2}
INVARIANTS InBounds BufferStable
PROPERTY TrickleFlushed
CHECK_DEADLOCK FALSE
