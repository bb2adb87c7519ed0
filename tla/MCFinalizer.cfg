SPECIFICATION Spec
CONSTANTS
  Threads = {t1, t2}
  IPs = {x, y}
  Paths = {a, b}
  MaxTrack = 1
  TTL = 3
  ClockTick = 1
  MaxStall = 1
  MaxTime = 5
SYMMETRY Symmetric
INVARIANT LatestPath
PROPERTY ActiveFlowKept
