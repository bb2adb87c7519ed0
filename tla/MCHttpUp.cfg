SPECIFICATION UpFairSpec
CONSTANTS
  Posts = {p1, p2}
  NoPost = NoPost
  WireCap = 2
  Ahead = 1
  MaxBad = 1
INVARIANTS LastIsNamed
PROPERTIES SupersededEnds PacketsResume
