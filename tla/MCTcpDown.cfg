SPECIFICATION FairDownSpec
CONSTANTS
  Ids = {i1, i2}
  Zero = zero
  Keys = {k1, k2}
  NoKey = nokey
  NoOne = noone
  MaxPeers = 1
  TTL = 0
  Stamps <- MCStamps
  Clients = {c1}
  Routers = {r1}
  Ticker = ticker
  BatchCap = 2
  MaxStamp = 3
INVARIANT StreamWellFormed
PROPERTIES KeepsReturnPath WritersReturn DeadPathExpires
