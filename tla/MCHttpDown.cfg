SPECIFICATION FairSpec
CONSTANTS
  Handlers = {h1, h2}
  Routers = {r}
  Ticker = ticker
  Ids = {a, b}
  Zero = zero
  Nil = nil
  MaxPeers = 1
  MaxTS = 2
  BatchCap = 2
INVARIANT NoLateWrite
PROPERTIES StreamsEnd KeepsReturnPath
CHECK_DEADLOCK FALSE
