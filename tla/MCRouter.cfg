SPECIFICATION MCSpec
CONSTANTS
  Pipes = {"pipe"}
  Owned = {"tun", "listen"}
  Receivers = {"in"}
  Sources = {"tun", "in"}
  Health = {"up"}
  DstSets = {"iran"}
  Egresses = {"local"}
  Tables <- MCTables
  d = d
  e = e
  Addrs <- MCAddrs
  Dest = d
  SlotOf <- MCSlotOf
  Contents <- MCContents
  Bad = Bad
  Timer = "timer"
  Current = Current
  Nil = Nil
PROPERTIES FirstSteadyWins LeavesByOpenRow AtomicGuards LatestSet
CHECK_DEADLOCK FALSE
