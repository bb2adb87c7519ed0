SPECIFICATION AttachSpec
CONSTANTS
  i1 = i1
  i2 = i2
  i3 = i3
  k1 = k1
  k2 = k2
  k3 = k3
  c1 = c1
  c2 = c2
  Clients = {c1, c2}
  PortsOf <- OwnPorts
  Ids <- MCIds
  Keys <- MCKeys
  Stamps <- MCStamps
  MaxStamp = 3
  Zero = zero
  NoKey = nokey
  MaxPeers = 2
  TTL = 0
SYMMETRY Symmetric
INVARIANTS OwnersDistinct NoMisdelivery
