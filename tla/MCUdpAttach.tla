----------------------------- MODULE MCUdpAttach -----------------------------
(* Instances of UdpAttach for TLC.                                           *)
EXTENDS UdpAttach, TLC
CONSTANTS i1, i2, i3, k1, k2, k3, c1, c2
MCIds == {i1, i2, i3}
MCKeys == {k1, k2, k3}
MCStamps == 1..MaxStamp
OwnPorts == (c1 :> {k1, k2}) @@ (c2 :> {k3})          \* addresses are never reused
Symmetric == Permutations(MCIds)
=============================================================================
