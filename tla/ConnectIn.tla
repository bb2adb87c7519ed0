------------------------------ MODULE ConnectIn ------------------------------
(***************************************************************************)
(* What the ConnectIn ends of the downlink have in common, whatever        *)
(* carries them (udp: UdpAttach, tcp: TcpDown): the id a client claims in  *)
(* its controls, and the clock that nextTS stamps them with                *)
(* (internal/conn/udp.go:170-206, internal/conn/tcp.go:287-323).           *)
(***************************************************************************)
EXTENDS Peers

CONSTANTS
  Clients,
  MaxStamp   \* bound on the number of controls sent

VARIABLES
  curID,     \* client -> the id it claims, also its tun's owner (idSetter)
  lastTS     \* the clock: stamp of the last control anyone sent

claims == <<curID, lastTS>>

(* A client starts without an id.                                            *)
ClaimsInit == curID = [c \in Clients |-> Zero] /\ lastTS = 0

(* The next control's stamp.                                                 *)
Stamp == lastTS < MaxStamp /\ lastTS' = lastTS + 1

=============================================================================
