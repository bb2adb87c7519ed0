------------------------------ MODULE UdpAttach ------------------------------
(***************************************************************************)
(* How a udp ConnectIn (conn/udp.go:170-380) obtains and keeps its owner   *)
(* id at a multiple ListenOut (conn/udp.go:450-538) over a network that    *)
(* loses, repeats and reorders datagrams, with both ends restarting.       *)
(*                                                                         *)
(* The ListenOut is its registry (Peers).  A transport key is the socket   *)
(* address the ListenOut sees; PortsOf says which ones a client may get.   *)
(* Register and keepalive datagrams are handled alike and are one message. *)
(***************************************************************************)
EXTENDS ConnectIn

CONSTANT PortsOf   \* client -> addresses its sockets may appear under

(* An address does not pass from one client to another: while the ListenOut  *)
(* still knows it, or a datagram from it is under way, the newcomer would be *)
(* given the old owner's id.                                                 *)
ASSUME PortAssumption ==
  /\ PortsOf \in [Clients -> SUBSET Keys]
  /\ \A c, d \in Clients : c # d => PortsOf[c] \cap PortsOf[d] = {}

VARIABLES
  conn,    \* client -> address of its current socket
  snap,    \* client -> goroutine -> the (id, conn) its sendControl has read, not yet written
  net,     \* datagrams sent so far: each may arrive any number of times, or never
  minted   \* ids ever handed out

sockets == <<conn, snap>>
allVars == <<vars, claims, sockets, net, minted>>

(* The goroutines that call sendControl: maintain's timer, and Reconnect on  *)
(* the healthcheck's.                                                        *)
Senders == {"maintain", "reconnect"}
NoSends == [g \in Senders |-> <<>>]

AttachInit ==
  /\ Init /\ multiple /\ ClaimsInit
  /\ conn \in [Clients -> Keys] /\ \A c \in Clients : conn[c] \in PortsOf[c]
  /\ snap = [c \in Clients |-> NoSends]
  /\ net = {} /\ minted = {}

RegisterMsg(i, k, t) == [type |-> "register", id |-> i, key |-> k, ts |-> t]
AssignID(i, k, t) == [type |-> "assign", id |-> i, key |-> k, ts |-> t]

(* sendControl reads id and socket under the lock ...                        *)
SendControlRead(c) ==
  /\ snap[c]["maintain"] = <<>> /\ lastTS < MaxStamp
  /\ snap' = [snap EXCEPT ![c]["maintain"] = <<curID[c], conn[c]>>]
  /\ UNCHANGED <<vars, claims, conn, net, minted>>

(* ... and stamps and writes outside it; on a socket closed since, the write *)
(* fails.                                                                    *)
SendControlWrite(c, g) ==
  /\ snap[c][g] # <<>>
  /\ snap' = [snap EXCEPT ![c][g] = <<>>]
  /\ \/ /\ snap[c][g][2] = conn[c] /\ Stamp
        /\ net' = net \cup {RegisterMsg(snap[c][g][1], conn[c], lastTS')}
     \/ snap[c][g][2] # conn[c] /\ UNCHANGED <<lastTS, net>>
  /\ UNCHANGED <<vars, conn, curID, minted>>

(* The addresses a freshly dialled socket may get.                           *)
FreePorts(c) == PortsOf[c] \ {conn[c]}

(* Reconnect swaps in a freshly dialled socket, closes the old one and then  *)
(* sends a register, as any sendControl in two steps.  If the dial fails     *)
(* nothing changes.                                                          *)
Reconnect(c) ==
  /\ snap[c]["reconnect"] = <<>> /\ lastTS < MaxStamp
  /\ \E k \in FreePorts(c) :
       /\ conn' = [conn EXCEPT ![c] = k]
       /\ snap' = [snap EXCEPT ![c]["reconnect"] = <<curID[c], k>>]
  /\ UNCHANGED <<vars, claims, net, minted>>

(* The client process restarts and registers; the id is kept nowhere.        *)
Restart(c) ==
  /\ lastTS < MaxStamp
  /\ \E k \in FreePorts(c) \cup {conn[c]} : conn' = [conn EXCEPT ![c] = k]
  /\ curID' = [curID EXCEPT ![c] = Zero]
  /\ snap' = [snap EXCEPT ![c] = [NoSends EXCEPT !["maintain"] = <<Zero, conn'[c]>>]]
  /\ UNCHANGED <<vars, lastTS, net, minted>>

(* Slip: the source port is left out of the key, so clients behind one NAT   *)
(* address look like one peer.                                               *)
ListenRecv_hostKey ==
  \E m \in net :
    /\ m.type = "register"
    /\ \E id \in IF m.id = Zero /\ live # {} THEN live ELSE Candidates(m.id, m.key) \ (minted \ live) :
         \/ /\ Admits(id, m.ts) /\ Bind(id, m.key, m.ts)
            /\ minted' = minted \cup {id}
            /\ net' = IF m.id = Zero THEN net \cup {AssignID(id, m.key, m.ts)} ELSE net
         \/ ~Admits(id, m.ts) /\ UNCHANGED <<peers, minted, net>>
    /\ UNCHANGED <<multiple, single, singleTS, claims, sockets>>

(* Slip: the sinks share the read loop's address (no cloneUDPAddr), so each  *)
(* datagram points them all at its sender.                                   *)
ListenRecv_noClone ==
  \E m \in net :
    /\ m.type = "register"
    /\ \E id \in Candidates(m.id, m.key) :
         /\ m.id = Zero /\ id # byKey[m.key] => id \notin minted
         /\ Admits(id, m.ts)
         /\ live' = live \cup {id} /\ byKey' = Reindex(id, m.key)
         /\ key' = [i \in Ids |-> IF i \in live' THEN m.key ELSE key[i]]
         /\ ts' = [ts EXCEPT ![id] = m.ts] /\ age' = [age EXCEPT ![id] = 0]
         /\ minted' = minted \cup {id}
         /\ net' = IF m.id = Zero THEN net \cup {AssignID(id, m.key, m.ts)} ELSE net
    /\ UNCHANGED <<multiple, single, singleTS, claims, sockets>>

(* The ListenOut takes a register: the registry decides, and an id-less      *)
(* register is answered with the assigned id.  A minted id is 32 random bits *)
(* and taken to be one never handed out before.                              *)
ListenRecv ==
  \E m \in net :
    /\ m.type = "register"
    /\ \E id \in Candidates(m.id, m.key) :
         /\ m.id = Zero /\ id # byKey[m.key] => id \notin minted
         /\ \/ /\ Admits(id, m.ts) /\ Bind(id, m.key, m.ts)
               /\ minted' = minted \cup {id}
               /\ net' = IF m.id = Zero THEN net \cup {AssignID(id, m.key, m.ts)} ELSE net
            \/ ~Admits(id, m.ts) /\ UNCHANGED <<peers, minted, net>>
    /\ UNCHANGED <<multiple, single, singleTS, claims, sockets>>

(* The client takes an assignment that arrives at its socket, whatever its   *)
(* stamp.                                                                    *)
ClientRecv(c) ==
  \E m \in net :
    /\ m.type = "assign" /\ m.key = conn[c]
    /\ curID' = [curID EXCEPT ![c] = m.id]
    /\ UNCHANGED <<vars, conn, snap, lastTS, net, minted>>

(* The ListenOut's process restarts with an empty registry.                  *)
ListenRestart ==
  /\ live # {}
  /\ live' = {} /\ byKey' = [k \in Keys |-> Zero] /\ Forget(Ids)
  /\ UNCHANGED <<multiple, single, singleTS, claims, sockets, net, minted>>

PeersTime == (GC \/ Tick) /\ UNCHANGED <<claims, sockets, net, minted>>

AttachNext ==
  \/ \E c \in Clients : \/ SendControlRead(c) \/ Reconnect(c) \/ Restart(c) \/ ClientRecv(c)
                        \/ \E g \in Senders : SendControlWrite(c, g)
  \/ ListenRecv \/ ListenRestart \/ PeersTime

AttachSpec == AttachInit /\ [][AttachNext]_allVars

----------------------------------------------------------------------------
(* "it mints a fresh 4-byte owner for each peer that attaches"               *)
(* (docs/protocol.md:106): no two clients ever hold the same owner, through  *)
(* moves, restarts of either side, expiry and late or repeated datagrams.    *)
OwnersDistinct ==
  \A c, d \in Clients : c # d /\ curID[c] = curID[d] => curID[c] = Zero

(* A packet for a client's owner is never sent to another client's socket.   *)
NoMisdelivery ==
  \A c, d \in Clients : c # d /\ curID[c] # Zero => SinkFor(curID[c]) # conn[d]

=============================================================================
