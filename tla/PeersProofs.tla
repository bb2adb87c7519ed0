----------------------------- MODULE PeersProofs -----------------------------
(***************************************************************************)
(* The registry of downstream peers, for any ids, transports, stamps, cap  *)
(* and ttl: on its own (key index, cap, freshness, ReturnPath) and under   *)
(* the udp attachment (UdpAttach).  TcpDownProofs has the tcp streams.     *)
(***************************************************************************)
EXTENDS UdpAttach, FiniteSetTheorems, TLAPS

IInv == TypeOK /\ KeyIndex /\ PeersCapped

(* An empty registry satisfies the invariant.                                *)
LEMMA InitIInv == Init => IInv
<1> SUFFICES ASSUME Init PROVE IInv
  OBVIOUS
<1>1. TypeOK /\ KeyIndex
  BY IdAssumption, LimitAssumption DEF Init, TypeOK, KeyIndex
<1>2. PeersCapped
  BY FS_EmptySet, LimitAssumption DEF Init, PeersCapped
<1> QED BY <1>1, <1>2 DEF IInv

(* The id a register is about is a proper id, and one minted is not in use.  *)
LEMMA CandidateIsId ==
  ASSUME TypeOK, NEW c \in Ids \cup {Zero}, NEW k \in Keys
  PROVE  /\ Candidates(c, k) \subseteq Ids
         /\ c = Zero => \A id \in Candidates(c, k) : id = byKey[k] \/ id \notin live
BY DEF TypeOK, Candidates

(* Binding an admitted id keeps types, index and cap.                        *)
LEMMA BindIInv ==
  ASSUME IInv, NEW id \in Ids, NEW k \in Keys, NEW t \in Nat, Admits(id, t), Bind(id, k, t),
         UNCHANGED <<multiple, single, singleTS>>
  PROVE  IInv'
<1>0. t \in Nat /\ id # Zero /\ TTL \in Nat /\ 0 \in 0..(TTL + 1) /\ k # NoKey
  BY IdAssumption, LimitAssumption
<1>1. TypeOK'
  <2>1. byKey' \in [Keys -> Ids \cup {Zero}]
    BY DEF Bind, Reindex, IInv, TypeOK
  <2>2. age' \in [Ids -> 0..(TTL + 1)]
    BY <1>0 DEF Bind, IInv, TypeOK
  <2>3. ts' \in [Ids -> Nat] /\ key' \in [Ids -> Keys \cup {NoKey}] /\ live' \subseteq Ids
    BY <1>0 DEF Bind, IInv, TypeOK
  <2>4. \A i \in Ids : i \in live' <=> key'[i] \in Keys
    BY <1>0 DEF Bind, IInv, TypeOK
  <2> QED BY <2>1, <2>2, <2>3, <2>4 DEF IInv, TypeOK
<1>2. KeyIndex'
  <2> SUFFICES ASSUME NEW j \in Keys, byKey'[j] # Zero
               PROVE  byKey'[j] \in live' /\ key'[byKey'[j]] = j
    BY DEF KeyIndex
  <2>1. CASE key[id] = k
    <3>1. byKey' = byKey /\ key' = key /\ live \subseteq live'
      BY <2>1 DEF Bind, Reindex, IInv, TypeOK
    <3> QED BY <3>1 DEF IInv, KeyIndex
  <2>2. CASE key[id] # k
    <3>1. byKey'[j] = IF j = k THEN id ELSE IF j = key[id] THEN Zero ELSE byKey[j]
      BY <2>2 DEF Bind, Reindex
    <3>2. CASE j = k
      BY <3>1, <3>2 DEF Bind, IInv, TypeOK
    <3>3. CASE j # k
      <4>1. byKey'[j] = byKey[j] /\ j # key[id] /\ byKey[j] # Zero
        BY <3>1, <3>3
      <4>2. byKey[j] \in live /\ key[byKey[j]] = j
        BY <4>1 DEF IInv, KeyIndex
      <4>3. byKey[j] # id
        BY <4>1, <4>2
      <4> QED BY <4>1, <4>2, <4>3 DEF Bind, IInv, TypeOK
    <3> QED BY <3>2, <3>3
  <2> QED BY <2>1, <2>2
<1>3. PeersCapped'
  <2>1. CASE id \in live
    <3>1. live' = live BY <2>1 DEF Bind
    <3> QED BY <3>1 DEF IInv, PeersCapped
  <2>2. CASE id \notin live
    <3>1. IsFiniteSet(live) /\ Cardinality(live) < MaxPeers /\ live' = live \cup {id}
      BY <2>2 DEF Admits, Bind, IInv, PeersCapped
    <3>2. IsFiniteSet(live') /\ Cardinality(live') = Cardinality(live) + 1
      BY <2>2, <3>1, FS_AddElement
    <3>3. Cardinality(live) \in Nat
      BY <3>1, FS_CardinalityType
    <3> QED BY <3>1, <3>2, <3>3, LimitAssumption DEF PeersCapped
  <2> QED BY <2>1, <2>2
<1> QED BY <1>1, <1>2, <1>3 DEF IInv

(* Register, GC and the passing of time keep the invariant.                  *)
LEMMA NextIInv == IInv /\ [Next]_vars => IInv'
<1> SUFFICES ASSUME IInv, [Next]_vars PROVE IInv'
  OBVIOUS
<1>s. ASSUME UNCHANGED <<multiple, peers, single, singleTS>> PROVE IInv'
  BY <1>s DEF peers, IInv, TypeOK, KeyIndex, PeersCapped
<1>1. ASSUME NEW c \in Ids \cup {Zero}, NEW k \in Keys, NEW t \in Stamps, RegisterPeer(c, k, t)
      PROVE  IInv'
  <2>1. PICK id \in Candidates(c, k) :
          (Admits(id, t) /\ Bind(id, k, t)) \/ (~Admits(id, t) /\ UNCHANGED peers)
    BY <1>1 DEF RegisterPeer
  <2>2. id \in Ids /\ UNCHANGED <<multiple, single, singleTS>>
    BY <1>1, CandidateIsId DEF RegisterPeer, IInv
  <2>3. CASE Admits(id, t) /\ Bind(id, k, t)
    BY <2>2, <2>3, BindIInv, LimitAssumption
  <2>4. CASE UNCHANGED peers
    BY <2>2, <2>4, <1>s
  <2> QED BY <2>1, <2>3, <2>4
<1>2. ASSUME NEW k \in Keys, NEW t \in Stamps, RegisterSingle(k, t) PROVE IInv'
  BY <1>2, LimitAssumption DEF RegisterSingle, peers, IInv, TypeOK, KeyIndex, PeersCapped
<1>3. CASE GC
  <2>0. live' \subseteq live /\ TTL \in Nat /\ 0 \in 0..(TTL + 1)
    BY <1>3, LimitAssumption DEF GC
  <2>1. TypeOK'
    <3>1. key' \in [Ids -> Keys \cup {NoKey}] /\ ts' \in [Ids -> Nat] /\ byKey' \in [Keys -> Ids \cup {Zero}]
      BY <1>3 DEF GC, Forget, IInv, TypeOK
    <3>2. age' \in [Ids -> 0..(TTL + 1)]
      BY <1>3, <2>0 DEF GC, Forget, IInv, TypeOK
    <3>3. \A i \in Ids : i \in live' <=> key'[i] \in Keys
      BY <1>3, <2>0, IdAssumption DEF GC, Forget, IInv, TypeOK
    <3> QED BY <1>3, <2>0, <3>1, <3>2, <3>3 DEF GC, IInv, TypeOK
  <2>2. KeyIndex'
    BY <1>3, <2>0, IdAssumption DEF GC, Forget, IInv, TypeOK, KeyIndex
  <2>3. PeersCapped'
    <3>1. IsFiniteSet(live) /\ IsFiniteSet(live') /\ Cardinality(live') <= Cardinality(live)
      BY <2>0, FS_Subset DEF IInv, PeersCapped
    <3>2. Cardinality(live) \in Nat /\ Cardinality(live') \in Nat
      BY <3>1, FS_CardinalityType
    <3> QED BY <3>1, <3>2, LimitAssumption DEF IInv, PeersCapped
  <2> QED BY <2>1, <2>2, <2>3 DEF IInv
<1>4. CASE Tick
  <2>1. age' \in [Ids -> 0..(TTL + 1)]
    BY <1>4, LimitAssumption DEF Tick, IInv, TypeOK
  <2> QED BY <1>4, <2>1 DEF Tick, IInv, TypeOK, KeyIndex, PeersCapped
<1>5. CASE UNCHANGED vars
  BY <1>5, <1>s DEF vars
<1> QED BY <1>1, <1>2, <1>3, <1>4, <1>5 DEF Next

(* Types, key index and cap hold throughout.                                 *)
THEOREM PeersInvariant == Spec => []IInv
BY InitIInv, NextIInv, PTL DEF Spec

(* Every key entry names a tracked peer that sits at that key.               *)
THEOREM NoDanglingKey == Spec => []KeyIndex
<1>1. IInv => KeyIndex BY DEF IInv
<1> QED BY <1>1, PeersInvariant, PTL

(* However many registers arrive, at most MaxPeers peers are tracked.        *)
THEOREM FloodBounded == Spec => []PeersCapped
<1>1. IInv => PeersCapped BY DEF IInv
<1> QED BY <1>1, PeersInvariant, PTL

(* No delayed or repeated control turns a tracked peer's return path back.   *)
THEOREM ReturnPathFresh == Spec => FreshWins
<1> DEFINE Moves == /\ \A i \in live \cap live' : key'[i] # key[i] => ts'[i] > ts[i]
                    /\ single' # single => singleTS' > singleTS
<1>1. IInv /\ [Next]_vars => [Moves]_vars
  <2> SUFFICES ASSUME IInv, Next PROVE Moves
    OBVIOUS
  <2>1. ASSUME NEW c \in Ids \cup {Zero}, NEW k \in Keys, NEW t \in Stamps, RegisterPeer(c, k, t)
        PROVE  Moves
    <3>1. PICK id \in Candidates(c, k) :
            (Admits(id, t) /\ Bind(id, k, t)) \/ (~Admits(id, t) /\ UNCHANGED peers)
      BY <2>1 DEF RegisterPeer
    <3>2. id \in Ids /\ single' = single
      BY <2>1, CandidateIsId DEF RegisterPeer, IInv
    <3> QED BY <3>1, <3>2 DEF Admits, Bind, peers, IInv, TypeOK
  <2>2. ASSUME NEW k \in Keys, NEW t \in Stamps, RegisterSingle(k, t) PROVE Moves
    BY <2>2 DEF RegisterSingle, peers
  <2>3. CASE GC
    BY <2>3 DEF GC, Forget, IInv, TypeOK
  <2>4. CASE Tick
    BY <2>4 DEF Tick
  <2> QED BY <2>1, <2>2, <2>3, <2>4 DEF Next
<1> QED BY <1>1, PeersInvariant, PTL DEF Spec, FreshWins

(* A register without an id leaves every peer at another transport alone.    *)
THEOREM MintStealsNothing == Spec => ZeroNeverSteals
<1> DEFINE Keeps == \A k \in Keys, t \in Stamps :
       RegisterPeer(Zero, k, t) =>
         \A i \in live : key'[i] # key[i] \/ ts'[i] # ts[i] => key[i] = k
<1>1. IInv => Keeps
  <2> SUFFICES ASSUME IInv, NEW k \in Keys, NEW t \in Stamps, RegisterPeer(Zero, k, t),
                      NEW i \in live, key'[i] # key[i] \/ ts'[i] # ts[i]
               PROVE  key[i] = k
    OBVIOUS
  <2>1. PICK id \in Candidates(Zero, k) :
          (Admits(id, t) /\ Bind(id, k, t)) \/ (~Admits(id, t) /\ UNCHANGED peers)
    BY DEF RegisterPeer
  <2>2. id \in Ids /\ (id = byKey[k] \/ id \notin live)
    BY CandidateIsId DEF IInv
  <2>3. i = id
    BY <2>1, <2>2 DEF Bind, peers, IInv, TypeOK
  <2> QED BY <2>2, <2>3, IdAssumption DEF IInv, KeyIndex, TypeOK
<1> QED BY <1>1, PeersInvariant, PTL DEF Spec, ZeroNeverSteals

(* The mode is fixed, and each mode leaves the other's state empty.          *)
OneMode == /\ multiple \in BOOLEAN
           /\ multiple => single = NoKey
           /\ ~multiple => live = {}

(* No method touches the state of the other mode.                            *)
LEMMA OneModeStep == OneMode /\ [Next]_vars => OneMode'
<1> SUFFICES ASSUME OneMode, [Next]_vars PROVE OneMode'
  OBVIOUS
<1>1. ASSUME NEW c \in Ids \cup {Zero}, NEW k \in Keys, NEW t \in Stamps, RegisterPeer(c, k, t)
      PROVE  OneMode'
  BY <1>1 DEF RegisterPeer, OneMode
<1>2. ASSUME NEW k \in Keys, NEW t \in Stamps, RegisterSingle(k, t) PROVE OneMode'
  BY <1>2 DEF RegisterSingle, peers, OneMode
<1>3. CASE GC
  BY <1>3 DEF GC, OneMode
<1>4. CASE Tick
  BY <1>4 DEF Tick, OneMode
<1>5. CASE UNCHANGED vars
  BY <1>5 DEF vars, peers, OneMode
<1> QED BY <1>1, <1>2, <1>3, <1>4, <1>5 DEF Next

(* A registry keeps to the mode it was made in.                              *)
LEMMA OneModeHolds == Spec => []OneMode
<1>1. Init => OneMode
  BY DEF Init, OneMode
<1> QED BY <1>1, OneModeStep, PTL DEF Spec

(* An owner is attached just when it is tracked, or is the one peer.         *)
LEMMA WhoIsAttached ==
  Return!Attached = (live \cap Ids) \cup {o \in {Zero} : single # NoKey}
BY IdAssumption DEF Return!Attached, Return!Off, Attachments

(* ReturnPath counts as the registry does.                                   *)
LEMMA SameCount == \A S : Return!Cardinality(S) = Cardinality(S)
BY Zenon DEF Return!Cardinality, Cardinality

(* Every step of the registry is a step of ReturnPath, or changes no return  *)
(* path.                                                                     *)
LEMMA StepKeepsPaths == IInv /\ OneMode /\ [Next]_vars => [Return!Next]_Attachments
<1> SUFFICES ASSUME IInv, OneMode, [Next]_vars PROVE Return!Next \/ Attachments' = Attachments
  OBVIOUS
<1>s. ASSUME UNCHANGED <<live, key, ts, single, singleTS>> PROVE Attachments' = Attachments
  BY <1>s DEF Attachments
<1>1. ASSUME NEW c \in Ids \cup {Zero}, NEW k \in Keys, NEW t \in Stamps, RegisterPeer(c, k, t)
      PROVE  Return!Next \/ Attachments' = Attachments
  <2>1. PICK id \in Candidates(c, k) :
          (Admits(id, t) /\ Bind(id, k, t)) \/ (~Admits(id, t) /\ UNCHANGED peers)
    BY <1>1 DEF RegisterPeer
  <2>2. id \in Ids /\ id # Zero /\ multiple /\ UNCHANGED <<multiple, single, singleTS>>
    BY <1>1, CandidateIsId, IdAssumption DEF RegisterPeer, IInv
  <2>3. CASE Admits(id, t) /\ Bind(id, k, t)
    <3>1. Attachments' = [Attachments EXCEPT ![id] = <<k, t>>]
      BY <2>2, <2>3, Zenon DEF Bind, Attachments, IInv, TypeOK
    <3>2. Attachments[id] = IF id \in live THEN <<key[id], ts[id]>> ELSE <<>>
      BY <2>2 DEF Attachments
    <3>3. Return!Attached = live
      BY <2>2, WhoIsAttached DEF OneMode, IInv, TypeOK
    <3>4. IF Attachments[id] = <<>> THEN Cardinality(live) < MaxPeers ELSE t > Attachments[id][2]
      BY <2>3, <3>2 DEF Admits
    <3>5. Return!Attach(id, k, t)
      BY <3>1, <3>3, <3>4, SameCount DEF Return!Attach, Return!Off
    <3> QED BY <2>2, <3>5 DEF Return!Next
  <2>4. CASE UNCHANGED peers
    BY <2>2, <2>4, <1>s DEF peers
  <2> QED BY <2>1, <2>3, <2>4
<1>2. ASSUME NEW k \in Keys, NEW t \in Stamps, RegisterSingle(k, t)
      PROVE  Return!Next
  <2>1. Attachments' = [Attachments EXCEPT ![Zero] = <<k, t>>]
    BY <1>2, IdAssumption, Zenon DEF RegisterSingle, peers, Attachments
  <2>2. Attachments[Zero] = IF single = NoKey THEN <<>> ELSE <<single, singleTS>>
    BY DEF Attachments
  <2>3. single = NoKey => Return!Attached = {}
    BY <1>2, WhoIsAttached DEF RegisterSingle, OneMode
  <2>4. IF Attachments[Zero] = <<>> THEN Cardinality(Return!Attached) < MaxPeers
        ELSE t > Attachments[Zero][2]
    <3>1. Cardinality({}) = 0
      BY FS_EmptySet
    <3> QED BY <1>2, <2>2, <2>3, <3>1, LimitAssumption DEF RegisterSingle
  <2>5. Return!Attach(Zero, k, t)
    BY <2>1, <2>4, SameCount DEF Return!Attach, Return!Off
  <2> QED BY <2>5 DEF Return!Next
<1>3. CASE GC
  <2> DEFINE gone == live \ live'
  <2>1. UNCHANGED <<multiple, single, singleTS>> /\ live' \subseteq live /\ multiple
    BY <1>3 DEF GC
  <2>2. gone \in SUBSET Return!Attached
    BY WhoIsAttached DEF IInv, TypeOK
  <2>3. Attachments' = [o \in Ids \cup {Zero} |-> IF o \in gone THEN <<>> ELSE Attachments[o]]
    BY <1>3, <2>1, IdAssumption, Zenon DEF GC, Forget, Attachments, IInv, TypeOK
  <2>4. Return!Detach(gone)
    BY <2>3 DEF Return!Detach, Return!Off
  <2> QED BY <2>2, <2>4 DEF Return!Next
<1>4. CASE Tick
  BY <1>4, <1>s DEF Tick
<1>5. CASE UNCHANGED vars
  BY <1>5, <1>s DEF vars, peers
<1> QED BY <1>1, <1>2, <1>3, <1>4, <1>5 DEF Next

(* The registry implements ReturnPath: whatever is registered, in whatever   *)
(* order, an attached owner moves only to a fresher stream and the cap holds.*)
THEOREM RegistryImplementsReturnPath == Spec => KeepsReturnPath
<1>1. Init => Return!Init
  BY DEF Init, Return!Init, Return!Off, Attachments
<1> QED BY <1>1, StepKeepsPaths, PeersInvariant, OneModeHolds, PTL DEF Spec, KeepsReturnPath, Return!Spec

----------------------------------------------------------------------------
(* The udp attachment.                                                       *)
OwnerIds == Ids \cup {Zero}

(* Sockets, claims, sends under way and datagrams have their types, and every*)
(* address in use is one of the clients'.                                    *)
AttachTypeOK ==
  /\ multiple
  /\ conn \in [Clients -> Keys] /\ \A c \in Clients : conn[c] \in PortsOf[c]
  /\ curID \in [Clients -> OwnerIds]
  /\ snap \in [Clients -> [Senders -> {<<>>} \cup (OwnerIds \X Keys)]]
  /\ lastTS \in Nat
  /\ net \subseteq [type : {"register", "assign"}, id : OwnerIds, key : Keys, ts : Nat]
  /\ \A m \in net : \E c \in Clients : m.key \in PortsOf[c]

(* Where client c's id i may be met: its claim, a send under way, a datagram *)
(* from or to its addresses, a registry entry that leads to one.             *)
Met(c, i) ==
  \/ curID[c] = i
  \/ \E g \in Senders : snap[c][g] # <<>> /\ snap[c][g][1] = i
  \/ \E m \in net : m.id = i /\ m.key \in PortsOf[c]
  \/ i \in live /\ key[i] \in PortsOf[c]

(* An id met at a client was minted, and is met at no other.                 *)
OneHolder ==
  \A i \in Ids, c \in Clients : Met(c, i) =>
    /\ i \in minted
    /\ \A d \in Clients : Met(d, i) => d = c

AttachInv == IInv /\ AttachTypeOK /\ OneHolder

(* An address belongs to one client.                                         *)
LEMMA OneHome ==
  ASSUME NEW c \in Clients, NEW d \in Clients, NEW k, k \in PortsOf[c], k \in PortsOf[d]
  PROVE  c = d
BY PortAssumption

(* A step after which no id is met at a client it was not met at before.     *)
LEMMA HolderKept ==
  ASSUME OneHolder, minted \subseteq minted',
         \A i \in Ids, c \in Clients : Met(c, i)' => Met(c, i)
  PROVE  OneHolder'
BY DEF OneHolder

(* At first no id has been minted.                                           *)
LEMMA AttachInitInv == AttachInit => AttachInv
<1> SUFFICES ASSUME AttachInit PROVE AttachInv
  OBVIOUS
<1>1. IInv
  BY InitIInv DEF AttachInit
<1>2. AttachTypeOK
  BY DEF AttachInit, ClaimsInit, AttachTypeOK, OwnerIds, NoSends
<1>3. OneHolder
  <2> SUFFICES ASSUME NEW i \in Ids, NEW c \in Clients PROVE ~Met(c, i)
    BY DEF OneHolder
  <2> QED BY IdAssumption DEF AttachInit, ClaimsInit, Init, Met, NoSends
<1> QED BY <1>1, <1>2, <1>3 DEF AttachInv

(* The client's own steps.                                                   *)
LEMMA ClientKeepsHolder ==
  ASSUME AttachInv, NEW c \in Clients,
         \/ SendControlRead(c) \/ Reconnect(c) \/ Restart(c) \/ ClientRecv(c)
         \/ \E g \in Senders : SendControlWrite(c, g)
  PROVE  AttachTypeOK' /\ OneHolder'
<1> USE DEF AttachInv
<1>p. PortsOf \in [Clients -> SUBSET Keys]
  BY PortAssumption
<1>1. CASE SendControlRead(c)
  <2>1. snap' = [snap EXCEPT ![c] = [snap[c] EXCEPT !["maintain"] = <<curID[c], conn[c]>>]]
    BY <1>1 DEF SendControlRead
  <2>2. AttachTypeOK'
    BY <1>1, <2>1 DEF SendControlRead, claims, AttachTypeOK, vars, Senders
  <2>3. ASSUME NEW i \in Ids, NEW d \in Clients, Met(d, i)' PROVE Met(d, i)
    BY <1>1, <2>1, <2>3 DEF SendControlRead, claims, AttachTypeOK, vars, peers, Senders, Met
  <2> QED BY <1>1, <2>2, <2>3, HolderKept DEF SendControlRead
<1>2. CASE Reconnect(c)
  <2>1. PICK k \in FreePorts(c) :
          /\ conn' = [conn EXCEPT ![c] = k]
          /\ snap' = [snap EXCEPT ![c] = [snap[c] EXCEPT !["reconnect"] = <<curID[c], k>>]]
    BY <1>2, Zenon DEF Reconnect
  <2>2. AttachTypeOK'
    BY <1>2, <1>p, <2>1, Zenon DEF Reconnect, claims, AttachTypeOK, vars, Senders, FreePorts
  <2>3. ASSUME NEW i \in Ids, NEW d \in Clients, Met(d, i)' PROVE Met(d, i)
    BY <1>2, <2>1, <2>3 DEF Reconnect, claims, AttachTypeOK, vars, peers, Senders, Met
  <2> QED BY <1>2, <2>2, <2>3, HolderKept DEF Reconnect
<1>3. CASE Restart(c)
  <2>1. PICK k \in FreePorts(c) \cup {conn[c]} : conn' = [conn EXCEPT ![c] = k]
    BY <1>3, Zenon DEF Restart
  <2>2. /\ k \in PortsOf[c] /\ conn'[c] = k
        /\ snap' = [snap EXCEPT ![c] = [NoSends EXCEPT !["maintain"] = <<Zero, k>>]]
    BY <1>3, <2>1 DEF Restart, AttachTypeOK, FreePorts
  <2>3. AttachTypeOK'
    <3>1. [NoSends EXCEPT !["maintain"] = <<Zero, k>>] \in [Senders -> {<<>>} \cup (OwnerIds \X Keys)]
      BY <1>p, <2>2, Zenon DEF NoSends, OwnerIds
    <3> QED BY <1>3, <1>p, <2>1, <2>2, <3>1 DEF Restart, AttachTypeOK, vars, OwnerIds
  <2>4. ASSUME NEW i \in Ids, NEW d \in Clients, Met(d, i)' PROVE Met(d, i)
    BY <1>3, <2>1, <2>2, <2>4, IdAssumption
       DEF Restart, AttachTypeOK, vars, peers, Senders, NoSends, Met
  <2> QED BY <1>3, <2>3, <2>4, HolderKept DEF Restart
<1>4. CASE ClientRecv(c)
  <2>1. PICK m \in net : m.key = conn[c] /\ curID' = [curID EXCEPT ![c] = m.id]
    BY <1>4, Zenon DEF ClientRecv
  <2>2. AttachTypeOK'
    BY <1>4, <2>1 DEF ClientRecv, AttachTypeOK, vars
  <2>3. ASSUME NEW i \in Ids, NEW d \in Clients, Met(d, i)' PROVE Met(d, i)
    BY <1>4, <2>1, <2>3 DEF ClientRecv, AttachTypeOK, vars, peers, Met
  <2> QED BY <1>4, <2>2, <2>3, HolderKept, Zenon DEF ClientRecv
<1>5. ASSUME NEW g \in Senders, SendControlWrite(c, g) PROVE AttachTypeOK' /\ OneHolder'
  <2>1. snap' = [snap EXCEPT ![c] = [snap[c] EXCEPT ![g] = <<>>]]
    BY <1>5 DEF SendControlWrite
  <2>2. snap[c][g] \in OwnerIds \X Keys
    BY <1>5 DEF SendControlWrite, Stamp, AttachTypeOK
  <2>3. CASE /\ lastTS' = lastTS + 1
             /\ net' = net \cup {RegisterMsg(snap[c][g][1], conn[c], lastTS')}
    <3>1. AttachTypeOK'
      BY <1>5, <2>1, <2>2, <2>3, SMTT(20) DEF SendControlWrite, Stamp, AttachTypeOK, vars, RegisterMsg
    <3>2. ASSUME NEW i \in Ids, NEW d \in Clients, Met(d, i)' PROVE Met(d, i)
      <4>1. UNCHANGED <<curID, live, key>>
        BY <1>5 DEF SendControlWrite, Stamp, vars, peers
      <4>2. CASE curID'[d] = i \/ (i \in live' /\ key'[i] \in PortsOf[d])
        BY <4>1, <4>2 DEF Met
      <4>3. ASSUME NEW h \in Senders, snap'[d][h] # <<>>, snap'[d][h][1] = i PROVE Met(d, i)
        <5>1. snap[d][h] # <<>> /\ snap[d][h][1] = i
          BY <2>1, <4>3 DEF AttachTypeOK
        <5> QED BY <5>1 DEF Met
      <4>4. ASSUME NEW m \in net', m.id = i, m.key \in PortsOf[d] PROVE Met(d, i)
        <5>1. CASE m \in net
          BY <4>4, <5>1 DEF Met
        <5>2. CASE m = RegisterMsg(snap[c][g][1], conn[c], lastTS')
          <6>1. m.id = snap[c][g][1] /\ m.key = conn[c]
            BY <5>2 DEF RegisterMsg
          <6>2. d = c
            BY <4>4, <6>1, OneHome DEF AttachTypeOK
          <6>3. snap[c][g] # <<>>
            BY <1>5 DEF SendControlWrite
          <6> QED BY <4>4, <6>1, <6>2, <6>3 DEF Met
        <5> QED BY <2>3, <4>4, <5>1, <5>2
      <4> QED BY <3>2, <4>2, <4>3, <4>4 DEF Met
    <3> QED BY <1>5, <3>1, <3>2, HolderKept DEF SendControlWrite
  <2>4. CASE UNCHANGED <<lastTS, net>>
    <3>1. AttachTypeOK'
      BY <1>5, <2>1, <2>4, SMTT(20) DEF SendControlWrite, Stamp, AttachTypeOK, vars
    <3>2. ASSUME NEW i \in Ids, NEW d \in Clients, Met(d, i)' PROVE Met(d, i)
      BY <1>5, <2>1, <2>4, <3>2, SMTT(20) DEF SendControlWrite, Stamp, AttachTypeOK, vars, peers, Met
    <3> QED BY <1>5, <3>1, <3>2, HolderKept DEF SendControlWrite
  <2> QED BY <1>5, <2>3, <2>4 DEF SendControlWrite, Stamp
<1> QED BY <1>1, <1>2, <1>3, <1>4, <1>5

(* The ListenOut's receipt: a claimed id and a known address's id are met at *)
(* the sender already, a fresh one nowhere.                                  *)
LEMMA ListenRecvInv == AttachInv /\ ListenRecv => AttachInv'
<1> SUFFICES ASSUME AttachInv, ListenRecv PROVE AttachInv'
  BY Zenon
<1>1. PICK m \in net :
        /\ m.type = "register"
        /\ \E id \in Candidates(m.id, m.key) :
             /\ m.id = Zero /\ id # byKey[m.key] => id \notin minted
             /\ \/ /\ Admits(id, m.ts) /\ Bind(id, m.key, m.ts)
                   /\ minted' = minted \cup {id}
                   /\ net' = IF m.id = Zero THEN net \cup {AssignID(id, m.key, m.ts)} ELSE net
                \/ ~Admits(id, m.ts) /\ UNCHANGED <<peers, minted, net>>
  BY DEF ListenRecv
<1>2. PICK id \in Candidates(m.id, m.key) :
             /\ m.id = Zero /\ id # byKey[m.key] => id \notin minted
             /\ \/ /\ Admits(id, m.ts) /\ Bind(id, m.key, m.ts)
                   /\ minted' = minted \cup {id}
                   /\ net' = IF m.id = Zero THEN net \cup {AssignID(id, m.key, m.ts)} ELSE net
                \/ ~Admits(id, m.ts) /\ UNCHANGED <<peers, minted, net>>
  BY <1>1
<1>3. /\ m.id \in Ids \cup {Zero} /\ m.key \in Keys /\ m.ts \in Nat
      /\ UNCHANGED <<multiple, single, singleTS, claims, sockets>>
  BY DEF AttachInv, AttachTypeOK, OwnerIds, ListenRecv
<1>4. id \in Ids
  BY <1>3, CandidateIsId DEF AttachInv, IInv
<1>5. CASE /\ Admits(id, m.ts) /\ Bind(id, m.key, m.ts)
           /\ minted' = minted \cup {id}
           /\ net' = IF m.id = Zero THEN net \cup {AssignID(id, m.key, m.ts)} ELSE net
  <2>1. IInv'
    BY <1>3, <1>4, <1>5, BindIInv DEF AttachInv
  <2>2. PICK home \in Clients : m.key \in PortsOf[home]
    BY DEF AttachInv, AttachTypeOK
  <2>3. AttachTypeOK'
    BY <1>3, <1>4, <1>5, <2>2 DEF AttachInv, AttachTypeOK, claims, sockets, AssignID, OwnerIds
  <2>4. Met(home, id) \/ id \notin minted
    <3>1. CASE m.id # Zero
      BY <1>2, <2>2, <3>1 DEF Candidates, Met
    <3>2. CASE m.id = Zero /\ id = byKey[m.key]
      BY <1>3, <1>4, <2>2, <3>2, IdAssumption DEF Met, AttachInv, IInv, KeyIndex
    <3> QED BY <1>2, <3>1, <3>2
  <2>5. ASSUME NEW i \in Ids, NEW c \in Clients, Met(c, i)'
        PROVE  Met(c, i) \/ (i = id /\ c = home)
    <3>1. UNCHANGED <<curID, snap>>
      BY <1>3 DEF claims, sockets
    <3>2. CASE i \in live' /\ key'[i] \in PortsOf[c]
      BY <1>4, <1>5, <2>2, <3>2, OneHome DEF Bind, Met, AttachInv, IInv, TypeOK
    <3>3. ASSUME NEW n \in net', n.id = i, n.key \in PortsOf[c]
          PROVE  Met(c, i) \/ (i = id /\ c = home)
      BY <1>5, <2>2, <3>3, OneHome DEF AssignID, Met
    <3> QED BY <2>5, <3>1, <3>2, <3>3 DEF Met
  <2>6. OneHolder'
    <3> SUFFICES ASSUME NEW i \in Ids, NEW c \in Clients, Met(c, i)',
                        NEW d \in Clients, Met(d, i)'
                 PROVE  i \in minted' /\ d = c
      BY DEF OneHolder
    <3> QED BY <1>5, <2>4, <2>5 DEF AttachInv, OneHolder
  <2> QED BY <2>1, <2>3, <2>6 DEF AttachInv
<1>6. CASE UNCHANGED <<peers, minted, net>>
  <2>1. IInv'
    BY <1>3, <1>6, NextIInv DEF AttachInv, vars
  <2>2. AttachTypeOK'
    BY <1>3, <1>6 DEF AttachInv, AttachTypeOK, claims, sockets
  <2>3. OneHolder'
    BY <1>3, <1>6 DEF AttachInv, OneHolder, Met, claims, sockets, peers
  <2> QED BY <2>1, <2>2, <2>3 DEF AttachInv
<1> QED BY <1>2, <1>5, <1>6

(* The registry's own steps only forget.                                     *)
LEMMA RegistryKeepsHolder == AttachInv /\ (ListenRestart \/ PeersTime) => AttachInv'
<1> SUFFICES ASSUME AttachInv, ListenRestart \/ PeersTime PROVE AttachInv'
  OBVIOUS
<1>1. UNCHANGED <<conn, curID, snap, lastTS, net, minted, multiple>>
  BY DEF ListenRestart, PeersTime, claims, sockets, GC, Tick
<1>2. AttachTypeOK'
  BY <1>1 DEF AttachInv, AttachTypeOK
<1>3. IInv' /\ \A i \in live' \cap Ids : i \in live /\ key'[i] = key[i]
  <2>1. CASE ListenRestart
    <3>1. TypeOK' /\ KeyIndex'
      BY <2>1, IdAssumption, LimitAssumption
         DEF ListenRestart, Forget, TypeOK, KeyIndex, AttachInv, IInv
    <3>2. PeersCapped'
      BY <2>1, FS_EmptySet, LimitAssumption DEF ListenRestart, PeersCapped
    <3> QED BY <2>1, <3>1, <3>2 DEF ListenRestart, IInv
  <2>2. CASE PeersTime
    <3>1. IInv'
      BY <2>2, NextIInv DEF PeersTime, Next, AttachInv
    <3> QED BY <2>2, <3>1 DEF PeersTime, GC, Tick, Forget
  <2> QED BY <2>1, <2>2
<1>4. ASSUME NEW i \in Ids, NEW c \in Clients, Met(c, i)' PROVE Met(c, i)
  BY <1>1, <1>3, <1>4 DEF Met
<1> QED BY <1>1, <1>2, <1>3, <1>4, HolderKept DEF AttachInv

(* Each client's ids stay its own, for any number of clients and addresses,  *)
(* through lost, repeated and reordered datagrams, moves and restarts.       *)
THEOREM AttachInvariant == AttachSpec => []AttachInv
<1>1. AttachInv /\ [AttachNext]_allVars => AttachInv'
  <2> SUFFICES ASSUME AttachInv, [AttachNext]_allVars PROVE AttachInv'
    OBVIOUS
  <2>1. ASSUME NEW c \in Clients,
               \/ SendControlRead(c) \/ Reconnect(c) \/ Restart(c) \/ ClientRecv(c)
               \/ \E g \in Senders : SendControlWrite(c, g)
        PROVE  AttachInv'
    <3>1. UNCHANGED vars
      BY <2>1 DEF SendControlRead, claims, Reconnect, Restart, ClientRecv, SendControlWrite
    <3>2. IInv'
      BY <3>1, NextIInv DEF AttachInv
    <3> QED BY <2>1, <3>2, ClientKeepsHolder DEF AttachInv
  <2>2. CASE UNCHANGED allVars
    <3>1. UNCHANGED vars
      BY <2>2 DEF allVars
    <3>2. IInv'
      BY <3>1, NextIInv, SMTT(20) DEF AttachInv
    <3>3. AttachTypeOK' /\ OneHolder'
      BY <2>2, <3>1 DEF AttachInv, AttachTypeOK, OneHolder, Met, allVars, vars, peers, claims, sockets
    <3> QED BY <3>2, <3>3 DEF AttachInv
  <2> QED BY <2>1, <2>2, ListenRecvInv, RegistryKeepsHolder DEF AttachNext
<1> QED BY <1>1, AttachInitInv, PTL DEF AttachSpec

(* No two clients ever hold the same owner id.                               *)
THEOREM OwnersStayDistinct == AttachSpec => []OwnersDistinct
<1>1. AttachInv => OwnersDistinct
  BY DEF AttachInv, AttachTypeOK, OwnerIds, OneHolder, Met, OwnersDistinct
<1> QED BY <1>1, AttachInvariant, PTL

(* A packet for a client's owner is never sent to another client's socket.   *)
THEOREM DeliveredHome == AttachSpec => []NoMisdelivery
<1>1. AttachInv => NoMisdelivery
  <2> SUFFICES ASSUME AttachInv, NEW c \in Clients, NEW d \in Clients, curID[c] # Zero,
                      SinkFor(curID[c]) = conn[d]
               PROVE  c = d
    BY DEF NoMisdelivery
  <2>1. curID[c] \in Ids /\ conn[d] \in PortsOf[d] /\ conn[d] \in Keys /\ multiple
    BY DEF AttachInv, AttachTypeOK, OwnerIds
  <2>2. curID[c] \in live /\ key[curID[c]] \in PortsOf[d]
    BY <2>1, IdAssumption DEF SinkFor
  <2> QED BY <2>1, <2>2 DEF AttachInv, OneHolder, Met
<1> QED BY <1>1, AttachInvariant, PTL

=============================================================================
