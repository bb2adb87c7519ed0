-------------------------------- MODULE Peers --------------------------------
(***************************************************************************)
(* internal/peers/peers.go: the registry of a ListenOut connection's       *)
(* downstream peers.  Each operation runs under the registry lock, so each *)
(* is one step.                                                            *)
(*                                                                         *)
(* byID is its domain `live' with the fields key, ts and age of each peer. *)
(* A peer's sink writes to the transport its key names (udp: the source    *)
(* address; tcp: the connection's remote address) and is replaced exactly  *)
(* when the key is, so the key stands for both.  byKey holds ids where the *)
(* code holds pointers: KeyIndex shows an entry always names a tracked     *)
(* peer, so comparing ids is comparing pointers.                           *)
(***************************************************************************)
EXTENDS Integers, FiniteSets

CONSTANTS
  Ids,        \* owner ids a peer may have
  Zero,       \* the unset id (wire.Owner{})
  Keys,       \* transport identities
  NoKey,      \* nil pointer in byKey / single
  MaxPeers,   \* cap on tracked peers
  Stamps,     \* control timestamps: the senders' clock readings, never 0
  TTL         \* session ttl, in clock steps

ASSUME IdAssumption == Zero \notin Ids /\ NoKey \notin Keys \cup Ids
ASSUME LimitAssumption ==
  /\ MaxPeers \in Nat \ {0} /\ TTL \in Nat
  /\ Stamps \subseteq Nat \ {0}

VARIABLES
  multiple,            \* "multiple" registry, else "single"; set once
  live, key, ts, age,  \* byID
  byKey,
  single, singleTS     \* the one peer of single mode and its last stamp

peers == <<live, key, ts, age, byKey>>
vars  == <<multiple, peers, single, singleTS>>

Init ==
  /\ multiple \in BOOLEAN
  /\ live = {} /\ byKey = [k \in Keys |-> Zero]
  /\ key = [i \in Ids |-> NoKey] /\ ts = [i \in Ids |-> 0] /\ age = [i \in Ids |-> 0]
  /\ single = NoKey /\ singleTS = 0

(* The id a register is about: the claimed one, the key's known one, or a    *)
(* freshly minted one not in use (mintLocked).                               *)
Candidates(claimed, k) ==
  IF claimed # Zero THEN {claimed}
  ELSE IF byKey[k] # Zero THEN {byKey[k]} ELSE Ids \ live

(* Slip: a known peer's stamp is not compared.                               *)
Admits_stale(id, t) == id \in live \/ Cardinality(live) < MaxPeers

(* A new peer is subject to the cap, a known one to freshness.               *)
Admits(id, t) ==
  IF id \in live THEN t > ts[id] ELSE Cardinality(live) < MaxPeers

(* The key index after id moves to k: the entry of its previous key is       *)
(* deleted, whoever it names, unless the key did not change.                 *)
Reindex(id, k) ==
  IF key[id] = k THEN byKey
  ELSE [j \in Keys |-> IF j = k THEN id
                       ELSE IF j = key[id] THEN Zero ELSE byKey[j]]

(* Bind id to transport k, tracked from now on.                              *)
Bind(id, k, t) ==
  /\ live' = live \cup {id}
  /\ key' = [key EXCEPT ![id] = k]
  /\ ts' = [ts EXCEPT ![id] = t]
  /\ age' = [age EXCEPT ![id] = 0]
  /\ byKey' = Reindex(id, k)

(* Register in multiple mode; a refused one changes nothing.                 *)
RegisterPeer(claimed, k, t) ==
  /\ multiple
  /\ \E id \in Candidates(claimed, k) :
       \/ Admits(id, t) /\ Bind(id, k, t)
       \/ ~Admits(id, t) /\ UNCHANGED peers
  /\ UNCHANGED <<multiple, single, singleTS>>

(* Register in single mode: a newer control supersedes the one peer.         *)
RegisterSingle(k, t) ==
  /\ ~multiple
  /\ t > singleTS
  /\ single' = k /\ singleTS' = t
  /\ UNCHANGED <<multiple, peers>>

(* What a dropped peer's fields are to whoever claims its id next: a new     *)
(* peer's zero values.                                                       *)
Forget(ids) ==
  /\ key' = [i \in Ids |-> IF i \in ids THEN NoKey ELSE key[i]]
  /\ ts' = [i \in Ids |-> IF i \in ids THEN 0 ELSE ts[i]]
  /\ age' = [i \in Ids |-> IF i \in ids THEN 0 ELSE age[i]]

(* GC drops the peers idle beyond the ttl, and the key entries that still    *)
(* name them.                                                                *)
GC ==
  /\ multiple
  /\ live' = {i \in live : age[i] <= TTL}
  /\ byKey' = [k \in Keys |-> IF byKey[k] \in live \ live' /\ key[byKey[k]] = k
                              THEN Zero ELSE byKey[k]]
  /\ Forget(live \ live') /\ UNCHANGED <<multiple, single, singleTS>>

(* Time passes; an age past the ttl needs no further counting.               *)
Tick ==
  /\ age' = [i \in Ids |-> IF i \in live /\ age[i] <= TTL THEN age[i] + 1 ELSE age[i]]
  /\ UNCHANGED <<multiple, live, key, ts, byKey, single, singleTS>>

Next ==
  \/ \E c \in Ids \cup {Zero}, k \in Keys, t \in Stamps : RegisterPeer(c, k, t)
  \/ \E k \in Keys, t \in Stamps : RegisterSingle(k, t)
  \/ GC
  \/ Tick

Spec == Init /\ [][Next]_vars

(* SinkFor / Send: where a packet for owner goes, NoKey if nowhere.          *)
SinkFor(owner) ==
  IF ~multiple THEN single ELSE IF owner \in live THEN key[owner] ELSE NoKey

----------------------------------------------------------------------------
(* Every variable has its type; counters stay within their capacities.      *)
TypeOK ==
  /\ live \subseteq Ids
  /\ key \in [Ids -> Keys \cup {NoKey}]
  /\ ts \in [Ids -> Nat] /\ age \in [Ids -> 0..(TTL + 1)]
  /\ byKey \in [Keys -> Ids \cup {Zero}]
  /\ single \in Keys \cup {NoKey} /\ singleTS \in Nat
  /\ multiple \in BOOLEAN
  /\ \A i \in Ids : i \in live <=> key[i] \in Keys

(* The key index names only tracked peers, each under its own key: the       *)
(* deletions of Register and GC leave no dangling pointer.                   *)
KeyIndex == \A k \in Keys : byKey[k] # Zero => byKey[k] \in live /\ key[byKey[k]] = k

(* "caps concurrently-tracked peers against a register flood".               *)
PeersCapped == IsFiniteSet(live) /\ Cardinality(live) <= MaxPeers

(* The registry as the owners' return paths, and its promise: see ReturnPath.*)
(* Whatever arrives late on a transport its peer has left, from clients that *)
(* restart and handlers that outlive them, leads no owner's packets astray   *)
(* (peers.go:78, 102) and takes no place beyond the cap (97).                *)
Attachments ==
  [o \in Ids \cup {Zero} |->
     IF o = Zero THEN IF single = NoKey THEN <<>> ELSE <<single, singleTS>>
     ELSE IF o \in live THEN <<key[o], ts[o]>> ELSE <<>>]

Return == INSTANCE ReturnPath WITH
  Owners <- Ids \cup {Zero}, Streams <- Keys, Cap <- MaxPeers, att <- Attachments

KeepsReturnPath == Return!Spec

(* A tracked peer's return path moves only on a newer stamp, so a delayed or *)
(* repeated control never turns it back (peers.go:100-104, 78-80).           *)
FreshWins ==
  [][/\ \A i \in live \cap live' : key'[i] # key[i] => ts'[i] > ts[i]
     /\ single' # single => singleTS' > singleTS]_vars

(* A register without an id touches no peer that sits at another transport:  *)
(* it gets the id of its own transport or an unused one.                     *)
ZeroNeverSteals ==
  [][\A k \in Keys, t \in Stamps :
       RegisterPeer(Zero, k, t) =>
         \A i \in live : key'[i] # key[i] \/ ts'[i] # ts[i] => key[i] = k]_vars

=============================================================================
