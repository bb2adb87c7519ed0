------------------------------- MODULE TcpDown -------------------------------
(***************************************************************************)
(* The tcp downlink, internal/conn/tcp.go: a ConnectIn dials, registers    *)
(* and reads (tcpConnectIn, 285-426); a ListenOut accepts, records the     *)
(* stream in its registry (Peers), answers with the assigned id and sends  *)
(* the owner's packets down it (tcpListenOut, tcpDownConn, 428-607).       *)
(* Router goroutines and the flush group's tick write; one handler per     *)
(* connection reads its keepalives.                                        *)
(*                                                                         *)
(* A connection is its remote address, a key of the registry; none is used *)
(* twice.  It may end by a close the peer sees, or fall silent: then the   *)
(* peer's writes block and only its read deadline tells.                   *)
(***************************************************************************)
EXTENDS ConnectIn, Sequences

CONSTANTS
  Routers,   \* goroutines that call Send
  Ticker,    \* the flush group's
  NoOne,     \* nobody holds the mutex
  BatchCap   \* packets a Writer buffers before it flushes inline

ASSUME DownAssumption ==
  /\ BatchCap \in Nat \ {0}
  /\ MaxStamp \in Nat /\ 1..MaxStamp \subseteq Stamps
  /\ NoOne \notin Routers \cup {Ticker, "handler"} /\ "handler" \notin Routers \cup {Ticker}

VARIABLES
  at,      \* client -> "idle", "wait" for the assignment, "on"
  link,    \* client -> its connection
  up,      \* connection -> controls on their way to the ListenOut
  out,     \* connection -> frames its stream has been written (see Frame)
  line,    \* connection -> "open", "silent" or "shut" (closed at either end)
  pc,      \* connection -> where its handler is
  dead,    \* connections whose pc.dead is set
  buf,     \* connection -> packets in its Writer
  wmu,     \* connection -> who holds its Writer's mutex
  pmu      \* connection -> who holds pc.mu

client == <<claims, at, link>>
writers == <<buf, wmu, pmu>>
downVars == <<vars, client, up, out, line, pc, dead, writers>>
Flushers == Routers \cup {Ticker}
Control(i, t) == [id |-> i, ts |-> t]
Closed(k) == [line EXCEPT ![k] = "shut"]

(* What is on a stream: the assignment, a frame cut short, and the data that *)
(* is not where it should be (after the assignment, before a cut).           *)
Frame(w, i) == [what |-> w, id |-> i]
Written(o, f) ==
  IF f.what = "data" /\ o # <<>> /\ o[Len(o)].what # "cut" THEN o ELSE Append(o, f)

DownInit ==
  /\ Init /\ ClaimsInit
  /\ at = [c \in Clients |-> "idle"] /\ link = [c \in Clients |-> NoKey]
  /\ up = [k \in Keys |-> <<>>] /\ out = [k \in Keys |-> <<>>]
  /\ line = [k \in Keys |-> "open"] /\ dead = {}
  /\ pc = [k \in Keys |-> "none"] /\ buf = [k \in Keys |-> 0]
  /\ wmu = [k \in Keys |-> NoOne] /\ pmu = [k \in Keys |-> NoOne]

----------------------------------------------------------------------------
(* The client.  stream: dial and register under the current id.              *)
Dial(c) ==
  LET k == CHOOSE x \in Keys : pc[x] = "none" IN
  /\ at[c] = "idle" /\ Stamp /\ \E x \in Keys : pc[x] = "none"
  /\ up' = [up EXCEPT ![k] = <<Control(curID[c], lastTS')>>]
  /\ at' = [at EXCEPT ![c] = "wait"] /\ link' = [link EXCEPT ![c] = k]
  /\ pc' = [pc EXCEPT ![k] = "accepted"]
  /\ UNCHANGED <<vars, curID, line, out, dead, writers>>

(* The first frame is taken for the assignment; a non-zero id is adopted.    *)
(* Its stamp is the register's own, so it is always the freshest.            *)
ReadAssign(c) ==
  LET f == out[link[c]][1] IN
  /\ at[c] = "wait" /\ out[link[c]] # <<>>
  /\ at' = [at EXCEPT ![c] = "on"]
  /\ curID' = [curID EXCEPT ![c] = IF f.id # Zero THEN f.id ELSE @]
  /\ UNCHANGED <<vars, link, lastTS, up, out, line, pc, dead, writers>>

Keepalive(c) ==
  /\ at[c] = "on" /\ line[link[c]] = "open" /\ Stamp
  /\ up' = [up EXCEPT ![link[c]] = Append(@, Control(curID[c], lastTS'))]
  /\ UNCHANGED <<vars, at, link, curID, line, out, pc, dead, writers>>

(* The stream ends: Reconnect, Close, an error, a handshake that takes too   *)
(* long, a restart that forgets the id.  The ListenOut is told, or not.      *)
Leave(c, told, forgets) ==
  /\ at[c] # "idle"
  /\ at' = [at EXCEPT ![c] = "idle"] /\ link' = [link EXCEPT ![c] = NoKey]
  /\ curID' = [curID EXCEPT ![c] = IF forgets THEN Zero ELSE @]
  /\ line' = [line EXCEPT ![link[c]] = IF told \/ @ = "shut" THEN "shut" ELSE "silent"]
  /\ UNCHANGED <<vars, lastTS, up, out, pc, dead, writers>>

----------------------------------------------------------------------------
(* Register in either mode; single mode refuses what is not newer.           *)
Register(m, k) ==
  \/ RegisterPeer(m.id, k, m.ts)
  \/ RegisterSingle(k, m.ts)
  \/ ~multiple /\ m.ts <= singleTS /\ UNCHANGED vars

(* The handler.  It reads the registration and, with pc.mu held, registers   *)
(* its stream; refused, it closes the connection.                            *)
HandleRegister(k) ==
  /\ pc[k] = "accepted" /\ up[k] # <<>>
  /\ up' = [up EXCEPT ![k] = Tail(@)] /\ Register(Head(up[k]), k)
  /\ \/ /\ (IF multiple THEN byKey[k] # Zero ELSE single = k)'
        /\ pc' = [pc EXCEPT ![k] = "locked"] /\ pmu' = [pmu EXCEPT ![k] = "handler"]
        /\ UNCHANGED line
     \/ /\ (IF multiple THEN byKey[k] = Zero ELSE single # k)'
        /\ pc' = [pc EXCEPT ![k] = "over"] /\ line' = Closed(k) /\ UNCHANGED pmu
  /\ UNCHANGED <<client, out, dead, buf, wmu>>

(* No registration within the handshake's deadline: it was lost.             *)
HandshakeFails(k) ==
  /\ pc[k] = "accepted" /\ line[k] # "open"
  /\ pc' = [pc EXCEPT ![k] = "over"] /\ line' = Closed(k) /\ up' = [up EXCEPT ![k] = <<>>]
  /\ UNCHANGED <<vars, client, out, dead, writers>>

Assigned(k) == IF multiple /\ byKey[k] # Zero THEN byKey[k] ELSE Zero

(* The assignment goes out, pc.mu is released and the Writer joins the flush *)
(* group; when it cannot be written the handler returns, which closes the    *)
(* connection and no more.                                                   *)
AssignWrite(k) ==
  /\ pc[k] = "locked"
  /\ \/ /\ line[k] # "shut"
        /\ out' = [out EXCEPT ![k] = Written(@, Frame("assign", Assigned(k)))]
        /\ pc' = [pc EXCEPT ![k] = "steady"] /\ UNCHANGED line
     \/ pc' = [pc EXCEPT ![k] = "over"] /\ line' = Closed(k) /\ UNCHANGED out
  /\ pmu' = [pmu EXCEPT ![k] = NoOne]
  /\ UNCHANGED <<vars, client, up, dead, buf, wmu>>

(* Each keepalive registers again; the result is not looked at.              *)
HandleKeepalive(k) ==
  /\ pc[k] = "steady" /\ up[k] # <<>>
  /\ up' = [up EXCEPT ![k] = Tail(@)] /\ Register(Head(up[k]), k)
  /\ UNCHANGED <<client, line, out, pc, dead, writers>>

TeardownLocked(k) == dead' = dead \cup {k} /\ line' = Closed(k)

(* The deferred calls: dead, out of the flush group, the socket.             *)
HandlerReturns(k) ==
  /\ pc' = [pc EXCEPT ![k] = "over"] /\ TeardownLocked(k) /\ up' = [up EXCEPT ![k] = <<>>]
  /\ UNCHANGED <<vars, client, out, writers>>

(* Slip: a steady read has no deadline.                                      *)
ReadFails_noDeadline(k) == pc[k] = "steady" /\ line[k] = "shut" /\ HandlerReturns(k)

(* The read fails: the connection is closed, or was silent for too long (and *)
(* what it still carried is lost).                                           *)
ReadFails(k) == pc[k] = "steady" /\ line[k] # "open" /\ HandlerReturns(k)

----------------------------------------------------------------------------
Free(f) == \A k \in Keys : wmu[k] # f

(* The copy into a connection's Writer; the packet that fills it flushes.    *)
Buffer(r, k) ==
  /\ Free(r) /\ wmu[k] = NoOne /\ k \notin dead
  /\ buf' = [buf EXCEPT ![k] = @ + 1]
  /\ wmu' = [wmu EXCEPT ![k] = IF buf[k] + 1 = BatchCap THEN r ELSE NoOne]
  /\ UNCHANGED <<client, up, out, line, pc, dead, pmu>>

(* Slip: a lookup counts as a sign of life.                                  *)
Send_touches(r, o) ==
  /\ SinkFor(o) # NoKey /\ Buffer(r, SinkFor(o))
  /\ age' = [i \in Ids |-> IF i = o THEN 0 ELSE age[i]]
  /\ UNCHANGED <<multiple, live, key, ts, byKey, single, singleTS>>

(* Send: the registry's lookup, then the sink, which refuses when dead (and  *)
(* changes nothing) and otherwise copies.                                    *)
Send(r, o) == SinkFor(o) # NoKey /\ Buffer(r, SinkFor(o)) /\ UNCHANGED vars

(* The tick goes through the group's members, and through those that left it *)
(* since its snapshot, one after the other.                                  *)
TryFlush(k) ==
  /\ pc[k] = "steady" \/ (pc[k] = "over" /\ k \in dead)
  /\ Free(Ticker) /\ wmu[k] = NoOne /\ buf[k] > 0
  /\ wmu' = [wmu EXCEPT ![k] = Ticker]
  /\ UNCHANGED <<vars, client, up, out, line, pc, dead, buf, pmu>>

FlushReturns(k) == buf' = [buf EXCEPT ![k] = 0] /\ wmu' = [wmu EXCEPT ![k] = NoOne]

(* Slip: pc.mu is not taken.                                                 *)
FlushViews_unlocked(f, k) ==
  /\ wmu[k] = f /\ pmu[k] # f
  /\ \/ k \notin dead /\ pmu' = [pmu EXCEPT ![k] = f] /\ UNCHANGED <<buf, wmu>>
     \/ k \in dead /\ FlushReturns(k) /\ UNCHANGED pmu
  /\ UNCHANGED <<vars, client, up, out, line, pc, dead>>

(* flushViews takes pc.mu; a dead stream is refused.                         *)
FlushViews(f, k) ==
  /\ wmu[k] = f /\ pmu[k] = NoOne
  /\ \/ k \notin dead /\ pmu' = [pmu EXCEPT ![k] = f] /\ UNCHANGED <<buf, wmu>>
     \/ k \in dead /\ FlushReturns(k) /\ UNCHANGED pmu
  /\ UNCHANGED <<vars, client, up, out, line, pc, dead>>

(* The write ends: whole; part way, and the stream is torn down; with nobody *)
(* to read it.  On a silent connection it may block.                         *)
WriteEnds(f, k) ==
  /\ wmu[k] = f /\ pmu[k] = f
  /\ pmu' = [pmu EXCEPT ![k] = NoOne] /\ FlushReturns(k)
  /\ \/ line[k] # "shut" /\ out' = [out EXCEPT ![k] = Written(@, Frame("data", Zero))] /\ UNCHANGED <<dead, line>>
     \/ line[k] = "open" /\ out' = [out EXCEPT ![k] = Written(@, Frame("cut", Zero))] /\ TeardownLocked(k)
     \/ line[k] = "shut" /\ UNCHANGED out /\ (TeardownLocked(k) \/ UNCHANGED <<dead, line>>)
  /\ UNCHANGED <<vars, client, up, pc>>

----------------------------------------------------------------------------
RegistryTime == (GC \/ Tick) /\ UNCHANGED <<client, up, out, line, pc, dead, writers>>

ClientStep(c) ==
  Dial(c) \/ ReadAssign(c) \/ Keepalive(c) \/ \E told, forgets \in BOOLEAN : Leave(c, told, forgets)

HandlerStep(k) ==
  \/ HandleRegister(k) \/ HandshakeFails(k) \/ AssignWrite(k) \/ HandleKeepalive(k)
  \/ ReadFails(k)

FlushStep(f) == \E k \in Keys : FlushViews(f, k) \/ WriteEnds(f, k)

DownNext ==
  \/ \E c \in Clients : ClientStep(c)
  \/ \E k \in Keys : HandlerStep(k) \/ TryFlush(k)
  \/ \E r \in Routers, o \in Ids \cup {Zero} : Send(r, o)
  \/ \E f \in Flushers : FlushStep(f)
  \/ RegistryTime

(* Goroutines that can run do so, the mutexes hand over, a write ends unless *)
(* the peer is silent, time passes and the node's gcLoop runs.               *)
Progress(f) == \E k \in Keys : FlushViews(f, k) \/ (line[k] # "silent" /\ WriteEnds(f, k))

Fairness ==
  /\ \A k \in Keys : WF_downVars(HandlerStep(k))
  /\ \A f \in Flushers : WF_downVars(Progress(f))
  /\ WF_downVars(Tick /\ age' # age /\ RegistryTime) /\ WF_downVars(GC /\ live' # live /\ RegistryTime)

DownSpec == DownInit /\ [][DownNext]_downVars
FairDownSpec == DownSpec /\ Fairness

----------------------------------------------------------------------------
(* "the client relies on the first frame being the assignment" (tcp.go:534)  *)
(* and "A write failure desyncs the stateful keystream" (tcp.go:459): every  *)
(* stream starts with its assignment, whatever routers buffer meanwhile, and *)
(* nothing follows a frame cut short.                                        *)
StreamWellFormed ==
  \A k \in Keys : \A n \in DOMAIN out[k] :
    /\ out[k][n].what = "assign" <=> n = 1
    /\ out[k][n].what = "cut" => n = Len(out[k])

(* A Send and a tick return, also when the client they write to has vanished:*)
(* its handler's read deadline closes the socket under the blocked write.    *)
WritersReturn == \A f \in Flushers : ~Free(f) ~> Free(f)

(* A stream that is dead, or whose assignment failed, stays in the registry  *)
(* and swallows its owner's packets (Send says delivered), but not for ever: *)
(* the owner comes back on another stream or is dropped by GC, and the table *)
(* goes on to another row.                                                   *)
DeadPathExpires ==
  \A k \in Keys : (\E i \in live : key[i] = k /\ pc[k] = "over") ~> ~\E i \in live : key[i] = k

=============================================================================
