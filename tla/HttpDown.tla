------------------------------ MODULE HttpDown ------------------------------
(***************************************************************************)
(* internal/conn/http.go:473-704, the http ListenOut: every peer holds a   *)
(* GET open and its packets are streamed into the response.  One handler   *)
(* goroutine per GET installs its stream, superseding an older one of the  *)
(* same peer; router goroutines buffer packets into the stream's Writer;   *)
(* they and the flush group's tick write the batch into the response.      *)
(* net/http forbids touching a response whose handler has returned.        *)
(***************************************************************************)
EXTENDS Integers, FiniteSets

CONSTANTS
  Handlers,   \* GET requests that authenticate, each with its handler goroutine
  Routers,    \* goroutines that call Send
  Ticker,     \* the flush group's goroutine
  Ids,        \* owner ids
  Zero,       \* the zero id
  Nil,        \* nil pointers
  MaxPeers,   \* c.maxPeers, 0 for no cap
  MaxTS,      \* bound on stamps
  BatchCap    \* packets a Writer buffers before it flushes inline

ASSUME DownAssumption ==
  /\ MaxPeers \in Nat /\ MaxTS \in Nat /\ BatchCap \in Nat \ {0}
  /\ IsFiniteSet(Ids) /\ Zero \notin Ids
  /\ Nil \notin Handlers \cup Routers \cup {Ticker} /\ Ticker \notin Routers

VARIABLES
  multiple,  \* c.multiple
  byID,      \* id -> the handler whose stream is installed, or Nil
  lastTS,    \* id -> freshness of its last accepted GET
  pc,        \* handler -> where it is
  id,        \* handler -> the id it runs under
  old,       \* handler -> the stream it replaced, to be told
  live,      \* handlers whose dc.live is set
  done,      \* handlers whose dc.done is closed
  gone,      \* handlers whose request context is done
  members,   \* handlers whose Writer is in the flush group
  todo,      \* members of the tick's snapshot still to be flushed
  buf,       \* handler -> packets in its Writer
  wmu,       \* handler -> holder of its Writer's mutex
  dmu,       \* handler -> holder of dc.mu, while it writes the response
  sender     \* router goroutine -> the stream it looked up and how far it is

registry == <<multiple, byID, lastTS>>
handler == <<pc, id, old, done, gone>>
writers == <<buf, wmu, dmu>>
vars == <<registry, handler, live, members, todo, writers, sender>>

Flushers == Routers \cup {Ticker}
Keys == Ids \cup {Zero}
Resting == [at |-> "idle", dc |-> Nil]

Init ==
  /\ multiple \in BOOLEAN
  /\ byID = [i \in Keys |-> Nil] /\ lastTS = [i \in Keys |-> 0]
  /\ pc = [h \in Handlers |-> "new"] /\ id = [h \in Handlers |-> Zero] /\ old = [h \in Handlers |-> Nil]
  /\ live = {} /\ done = {} /\ gone = {} /\ members = {} /\ todo = {}
  /\ buf = [h \in Handlers |-> 0]
  /\ wmu = [h \in Handlers |-> Nil] /\ dmu = [h \in Handlers |-> Nil]
  /\ sender = [r \in Routers |-> Resting]

Tracked == {i \in Keys : byID[i] # Nil}

(* Slip: the cap counts first contacts only.                                 *)
HasRoom_mintOnly(claimed, i) ==
  (multiple /\ claimed = Zero) => MaxPeers = 0 \/ Cardinality(Tracked) < MaxPeers

(* Room for a stream under i: always for one that replaces another.          *)
HasRoom(claimed, i) == byID[i] # Nil \/ MaxPeers = 0 \/ Cardinality(Tracked) < MaxPeers

(* The ids a GET may come to run under.  A minted id is random and was not   *)
(* in use before.                                                            *)
Grants(claimed, ts) ==
  IF ~multiple THEN {i \in {Zero} : ts > lastTS[i]}
  ELSE IF claimed = Zero THEN {i \in Ids : byID[i] = Nil /\ lastTS[i] = 0}
  ELSE {i \in {claimed} : ts > lastTS[i]}

(* serveHTTP up to reserve's unlock.                                         *)
Reserve(h, claimed, ts) ==
  /\ pc[h] = "new"
  /\ \/ \E i \in Grants(claimed, ts) :
          /\ HasRoom(claimed, i)
          /\ byID' = [byID EXCEPT ![i] = h] /\ lastTS' = [lastTS EXCEPT ![i] = ts]
          /\ id' = [id EXCEPT ![h] = i] /\ old' = [old EXCEPT ![h] = byID[i]]
          /\ pc' = [pc EXCEPT ![h] = "supersede"]
     \/ /\ ~\E i \in Grants(claimed, ts) : HasRoom(claimed, i)
        /\ pc' = [pc EXCEPT ![h] = "returned"]
        /\ UNCHANGED <<byID, lastTS, id, old>>
  /\ UNCHANGED <<multiple, done, gone, live, members, todo, writers, sender>>

(* close(old.done), outside the lock.                                        *)
Supersede(h) ==
  /\ pc[h] = "supersede"
  /\ done' = done \cup ({old[h]} \ {Nil})
  /\ old' = [old EXCEPT ![h] = Nil] /\ pc' = [pc EXCEPT ![h] = "wrap"]
  /\ UNCHANGED <<registry, id, gone, live, members, todo, writers, sender>>

(* WrapWriter and the header flush, the installation of obf, live; or the    *)
(* failure of WrapWriter.                                                    *)
Wrap(h) ==
  /\ pc[h] = "wrap"
  /\ \/ live' = live \cup {h} /\ pc' = [pc EXCEPT ![h] = "add"]
     \/ pc' = [pc EXCEPT ![h] = "remove"] /\ UNCHANGED live
  /\ UNCHANGED <<registry, id, old, done, gone, members, todo, writers, sender>>

FlushAdd(h) ==
  /\ pc[h] = "add"
  /\ members' = members \cup {h} /\ pc' = [pc EXCEPT ![h] = "hold"]
  /\ UNCHANGED <<registry, id, old, done, gone, live, todo, writers, sender>>

(* The select ends and the deferred calls run, the last one first: fg.Remove *)
Unhold(h) ==
  /\ pc[h] = "hold" /\ h \in done \cup gone
  /\ members' = members \ {h} /\ pc' = [pc EXCEPT ![h] = "teardown"]
  /\ UNCHANGED <<registry, id, old, done, gone, live, todo, writers, sender>>

(* Slip: the flag is cleared without waiting for a flush in flight.          *)
Teardown_noLock(h) ==
  /\ pc[h] = "teardown"
  /\ live' = live \ {h} /\ pc' = [pc EXCEPT ![h] = "remove"]
  /\ UNCHANGED <<registry, id, old, done, gone, members, todo, writers, sender>>

(* teardown *)
Teardown(h) ==
  /\ pc[h] = "teardown" /\ dmu[h] = Nil
  /\ live' = live \ {h} /\ pc' = [pc EXCEPT ![h] = "remove"]
  /\ UNCHANGED <<registry, id, old, done, gone, members, todo, writers, sender>>

(* remove, and the handler returns.                                          *)
Remove(h) ==
  /\ pc[h] = "remove"
  /\ byID' = [byID EXCEPT ![id[h]] = IF @ = h THEN Nil ELSE @]
  /\ pc' = [pc EXCEPT ![h] = "returned"]
  /\ gone' = gone \ {h}
  /\ UNCHANGED <<multiple, lastTS, id, old, done, live, members, todo, writers, sender>>

(* The client goes away, or the server shuts down, now or before the GET was *)
(* looked at.                                                                *)
RequestEnds(h) ==
  /\ h \notin gone /\ pc[h] \notin {"new", "returned"}
  /\ gone' = gone \cup {h}
  /\ UNCHANGED <<registry, pc, id, old, done, live, members, todo, writers, sender>>

----------------------------------------------------------------------------
(* Send: look the stream up under c.mu.                                      *)
Lookup(r, i) ==
  /\ sender[r] = Resting /\ i \in (IF multiple THEN Ids ELSE {Zero}) /\ byID[i] # Nil
  /\ sender' = [sender EXCEPT ![r] = [at |-> "found", dc |-> byID[i]]]
  /\ UNCHANGED <<registry, handler, live, members, todo, writers>>

(* Not live: not delivered here.                                             *)
CheckLive(r) ==
  /\ sender[r].at = "found"
  /\ sender' = [sender EXCEPT ![r] = IF sender[r].dc \in live THEN [@ EXCEPT !.at = "buffer"] ELSE Resting]
  /\ UNCHANGED <<registry, handler, live, members, todo, writers>>

(* Reserve and Commit under the Writer's mutex; a full batch is flushed by   *)
(* the Commit that filled it, which keeps the mutex.                         *)
Buffer(r) ==
  LET h == sender[r].dc full == buf[h] + 1 = BatchCap IN
  /\ sender[r].at = "buffer" /\ wmu[h] = Nil
  /\ buf' = [buf EXCEPT ![h] = @ + 1]
  /\ wmu' = [wmu EXCEPT ![h] = IF full THEN r ELSE Nil]
  /\ sender' = [sender EXCEPT ![r] = IF full THEN [@ EXCEPT !.at = "flush"] ELSE Resting]
  /\ UNCHANGED <<registry, handler, live, members, todo, dmu>>

(* A tick works through a snapshot of the members; a Writer in use or empty  *)
(* is left out.                                                              *)
Tick ==
  /\ todo = {} /\ members # {} /\ \A h \in Handlers : wmu[h] # Ticker
  /\ todo' = members
  /\ UNCHANGED <<registry, handler, live, members, writers, sender>>

TryFlush(h) ==
  /\ h \in todo /\ \A g \in Handlers : wmu[g] # Ticker
  /\ todo' = todo \ {h}
  /\ wmu' = IF wmu[h] = Nil /\ buf[h] > 0 THEN [wmu EXCEPT ![h] = Ticker] ELSE wmu
  /\ UNCHANGED <<registry, handler, live, members, buf, dmu, sender>>

Flushing(f, h) == wmu[h] = f /\ dmu[h] # f

(* The Writer's flush is over, its batch written or dropped.                 *)
FlushReturns(f, h) ==
  /\ buf' = [buf EXCEPT ![h] = 0] /\ wmu' = [wmu EXCEPT ![h] = Nil]
  /\ sender' = [r \in Routers |-> IF r = f THEN Resting ELSE sender[r]]

(* flushViews takes dc.mu: a dead stream is refused, a live one written.     *)
FlushViews(f, h) ==
  /\ Flushing(f, h) /\ dmu[h] = Nil
  /\ \/ h \in live /\ dmu' = [dmu EXCEPT ![h] = f] /\ UNCHANGED <<buf, wmu, sender>>
     \/ h \notin live /\ FlushReturns(f, h) /\ UNCHANGED dmu
  /\ UNCHANGED <<registry, handler, live, members, todo>>

(* Slip: the error path returns with dc.mu held.                             *)
WriteEnds_keepLock(f, h) ==
  /\ wmu[h] = f /\ dmu[h] = f
  /\ FlushReturns(f, h)
  /\ \/ h \notin gone /\ dmu' = [dmu EXCEPT ![h] = Nil] /\ UNCHANGED live
     \/ live' = live \ {h} /\ UNCHANGED dmu
  /\ UNCHANGED <<registry, handler, members, todo>>

(* The write ends, well or not; after an error the stream is no longer live. *)
WriteEnds(f, h) ==
  /\ wmu[h] = f /\ dmu[h] = f
  /\ dmu' = [dmu EXCEPT ![h] = Nil] /\ FlushReturns(f, h)
  /\ live' \in {live, live \ {h}} /\ (h \in gone => live' = live \ {h})
  /\ UNCHANGED <<registry, handler, members, todo>>

HandlerStep(h) ==
  Supersede(h) \/ Wrap(h) \/ FlushAdd(h) \/ Unhold(h) \/ Teardown(h) \/ Remove(h)

FlushStep(f) == \E h \in Handlers : FlushViews(f, h) \/ WriteEnds(f, h)

Next ==
  \/ \E h \in Handlers :
       \/ \E claimed \in Keys, ts \in 1..MaxTS : Reserve(h, claimed, ts)
       \/ HandlerStep(h) \/ RequestEnds(h) \/ TryFlush(h)
  \/ \E r \in Routers : (\E i \in Keys : Lookup(r, i)) \/ CheckLive(r) \/ Buffer(r)
  \/ \E f \in Flushers : FlushStep(f)
  \/ Tick

(* Goroutines that can run do so, and a write to a response ends: by a       *)
(* client that reads, or by the broken connection of one that is gone.       *)
Fairness ==
  /\ \A h \in Handlers : SF_vars(Teardown(h)) /\ WF_vars(HandlerStep(h))
  /\ \A f \in Flushers : WF_vars(FlushStep(f))

Spec == Init /\ [][Next]_vars
FairSpec == Spec /\ Fairness

----------------------------------------------------------------------------
(* Types.                                                                    *)
TypeOK ==
  /\ multiple \in BOOLEAN
  /\ byID \in [Keys -> Handlers \cup {Nil}] /\ lastTS \in [Keys -> 0..MaxTS]
  /\ pc \in [Handlers -> {"new", "supersede", "wrap", "add", "hold", "teardown", "remove", "returned"}]
  /\ id \in [Handlers -> Keys] /\ old \in [Handlers -> Handlers \cup {Nil}]
  /\ live \subseteq Handlers /\ done \subseteq Handlers /\ gone \subseteq Handlers
  /\ members \subseteq Handlers /\ todo \subseteq Handlers
  /\ buf \in [Handlers -> 0..BatchCap]
  /\ wmu \in [Handlers -> Flushers \cup {Nil}] /\ dmu \in [Handlers -> Flushers \cup {Nil}]
  /\ sender \in [Routers -> [at : {"idle", "found", "buffer", "flush"}, dc : Handlers \cup {Nil}]]

(* "the handler must never return while a batch is still being written"      *)
(* (http.go:490-493): no response is written, or will be, by a flush that    *)
(* comes after the end of its handler, be it from a tick's old snapshot or   *)
(* from a router that looked the stream up before.                           *)
NoLateWrite == \A h \in Handlers : dmu[h] # Nil => pc[h] \in {"add", "hold", "teardown"}

(* "supersede the prior stream for this id" (http.go:663): a stream is       *)
(* installed, or told to end exactly once, or on its way out; none is left   *)
(* running without packets.                                                  *)
SupersededTold ==
  /\ \A h \in Handlers : pc[h] \in {"supersede", "wrap", "add", "hold"} =>
       byID[id[h]] = h \/ h \in done \/ \E g \in Handlers : old[g] = h
  /\ \A g, h \in Handlers : old[g] = h => h \notin done /\ byID[id[h]] # h
  /\ \A f, g \in Handlers : old[f] = old[g] /\ old[f] # Nil => f = g

(* "cap on tracked downstream peers" (http.go:526).                          *)
DownPeersCapped == MaxPeers > 0 => Cardinality(Tracked) <= MaxPeers

(* The installed streams as the peers' return paths (no cap: room for all),  *)
(* and their promise: see ReturnPath.  A replayed or overtaken GET does not  *)
(* take a peer's packets from the stream that replaced it, and a handler     *)
(* that leaves late detaches nobody else.                                    *)
Attachments == [i \in Keys |-> IF byID[i] = Nil THEN <<>> ELSE <<byID[i], lastTS[i]>>]

Return == INSTANCE ReturnPath WITH
  Owners <- Keys, Streams <- Handlers, Stamps <- 1..MaxTS, att <- Attachments,
  Cap <- IF MaxPeers = 0 THEN Cardinality(Keys) + 1 ELSE MaxPeers

KeepsReturnPath == Return!Spec

(* A handler whose client left, or whose peer came back on another stream,   *)
(* returns: neither the tick nor a router keeps it waiting for dc.mu.        *)
StreamsEnd == \A h \in Handlers : h \in done \cup gone /\ pc[h] # "new" ~> pc[h] = "returned"

=============================================================================
