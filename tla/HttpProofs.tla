----------------------------- MODULE HttpProofs -----------------------------
(* The safety properties of HttpDown for any number of GETs, ids and routers,*)
(* and of HttpUp for any number of POSTs and any bounds.                     *)
EXTENDS HttpDown, HttpUp, FiniteSetTheorems, TLAPS

Stages == {"new", "supersede", "wrap", "add", "hold", "teardown", "remove", "returned"}

(* Streams and the registry: what is installed runs under its id, what was   *)
(* replaced is out of the registry for good and told by one handler.         *)
RegInv ==
  /\ byID \in [Keys -> Handlers \cup {Nil}] /\ id \in [Handlers -> Keys]
  /\ pc \in [Handlers -> Stages] /\ old \in [Handlers -> Handlers \cup {Nil}]
  /\ \A i \in Keys : byID[i] # Nil => id[byID[i]] = i /\ pc[byID[i]] \notin {"new", "returned"}
  /\ \A h \in Handlers : h \in done => byID[id[h]] # h /\ pc[h] # "new"
  /\ \A g \in Handlers : old[g] # Nil =>
       pc[g] = "supersede" /\ old[g] \notin done /\ byID[id[old[g]]] # old[g] /\ pc[old[g]] # "new"
  /\ SupersededTold

(* Locks: who writes a response holds its Writer, and the stream is live or  *)
(* waits in teardown for the write to end.                                   *)
WriteInv ==
  /\ pc \in [Handlers -> Stages]
  /\ dmu \in [Handlers -> Flushers \cup {Nil}]
  /\ \A h \in Handlers : h \in live => pc[h] \in {"add", "hold", "teardown"}
  /\ NoLateWrite

CapInv == byID \in [Keys -> Handlers \cup {Nil}] /\ IsFiniteSet(Keys) /\ DownPeersCapped

(* Nothing is installed or written at first.                                 *)
LEMMA InitInvs == Init => RegInv /\ WriteInv /\ CapInv
  <1> SUFFICES ASSUME Init PROVE RegInv /\ WriteInv /\ CapInv
      OBVIOUS
  <1>1. RegInv
      BY DownAssumption DEF Init, RegInv, SupersededTold, Keys, Stages
  <1>2. WriteInv
      BY DEF Init, WriteInv, NoLateWrite, Stages
  <1>3. IsFiniteSet(Keys)
      BY DownAssumption, FS_AddElement DEF Keys
  <1>4. Tracked = {} /\ Cardinality({}) = 0
      BY FS_EmptySet DEF Init, Tracked
  <1>5. DownPeersCapped
      BY <1>4, DownAssumption DEF DownPeersCapped
  <1> QED
      BY <1>1, <1>2, <1>3, <1>5 DEF CapInv, Init

(* The steps of routers and flushers leave streams and registry alone.       *)
LEMMA RegSame ==
  ASSUME RegInv, UNCHANGED <<byID, pc, id, old, done>>
  PROVE  RegInv'
  BY DEF RegInv, SupersededTold

(* A handler moves on without touching what RegInv relates.                  *)
LEMMA RegMove ==
  ASSUME RegInv, NEW h \in Handlers, NEW s \in Stages,
         pc' = [pc EXCEPT ![h] = s], UNCHANGED <<byID, id, old, done>>,
         pc[h] \notin {"new", "supersede"}, s \notin {"new", "supersede", "returned"},
         pc[h] \in {"wrap", "add", "hold"} \/ s \in {"teardown", "remove"}
  PROVE  RegInv'
  <1>1. \A g \in Handlers : g # h => pc'[g] = pc[g]
      BY DEF RegInv
  <1>2. pc'[h] = s /\ pc' \in [Handlers -> Stages]
      BY DEF RegInv
  <1> QED
      BY <1>1, <1>2 DEF RegInv, SupersededTold

(* Every step preserves RegInv.                                              *)
LEMMA RegNext == RegInv /\ [Next]_vars => RegInv'
  <1> SUFFICES ASSUME RegInv, [Next]_vars PROVE RegInv'
      OBVIOUS
  <1> USE DownAssumption DEF registry, handler, writers
  <1>0. ASSUME UNCHANGED vars PROVE RegInv'
      BY <1>0, RegSame DEF vars
  <1>1. ASSUME NEW h \in Handlers, NEW claimed \in Keys, NEW ts \in 1..MaxTS, Reserve(h, claimed, ts)
        PROVE  RegInv'
    <2>1. CASE pc' = [pc EXCEPT ![h] = "returned"] /\ UNCHANGED <<byID, id, old, done>>
      <3>1. pc[h] = "new" /\ \A g \in Handlers : g # h => pc'[g] = pc[g]
          BY <1>1, <2>1 DEF Reserve, RegInv
      <3>2. pc'[h] = "returned" /\ pc' \in [Handlers -> Stages]
          BY <2>1 DEF RegInv, Stages
      <3> QED
          BY <2>1, <3>1, <3>2 DEF RegInv, SupersededTold
    <2>2. ASSUME NEW i \in Keys, byID' = [byID EXCEPT ![i] = h], id' = [id EXCEPT ![h] = i],
                 old' = [old EXCEPT ![h] = byID[i]], pc' = [pc EXCEPT ![h] = "supersede"],
                 UNCHANGED done, pc[h] = "new"
          PROVE  RegInv'
      <3>1. /\ byID' \in [Keys -> Handlers \cup {Nil}] /\ id' \in [Handlers -> Keys]
            /\ pc' \in [Handlers -> Stages] /\ old' \in [Handlers -> Handlers \cup {Nil}]
          BY <2>2 DEF RegInv, Stages
      <3>2. /\ byID'[i] = h /\ id'[h] = i /\ old'[h] = byID[i] /\ pc'[h] = "supersede"
            /\ \A j \in Keys : j # i => byID'[j] = byID[j]
            /\ \A g \in Handlers : g # h => id'[g] = id[g] /\ old'[g] = old[g] /\ pc'[g] = pc[g]
          BY <2>2 DEF RegInv
      <3>3. h \notin done /\ (\A g \in Handlers : old[g] # h) /\ (\A j \in Keys : byID[j] # h)
          BY <2>2 DEF RegInv
      <3>4. byID[i] # Nil => byID[i] \notin done /\ (\A g \in Handlers : old[g] # byID[i])
          BY DEF RegInv
      <3>5. \A j \in Keys : byID'[j] # Nil => id'[byID'[j]] = j /\ pc'[byID'[j]] \notin {"new", "returned"}
          BY <3>2, <3>3 DEF RegInv
      <3>6. \A g \in Handlers : g \in done' => byID'[id'[g]] # g /\ pc'[g] # "new"
          BY <2>2, <3>1, <3>2, <3>3 DEF RegInv
      <3>7. \A g \in Handlers : old'[g] # Nil =>
              pc'[g] = "supersede" /\ old'[g] \notin done' /\ byID'[id'[old'[g]]] # old'[g] /\ pc'[old'[g]] # "new"
          BY <2>2, <3>1, <3>2, <3>3, <3>4 DEF RegInv
      <3>8. SupersededTold'
        <4>1. \A g \in Handlers : pc'[g] \in {"supersede", "wrap", "add", "hold"} =>
                byID'[id'[g]] = g \/ g \in done' \/ \E f \in Handlers : old'[f] = g
          <5> SUFFICES ASSUME NEW g \in Handlers, g # h, pc[g] \in {"supersede", "wrap", "add", "hold"}
                       PROVE  byID'[id'[g]] = g \/ g \in done' \/ \E f \in Handlers : old'[f] = g
              BY <3>2
          <5>1. CASE byID[id[g]] = g
              BY <5>1, <3>2, <3>1
          <5>2. CASE g \in done
              BY <5>2, <2>2
          <5>3. ASSUME NEW f \in Handlers, old[f] = g PROVE \E e \in Handlers : old'[e] = g
            <6>1. f # h
                BY <5>3, <2>2 DEF RegInv
            <6> QED
                BY <5>3, <6>1, <3>2
          <5> QED
              BY <5>1, <5>2, <5>3 DEF RegInv, SupersededTold
        <4>2. \A f, g \in Handlers : old'[f] = old'[g] /\ old'[f] # Nil => f = g
            BY <3>2, <3>4 DEF RegInv, SupersededTold
        <4> QED
            BY <4>1, <4>2, <3>7 DEF SupersededTold
      <3> QED
          BY <3>1, <3>5, <3>6, <3>7, <3>8 DEF RegInv
    <2> QED
        BY <1>1, <2>1, <2>2 DEF Reserve, Grants, Keys
  <1>2. ASSUME NEW h \in Handlers, Supersede(h) PROVE RegInv'
    <2>1. /\ pc[h] = "supersede" /\ pc' = [pc EXCEPT ![h] = "wrap"] /\ old' = [old EXCEPT ![h] = Nil]
          /\ done' = done \cup ({old[h]} \ {Nil}) /\ UNCHANGED <<byID, id>>
        BY <1>2 DEF Supersede
    <2>2. /\ pc' \in [Handlers -> Stages] /\ old' \in [Handlers -> Handlers \cup {Nil}]
          /\ pc'[h] = "wrap" /\ old'[h] = Nil
          /\ \A g \in Handlers : g # h => old'[g] = old[g] /\ pc'[g] = pc[g]
        BY <2>1 DEF RegInv, Stages
    <2>3. \A i \in Keys : byID'[i] # Nil => id'[byID'[i]] = i /\ pc'[byID'[i]] \notin {"new", "returned"}
        BY <2>1, <2>2 DEF RegInv
    <2>4. \A g \in Handlers : g \in done' => byID'[id'[g]] # g /\ pc'[g] # "new"
        BY <2>1, <2>2 DEF RegInv
    <2>5. \A g \in Handlers : old'[g] # Nil =>
            pc'[g] = "supersede" /\ old'[g] \notin done' /\ byID'[id'[old'[g]]] # old'[g] /\ pc'[old'[g]] # "new"
      <3> SUFFICES ASSUME NEW g \in Handlers, old'[g] # Nil
                   PROVE  pc'[g] = "supersede" /\ old'[g] \notin done'
                          /\ byID'[id'[old'[g]]] # old'[g] /\ pc'[old'[g]] # "new"
          OBVIOUS
      <3>1. g # h /\ old'[g] = old[g] /\ old[g] # old[h]
          BY <2>2 DEF RegInv, SupersededTold
      <3> QED
          BY <3>1, <2>1, <2>2 DEF RegInv
    <2>6. SupersededTold'
      <3>1. \A g \in Handlers : pc'[g] \in {"supersede", "wrap", "add", "hold"} =>
              byID'[id'[g]] = g \/ g \in done' \/ \E f \in Handlers : old'[f] = g
        <4> SUFFICES ASSUME NEW g \in Handlers, pc[g] \in {"supersede", "wrap", "add", "hold"}
                     PROVE  byID'[id'[g]] = g \/ g \in done' \/ \E f \in Handlers : old'[f] = g
            BY <2>1, <2>2
        <4>1. ASSUME NEW f \in Handlers, old[f] = g PROVE g \in done' \/ \E e \in Handlers : old'[e] = g
            BY <4>1, <2>1, <2>2
        <4> QED
            BY <4>1, <2>1 DEF RegInv, SupersededTold
      <3>2. \A f, g \in Handlers : old'[f] = old'[g] /\ old'[f] # Nil => f = g
          BY <2>2 DEF RegInv, SupersededTold
      <3> QED
          BY <3>1, <3>2, <2>5 DEF SupersededTold
    <2> QED
        BY <2>1, <2>2, <2>3, <2>4, <2>5, <2>6 DEF RegInv
  <1>3. ASSUME NEW h \in Handlers, Wrap(h) \/ FlushAdd(h) \/ Unhold(h) \/ Teardown(h) PROVE RegInv'
      BY <1>3, RegMove DEF Wrap, FlushAdd, Unhold, Teardown, Stages
  <1>4. ASSUME NEW h \in Handlers, Remove(h) PROVE RegInv'
    <2>1. /\ pc[h] = "remove" /\ pc' = [pc EXCEPT ![h] = "returned"] /\ UNCHANGED <<id, old, done>>
          /\ byID' = [byID EXCEPT ![id[h]] = IF @ = h THEN Nil ELSE @]
        BY <1>4 DEF Remove
    <2>2. /\ pc' \in [Handlers -> Stages] /\ byID' \in [Keys -> Handlers \cup {Nil}]
          /\ pc'[h] = "returned" /\ \A g \in Handlers : g # h => pc'[g] = pc[g]
          /\ \A i \in Keys : byID'[i] = IF byID[i] = h THEN Nil ELSE byID[i]
      <3>1. \A i \in Keys : byID[i] = h => i = id[h]
          BY DEF RegInv
      <3> QED
          BY <2>1, <3>1 DEF RegInv, Stages
    <2> QED
        BY <2>1, <2>2 DEF RegInv, SupersededTold
  <1>5. ASSUME NEW h \in Handlers, RequestEnds(h) \/ TryFlush(h) PROVE RegInv'
      BY <1>5, RegSame DEF RequestEnds, TryFlush
  <1>6. ASSUME NEW r \in Routers, (\E i \in Keys : Lookup(r, i)) \/ CheckLive(r) \/ Buffer(r) PROVE RegInv'
      BY <1>6, RegSame DEF Lookup, CheckLive, Buffer
  <1>7. ASSUME NEW f \in Flushers, FlushStep(f) PROVE RegInv'
      BY <1>7, RegSame DEF FlushStep, FlushViews, WriteEnds
  <1>8. ASSUME Tick PROVE RegInv'
      BY <1>8, RegSame DEF Tick
  <1> QED
      BY <1>0, <1>1, <1>2, <1>3, <1>4, <1>5, <1>6, <1>7, <1>8 DEF Next, HandlerStep

(* Every step preserves WriteInv.                                            *)
LEMMA WriteNext == WriteInv /\ [Next]_vars => WriteInv'
  <1> SUFFICES ASSUME WriteInv, [Next]_vars PROVE WriteInv'
      OBVIOUS
  <1> USE DownAssumption DEF registry, handler, writers
  <1>0. ASSUME UNCHANGED <<pc, live, dmu>> PROVE WriteInv'
      BY <1>0 DEF WriteInv, NoLateWrite
  <1>1. ASSUME NEW h \in Handlers, NEW s \in Stages, pc' = [pc EXCEPT ![h] = s], UNCHANGED <<live, dmu>>,
               pc[h] \in {"add", "hold", "teardown"} => s \in {"add", "hold", "teardown"}
        PROVE  WriteInv'
      BY <1>1 DEF WriteInv, NoLateWrite
  <1>2. ASSUME NEW h \in Handlers, NEW claimed \in Keys, NEW ts \in 1..MaxTS, Reserve(h, claimed, ts)
        PROVE  WriteInv'
      BY <1>2, <1>1 DEF Reserve, Stages
  <1>3. ASSUME NEW h \in Handlers, Supersede(h) \/ FlushAdd(h) \/ Unhold(h) \/ Remove(h) PROVE WriteInv'
      BY <1>3, <1>1 DEF Supersede, FlushAdd, Unhold, Remove, Stages
  <1>4. ASSUME NEW h \in Handlers, Wrap(h) PROVE WriteInv'
    <2>1. CASE live' = live \cup {h} /\ pc' = [pc EXCEPT ![h] = "add"]
        BY <1>4, <2>1 DEF Wrap, WriteInv, NoLateWrite, Stages
    <2>2. CASE pc' = [pc EXCEPT ![h] = "remove"] /\ UNCHANGED live
        BY <1>4, <2>2, <1>1, Zenon DEF Wrap, Stages
    <2> QED
        BY <1>4, <2>1, <2>2 DEF Wrap
  <1>5. ASSUME NEW h \in Handlers, Teardown(h) PROVE WriteInv'
      BY <1>5 DEF Teardown, WriteInv, NoLateWrite, Stages
  <1>6. ASSUME NEW f \in Flushers, NEW h \in Handlers, FlushViews(f, h) PROVE WriteInv'
      BY <1>6 DEF FlushViews, WriteInv, NoLateWrite
  <1>7. ASSUME NEW f \in Flushers, NEW h \in Handlers, WriteEnds(f, h) PROVE WriteInv'
      BY <1>7 DEF WriteEnds, WriteInv, NoLateWrite
  <1>8. ASSUME NEW h \in Handlers, RequestEnds(h) \/ TryFlush(h) PROVE WriteInv'
      BY <1>8, <1>0 DEF RequestEnds, TryFlush
  <1>9. ASSUME NEW r \in Routers, (\E i \in Keys : Lookup(r, i)) \/ CheckLive(r) \/ Buffer(r) PROVE WriteInv'
      BY <1>9, <1>0 DEF Lookup, CheckLive, Buffer
  <1>10. ASSUME Tick \/ UNCHANGED vars PROVE WriteInv'
      BY <1>10, <1>0 DEF Tick, vars
  <1> QED
      BY <1>2, <1>3, <1>4, <1>5, <1>6, <1>7, <1>8, <1>9, <1>10 DEF Next, HandlerStep, FlushStep

(* Every step preserves CapInv: only Reserve adds a peer.                    *)
LEMMA CapNext == CapInv /\ RegInv' /\ [Next]_vars => CapInv'
  <1> SUFFICES ASSUME CapInv, RegInv', [Next]_vars PROVE CapInv'
      OBVIOUS
  <1> USE DownAssumption DEF registry, handler, writers
  <1>0. IsFiniteSet(Tracked) /\ byID' \in [Keys -> Handlers \cup {Nil}]
      BY FS_Subset DEF CapInv, Tracked, RegInv
  <1>1. ASSUME Tracked' \subseteq Tracked PROVE CapInv'
    <2>1. Cardinality(Tracked') <= Cardinality(Tracked) /\ Cardinality(Tracked) \in Nat /\ Cardinality(Tracked') \in Nat
        BY <1>0, <1>1, FS_Subset, FS_CardinalityType
    <2> QED
        BY <1>0, <2>1 DEF CapInv, DownPeersCapped
  <1>2. ASSUME NEW h \in Handlers, NEW claimed \in Keys, NEW ts \in 1..MaxTS, Reserve(h, claimed, ts)
        PROVE  CapInv'
    <2>1. ASSUME NEW i \in Keys, HasRoom(claimed, i), byID' = [byID EXCEPT ![i] = h] PROVE CapInv'
      <3>1. Tracked' = Tracked \cup {i}
          BY <2>1 DEF Tracked, CapInv
      <3>2. CASE byID[i] # Nil
        <4>1. i \in Tracked
            BY <3>2 DEF Tracked
        <4> QED
            BY <3>1, <4>1, <1>1
      <3>3. CASE byID[i] = Nil
        <4>1. MaxPeers = 0 \/ Cardinality(Tracked) < MaxPeers
            BY <2>1, <3>3 DEF HasRoom
        <4>2. i \notin Tracked
            BY <3>3 DEF Tracked
        <4>3. Cardinality(Tracked') = Cardinality(Tracked) + 1 /\ Cardinality(Tracked) \in Nat
            BY <1>0, <3>1, <4>2, FS_AddElement, FS_CardinalityType
        <4> QED
            BY <4>1, <4>3, <1>0 DEF CapInv, DownPeersCapped
      <3> QED
          BY <3>2, <3>3
    <2>2. ASSUME UNCHANGED byID PROVE CapInv'
        BY <2>2, <1>1 DEF Tracked
    <2> QED
        BY <1>2, <2>1, <2>2 DEF Reserve, Grants, Keys
  <1>3. ASSUME NEW h \in Handlers, Remove(h) PROVE CapInv'
    <2>1. byID' = [byID EXCEPT ![id[h]] = IF @ = h THEN Nil ELSE @]
        BY <1>3 DEF Remove
    <2>2. Tracked' \subseteq Tracked
        BY <2>1, <1>0 DEF CapInv, Tracked
    <2> QED
        BY <2>2, <1>1
  <1>4. ASSUME UNCHANGED byID PROVE CapInv'
      BY <1>4, <1>1 DEF Tracked
  <1>5. ASSUME NEW h \in Handlers,
               Supersede(h) \/ Wrap(h) \/ FlushAdd(h) \/ Unhold(h) \/ Teardown(h) \/ RequestEnds(h) \/ TryFlush(h)
        PROVE  CapInv'
      BY <1>5, <1>4 DEF Supersede, Wrap, FlushAdd, Unhold, Teardown, RequestEnds, TryFlush
  <1>6. ASSUME NEW r \in Routers, (\E i \in Keys : Lookup(r, i)) \/ CheckLive(r) \/ Buffer(r) PROVE CapInv'
      BY <1>6, <1>4 DEF Lookup, CheckLive, Buffer
  <1>7. ASSUME NEW f \in Flushers, FlushStep(f) PROVE CapInv'
      BY <1>7, <1>4 DEF FlushStep, FlushViews, WriteEnds
  <1>8. ASSUME Tick \/ UNCHANGED vars PROVE CapInv'
      BY <1>8, <1>4, Zenon DEF Tick, vars
  <1> QED
      BY <1>2, <1>3, <1>5, <1>6, <1>7, <1>8 DEF Next, HandlerStep

(* http.go:490-519: no response is written outside its handler's life,       *)
(* whatever routers, ticks and handlers do.                                  *)
THEOREM WritesInTime == Spec => []NoLateWrite
  <1>1. WriteInv => NoLateWrite
      BY DEF WriteInv
  <1> QED
      BY <1>1, InitInvs, WriteNext, PTL DEF Spec

(* http.go:646-674: a replaced stream is told to end, and told once.         *)
THEOREM ReplacedAreTold == Spec => []SupersededTold
  <1>1. RegInv => SupersededTold
      BY DEF RegInv
  <1> QED
      BY <1>1, InitInvs, RegNext, PTL DEF Spec

(* http.go:653: the registry never holds more than maxPeers streams.         *)
THEOREM StreamsCapped == Spec => []DownPeersCapped
  <1>1. CapInv => DownPeersCapped
      BY DEF CapInv
  <1> QED
      BY <1>1, InitInvs, RegNext, CapNext, PTL DEF Spec

(* ReturnPath counts the streams the registry holds.                         *)
LEMMA AttachedAreTracked ==
  Return!Attached = Tracked /\ \A S : Return!Cardinality(S) = Cardinality(S)
  <1>1. Return!Attached = Tracked
      BY DEF Return!Attached, Return!Off, Attachments, Tracked
  <1>2. \A S : Return!Cardinality(S) = Cardinality(S)
      BY Zenon DEF Return!Cardinality, Cardinality
  <1> QED
      BY <1>1, <1>2

(* Every id has a stamp.                                                     *)
StampInv == lastTS \in [Keys -> Nat]

(* reserve is the only one to set a stamp.                                   *)
LEMMA StampNext == StampInv /\ [Next]_vars => StampInv'
  <1> SUFFICES ASSUME StampInv, [Next]_vars PROVE StampInv'
      OBVIOUS
  <1> USE DownAssumption DEF registry, handler, writers
  <1>1. ASSUME UNCHANGED lastTS PROVE StampInv'
      BY <1>1 DEF StampInv
  <1>2. ASSUME NEW h \in Handlers, NEW claimed \in Keys, NEW ts \in 1..MaxTS, Reserve(h, claimed, ts)
        PROVE  StampInv'
      BY <1>2 DEF Reserve, StampInv
  <1>3. ASSUME NEW h \in Handlers, HandlerStep(h) \/ RequestEnds(h) \/ TryFlush(h) PROVE StampInv'
      BY <1>3, <1>1 DEF HandlerStep, Supersede, Wrap, FlushAdd, Unhold, Teardown, Remove, RequestEnds, TryFlush
  <1>4. ASSUME NEW r \in Routers, (\E i \in Keys : Lookup(r, i)) \/ CheckLive(r) \/ Buffer(r) PROVE StampInv'
      BY <1>4, <1>1 DEF Lookup, CheckLive, Buffer
  <1>5. ASSUME NEW f \in Flushers, FlushStep(f) PROVE StampInv'
      BY <1>5, <1>1, Zenon DEF FlushStep, FlushViews, WriteEnds
  <1>6. ASSUME Tick \/ UNCHANGED vars PROVE StampInv'
      BY <1>6, <1>1, Zenon DEF Tick, vars
  <1> QED
      BY <1>2, <1>3, <1>4, <1>5, <1>6 DEF Next

(* Every step attaches one peer by a fresher GET or within the cap, detaches *)
(* the one whose handler leaves, or changes no return path.                  *)
LEMMA StepKeepsPaths == CapInv /\ RegInv /\ StampInv /\ [Next]_vars => [Return!Next]_Attachments
  <1> SUFFICES ASSUME CapInv, RegInv, StampInv, [Next]_vars PROVE Return!Next \/ Attachments' = Attachments
      OBVIOUS
  <1> USE DownAssumption DEF registry, handler, writers
  <1>0. IsFiniteSet(Tracked) /\ Cardinality(Tracked) <= Cardinality(Keys)
        /\ Cardinality(Tracked) \in Nat /\ Cardinality(Keys) \in Nat
      BY FS_Subset, FS_CardinalityType DEF CapInv, Tracked
  <1>1. ASSUME UNCHANGED <<byID, lastTS>> PROVE Attachments' = Attachments
      BY <1>1 DEF Attachments
  <1>2. ASSUME NEW h \in Handlers, NEW claimed \in Keys, NEW ts \in 1..MaxTS, Reserve(h, claimed, ts)
        PROVE  Return!Next \/ Attachments' = Attachments
    <2>1. CASE UNCHANGED <<byID, lastTS>>
        BY <2>1, <1>1
    <2>2. ASSUME NEW i \in Grants(claimed, ts), HasRoom(claimed, i),
                 byID' = [byID EXCEPT ![i] = h], lastTS' = [lastTS EXCEPT ![i] = ts]
          PROVE  Return!Next
      <3>1. i \in Keys /\ (byID[i] # Nil => ts > lastTS[i])
          BY DEF Grants, Keys
      <3>2. Attachments' = [Attachments EXCEPT ![i] = <<h, ts>>]
        <4>1. \A j \in Keys : byID'[j] = (IF j = i THEN h ELSE byID[j])
                              /\ lastTS'[j] = (IF j = i THEN ts ELSE lastTS[j])
            BY <2>2, <3>1 DEF RegInv, StampInv
        <4> QED
            BY <3>1, <4>1, Zenon DEF Attachments
      <3>3. Attachments[i] = IF byID[i] = Nil THEN <<>> ELSE <<byID[i], lastTS[i]>>
          BY <3>1 DEF Attachments
      <3>4. byID[i] = Nil => Cardinality(Tracked) < IF MaxPeers = 0 THEN Cardinality(Keys) + 1 ELSE MaxPeers
          BY <2>2, <1>0 DEF HasRoom
      <3>5. Return!Attach(i, h, ts)
          BY <3>1, <3>2, <3>3, <3>4, AttachedAreTracked DEF Return!Attach, Return!Off
      <3> QED
          BY <3>1, <3>5 DEF Return!Next
    <2> QED
        BY <1>2, <2>1, <2>2 DEF Reserve
  <1>3. ASSUME NEW h \in Handlers, Remove(h) PROVE Return!Next \/ Attachments' = Attachments
    <2>1. id[h] \in Keys /\ lastTS' = lastTS /\ byID' = [byID EXCEPT ![id[h]] = IF @ = h THEN Nil ELSE @]
        BY <1>3 DEF Remove, RegInv
    <2>2. CASE byID[id[h]] = h
      <3>1. Attachments' = [i \in Keys |-> IF i \in {id[h]} THEN <<>> ELSE Attachments[i]]
          BY <2>1, <2>2 DEF Attachments, RegInv
      <3>2. {id[h]} \in SUBSET Return!Attached
          BY <2>1, <2>2, AttachedAreTracked DEF Tracked
      <3>3. Return!Detach({id[h]})
          BY <3>1 DEF Return!Detach, Return!Off
      <3> QED
          BY <3>2, <3>3 DEF Return!Next
    <2>3. CASE byID[id[h]] # h
        BY <2>1, <2>3, <1>1 DEF RegInv
    <2> QED
        BY <2>2, <2>3
  <1>4. ASSUME NEW h \in Handlers,
               Supersede(h) \/ Wrap(h) \/ FlushAdd(h) \/ Unhold(h) \/ Teardown(h) \/ RequestEnds(h) \/ TryFlush(h)
        PROVE  Attachments' = Attachments
      BY <1>4, <1>1 DEF Supersede, Wrap, FlushAdd, Unhold, Teardown, RequestEnds, TryFlush
  <1>5. ASSUME NEW r \in Routers, (\E i \in Keys : Lookup(r, i)) \/ CheckLive(r) \/ Buffer(r)
        PROVE  Attachments' = Attachments
      BY <1>5, <1>1 DEF Lookup, CheckLive, Buffer
  <1>6. ASSUME NEW f \in Flushers, FlushStep(f) PROVE Attachments' = Attachments
      BY <1>6, <1>1, Zenon DEF FlushStep, FlushViews, WriteEnds
  <1>7. ASSUME Tick \/ UNCHANGED vars PROVE Attachments' = Attachments
      BY <1>7, <1>1, Zenon DEF Tick, vars
  <1> QED
      BY <1>2, <1>3, <1>4, <1>5, <1>6, <1>7 DEF Next, HandlerStep

(* http.go:625-674: the http carrier's own registry implements ReturnPath,   *)
(* for any number of GETs, ids and routers.                                  *)
THEOREM StreamsImplementReturnPath == Spec => KeepsReturnPath
  <1>1. Init => Return!Init
      BY DEF Init, Return!Init, Return!Off, Attachments
  <1>2. Init => StampInv
      BY DEF Init, StampInv
  <1> QED
      BY <1>1, <1>2, StepKeepsPaths, InitInvs, RegNext, CapNext, StampNext, PTL DEF Spec, KeepsReturnPath, Return!Spec


----------------------------------------------------------------------------
(* The up-path.                                                              *)

UpTypeOK ==
  /\ stage \in [Posts -> {"none", "posted", "cancel", "wrap", "run", "leave"}]
  /\ active \in Posts \cup {NoPost} /\ former \in [Posts -> Posts \cup {NoPost}]
  /\ conn \in Posts \cup {NoPost} /\ (call = "write" => conn \in Posts)
  /\ deadline \in [Posts -> {"none", "armed", "past"}]
  /\ fetch \in [Posts -> {"off", "arm", "read", "end"}]

(* Bounds of the handlers: what is in flight, what has been read ahead, and  *)
(* the frames forgiven before the handler leaves.                            *)
Bounded ==
  /\ wire \in [Posts -> 0..WireCap]
  /\ ahead \in [Posts -> 0..Ahead]
  /\ bad \in [Posts -> 0..(MaxBad + 1)]
  /\ \A s \in Posts : /\ bad[s] > MaxBad => stage[s] = "leave"
                      /\ fetch[s] = "read" => ahead[s] < Ahead

(* The registry is what the last registration left, and names a handler that *)
(* has not returned.                                                         *)
Named ==
  /\ active = last
  /\ active # NoPost => stage[active] \in {"cancel", "wrap", "run", "leave"}

(* A handler that has yet to cancel another has taken it out of the registry *)
(* for good, and is alone in doing so.                                       *)
Superseding ==
  \A g \in Posts : former[g] # NoPost =>
    /\ stage[g] = "cancel" /\ former[g] # active /\ stage[former[g]] # "posted"
    /\ \A h \in Posts : former[h] = former[g] => h = g

Pending == \A g \in Posts : stage[g] = "cancel" => former[g] \in Posts

UpInv == UpTypeOK /\ Bounded /\ Named /\ Superseding /\ Pending

(* Nothing is dialled at first.                                              *)
LEMMA InitUpInv == UpInit => UpInv
  <1> SUFFICES ASSUME UpInit PROVE UpInv
      OBVIOUS
  <1>1. UpTypeOK /\ Named /\ Superseding /\ Pending
      BY DEF UpInit, Of, UpTypeOK, Named, Superseding, Pending
  <1>2. Bounded
      BY PostAssumption DEF UpInit, Of, Bounded
  <1> QED BY <1>1, <1>2 DEF UpInv

(* The client and the path, but for a dial: no handler is touched.           *)
Outside ==
  \/ Send \/ DialErr \/ WriteOK \/ WriteErr \/ BackoffEnds \/ Ages \/ Reconnect \/ Close
  \/ Calms \/ \E s \in Posts : Dies(s) \/ SocketEnds(s)

(* Such a step leaves the registry, the handlers and their readers alone.    *)
LEMMA OutsideLeaves ==
  ASSUME Outside
  PROVE  UNCHANGED <<stage, active, former, last, deadline, fetch, ahead, bad>>
  BY DEF Outside, Send, DialErr, WriteOK, WriteErr, BackoffEnds, Ages, Reconnect, Close,
         Calms, Dies, SocketEnds, table, reader

(* A Send that writes has a connection to write to, and nothing else about   *)
(* the types depends on the client.                                          *)
LEMMA OutsideTypes ==
  ASSUME UpTypeOK, Outside
  PROVE  UpTypeOK'
  <1> USE DEF UpTypeOK
  <1>1. conn' \in Posts \cup {NoPost} /\ (call' = "write" => conn' \in Posts)
    <2>1. CASE Send
        BY <2>1 DEF Send, resetLocked
    <2>2. CASE DialErr \/ WriteOK \/ BackoffEnds \/ Ages
        BY <2>2 DEF DialErr, WriteOK, BackoffEnds, Ages
    <2>3. CASE WriteErr \/ Reconnect \/ Close
        BY <2>3 DEF WriteErr, Reconnect, Close, resetLocked
    <2>4. CASE Calms \/ \E s \in Posts : Dies(s) \/ SocketEnds(s)
        BY <2>4, Zenon DEF Calms, Dies, SocketEnds, client
    <2> QED BY <2>1, <2>2, <2>3, <2>4 DEF Outside
  <1> QED BY <1>1, OutsideLeaves

(* Every handler stays at one of its places, and names connections.          *)
LEMMA NextUpType ==
  ASSUME UpTypeOK, Pending, [UpNext]_upVars
  PROVE  UpTypeOK'
  <1> USE DEF UpTypeOK
  <1>1. CASE Outside
      BY <1>1, OutsideTypes
  <1>2. ASSUME NEW s \in Posts, DialOK(s) PROVE UpTypeOK'
      BY <1>2 DEF DialOK, table, reader
  <1>3. ASSUME NEW s \in Posts, Lost(s) \/ WrapErr(s) \/ StreamEnds(s) PROVE UpTypeOK'
      BY <1>3 DEF Lost, WrapErr, StreamEnds, client, table, reader
  <1>4. ASSUME NEW s \in Posts, Replace(s) PROVE UpTypeOK'
      BY <1>4 DEF Replace, client, reader
  <1>5. ASSUME NEW s \in Posts, Cancel(s) PROVE UpTypeOK'
      BY <1>5 DEF Cancel, client, reader, Pending
  <1>6. ASSUME NEW s \in Posts, WrapOK(s) PROVE UpTypeOK'
      BY <1>6 DEF WrapOK, client, table
  <1>7. ASSUME NEW s \in Posts, Handle(s) PROVE UpTypeOK'
      BY <1>7 DEF Handle, client, table
  <1>8. ASSUME NEW s \in Posts, remove(s) PROVE UpTypeOK'
      BY <1>8 DEF remove, Returns, client
  <1>9. ASSUME NEW s \in Posts, Arm(s) \/ ReadOK(s) \/ ReadErr(s) PROVE UpTypeOK'
      BY <1>9 DEF Arm, ReadOK, ReadErr, client, table
  <1>10. ASSUME NEW s \in Posts, Expire(s) PROVE UpTypeOK'
      BY <1>10 DEF Expire, client, table, reader
  <1>11. CASE UNCHANGED upVars
      BY <1>11 DEF upVars, client, table, reader
  <1> QED BY <1>1, <1>2, <1>3, <1>4, <1>5, <1>6, <1>7, <1>8, <1>9, <1>10, <1>11,
         Zenon DEF UpNext, ClientStep, PostStep, PrefetchStep, Outside

(* Frames are counted within the room there is for them.                     *)
LEMMA NextBounded ==
  ASSUME UpTypeOK, Bounded, [UpNext]_upVars
  PROVE  Bounded'
  <1> USE PostAssumption DEF Bounded
  <1>1. CASE Outside
    <2>1. wire' \in [Posts -> 0..WireCap]
      <3>1. CASE WriteOK
          BY <3>1 DEF WriteOK, UpTypeOK
      <3>2. ASSUME NEW s \in Posts, Dies(s) PROVE wire' \in [Posts -> 0..WireCap]
          BY <3>2 DEF Dies
      <3>3. CASE ~WriteOK /\ ~ \E s \in Posts : Dies(s)
        <4>1. UNCHANGED wire
            BY <1>1, <3>3, Zenon DEF Outside, Send, DialErr, WriteErr, BackoffEnds, Ages, Reconnect,
                              Close, Calms, SocketEnds, path
        <4> QED BY <4>1
      <3> QED BY <3>1, <3>2, <3>3
    <2> QED BY <1>1, <2>1, OutsideLeaves, Zenon
  <1>2. ASSUME NEW s \in Posts, DialOK(s) PROVE Bounded'
      BY <1>2 DEF DialOK, Unused, reader, UpTypeOK
  <1>3. ASSUME NEW s \in Posts, Lost(s) \/ WrapErr(s) \/ StreamEnds(s) PROVE Bounded'
      BY <1>3 DEF Lost, WrapErr, StreamEnds, path, reader, UpTypeOK
  <1>4. ASSUME NEW s \in Posts, Replace(s) \/ Cancel(s) PROVE Bounded'
      BY <1>4 DEF Replace, Cancel, path, reader, UpTypeOK
  <1>5. ASSUME NEW s \in Posts, WrapOK(s) PROVE Bounded'
      BY <1>5 DEF WrapOK, Readable, UpTypeOK
  <1>6. ASSUME NEW s \in Posts, Handle(s) PROVE Bounded'
      BY <1>6 DEF Handle, path, UpTypeOK
  <1>7. ASSUME NEW s \in Posts, remove(s) PROVE Bounded'
      BY <1>7 DEF remove, Returns, UpTypeOK
  <1>8. ASSUME NEW s \in Posts, Arm(s) PROVE Bounded'
      BY <1>8 DEF Arm, path, UpTypeOK
  <1>9. ASSUME NEW s \in Posts, ReadOK(s) PROVE Bounded'
      BY <1>9 DEF ReadOK, Readable, UpTypeOK
  <1>10. ASSUME NEW s \in Posts, ReadErr(s) \/ Expire(s) PROVE Bounded'
      BY <1>10 DEF ReadErr, Expire, path, reader, UpTypeOK
  <1>11. CASE UNCHANGED upVars
      BY <1>11, Zenon DEF upVars, path, reader
  <1> QED BY <1>1, <1>2, <1>3, <1>4, <1>5, <1>6, <1>7, <1>8, <1>9, <1>10, <1>11,
         Zenon DEF UpNext, ClientStep, PostStep, PrefetchStep, Outside

(* replace and remove under c.mu: only the handler that registers takes      *)
(* another out, and a connection is not dialled anew while one has yet to    *)
(* cancel its handler.                                                       *)
LEMMA NextTable ==
  ASSUME UpTypeOK, Named, Superseding, Pending, [UpNext]_upVars
  PROVE  Named' /\ Superseding' /\ Pending'
  <1> USE PostAssumption DEF UpTypeOK, Named, Superseding, Pending
  <1> DEFINE Kept == Named' /\ Superseding' /\ Pending'
  <1>1. CASE Outside
      BY <1>1, OutsideLeaves
  <1>2. ASSUME NEW s \in Posts, DialOK(s) PROVE Kept
    <2>1. UNCHANGED <<active, former, last>> /\ stage' = [stage EXCEPT ![s] = "posted"]
      BY <1>2 DEF DialOK, table
    <2>2. stage[s] = "none" /\ \A h \in Posts : former[h] # s
      BY <1>2 DEF DialOK, Unused
    <2> QED BY <2>1, <2>2
  <1>3. ASSUME NEW s \in Posts, Lost(s) PROVE Kept
      BY <1>3 DEF Lost, table
  <1>4. ASSUME NEW s \in Posts, Replace(s) PROVE Kept
    <2>1. /\ stage[s] = "posted" /\ active # s
          /\ active' = s /\ last' = s /\ former' = [former EXCEPT ![s] = active]
          /\ stage' = [stage EXCEPT ![s] = IF active = NoPost THEN "wrap" ELSE "cancel"]
      BY <1>4 DEF Replace
    <2>2. former[s] = NoPost /\ \A h \in Posts : former[h] # s
      BY <2>1
    <2>3. Named' /\ Pending'
      BY <2>1
    <2>4. Superseding'
      BY <2>1, <2>2
    <2> QED BY <2>3, <2>4
  <1>5. ASSUME NEW s \in Posts, Cancel(s) PROVE Kept
      BY <1>5 DEF Cancel
  <1>6. ASSUME NEW s \in Posts, WrapOK(s) \/ WrapErr(s) \/ Handle(s) \/ StreamEnds(s) PROVE Kept
    <2>1. /\ UNCHANGED <<active, former, last>> /\ stage[s] \in {"wrap", "run"}
          /\ \/ UNCHANGED stage
             \/ \E to \in {"run", "leave"} : stage' = [stage EXCEPT ![s] = to]
      BY <1>6 DEF WrapOK, WrapErr, Handle, StreamEnds, table
    <2> QED BY <2>1
  <1>7. ASSUME NEW s \in Posts, remove(s) PROVE Kept
      BY <1>7 DEF remove, Returns
  <1>8. ASSUME NEW s \in Posts, Arm(s) \/ ReadOK(s) \/ ReadErr(s) \/ Expire(s) PROVE Kept
    <2>1. UNCHANGED <<active, former, last, stage>>
      BY <1>8 DEF Arm, ReadOK, ReadErr, Expire, table
    <2> QED BY <2>1
  <1>9. CASE UNCHANGED upVars
      BY <1>9 DEF upVars, table
  <1> QED BY <1>1, <1>2, <1>3, <1>4, <1>5, <1>6, <1>7, <1>8, <1>9,
         Zenon DEF UpNext, ClientStep, PostStep, PrefetchStep, Outside

(* The registry, the cancels and the counters of the up-path stay sound, for *)
(* any number of POSTs.                                                      *)
THEOREM UpInvariant == UpSpec => []UpInv
  <1>1. UpInv /\ [UpNext]_upVars => UpInv'
      BY NextUpType, NextBounded, NextTable DEF UpInv
  <1> QED BY <1>1, InitUpInv, PTL DEF UpSpec

(* replace and remove (http.go:444-469): the registry names the handler that *)
(* registered last for as long as that one serves, however late those before *)
(* it leave.                                                                 *)
THEOREM LastNamedAlways == UpSpec => []LastIsNamed
  <1>1. UpInv => LastIsNamed
      BY PostAssumption DEF UpInv, Named, LastIsNamed
  <1> QED BY <1>1, UpInvariant, PTL

(* old.cancel runs after the unlock, so other POSTs may register and leave   *)
(* before it: still it never reaches the handler the registry names, nor one *)
(* that has yet to register, and no handler is cancelled by two.             *)
CancelsOnlyBefore ==
  \A g \in Posts : stage[g] = "cancel" =>
    /\ former[g] # active /\ stage[former[g]] # "posted"
    /\ \A h \in Posts : stage[h] = "cancel" /\ former[h] = former[g] => h = g

(* A delayed cancel never ends the stream that the client now uses.          *)
THEOREM CancelsStayBehind == UpSpec => []CancelsOnlyBefore
  <1>1. UpInv => CancelsOnlyBefore
      BY PostAssumption DEF UpInv, Superseding, Pending, CancelsOnlyBefore
  <1> QED BY <1>1, UpInvariant, PTL
=============================================================================
