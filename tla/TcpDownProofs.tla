---------------------------- MODULE TcpDownProofs ----------------------------
(***************************************************************************)
(* The tcp downlink over its registry, for any clients, connections,       *)
(* writers, ids, stamps, cap and ttl.                                      *)
(***************************************************************************)
EXTENDS PeersProofs, TcpDown

Controls == [id : Ids \cup {Zero}, ts : 1..MaxStamp]
Frames == [what : {"assign", "data", "cut"}, id : Ids \cup {Zero}]

(* Clients, connections and mutexes have their types.                        *)
DownTypeOK ==
  /\ at \in [Clients -> {"idle", "wait", "on"}]
  /\ link \in [Clients -> Keys \cup {NoKey}] /\ \A c \in Clients : at[c] # "idle" => link[c] \in Keys
  /\ curID \in [Clients -> Ids \cup {Zero}]
  /\ lastTS \in 0..MaxStamp
  /\ up \in [Keys -> Seq(Controls)]
  /\ out \in [Keys -> Seq(Frames)]
  /\ line \in [Keys -> {"open", "silent", "shut"}]
  /\ pc \in [Keys -> {"none", "accepted", "locked", "steady", "over"}]
  /\ wmu \in [Keys -> Flushers \cup {NoOne}]
  /\ pmu \in [Keys -> Flushers \cup {NoOne, "handler"}]

(* Nobody's packets go to connection k.                                      *)
Unregistered(k) == single # k /\ \A i \in live : key[i] # k

(* How far connection k's stream is, by its handler: nothing is written, and *)
(* nobody can get hold of its Writer, before it registers; pc.mu is held from*)
(* there to the assignment; a stream without one is shut, a cut one too.     *)
StreamStage(k) ==
  /\ pc[k] \in {"none", "accepted"} =>
       Unregistered(k) /\ wmu[k] = NoOne /\ pmu[k] = NoOne
  /\ pc[k] = "locked" <=> pmu[k] = "handler"
  /\ pc[k] \in {"none", "accepted", "locked"} => out[k] = <<>>
  /\ pc[k] = "steady" => out[k] # <<>>
  /\ pc[k] = "over" /\ out[k] = <<>> => line[k] = "shut"
  /\ \/ out[k] = <<>>
     \/ Len(out[k]) = 1 /\ out[k][1].what = "assign"
     \/ /\ Len(out[k]) = 2 /\ out[k][1].what = "assign" /\ out[k][2].what = "cut"
        /\ line[k] = "shut"

StreamInv == \A k \in Keys : StreamStage(k)

DownInv == IInv /\ OneMode /\ DownTypeOK /\ StreamInv

(* No connection exists at first.                                            *)
LEMMA DownInitInv == DownInit => DownInv
<1> SUFFICES ASSUME DownInit PROVE DownInv
  OBVIOUS
<1>1. IInv /\ OneMode
  BY InitIInv DEF DownInit, Init, OneMode
<1>2. DownTypeOK
  BY DownAssumption DEF DownInit, ClaimsInit, DownTypeOK
<1>3. StreamInv
  BY DownAssumption, IdAssumption DEF DownInit, Init, StreamInv, StreamStage, Unregistered
<1> QED BY <1>1, <1>2, <1>3 DEF DownInv

(* A control that waits is one the registry's steps allow for.               *)
LEMMA ControlTaken ==
  ASSUME DownTypeOK, NEW k \in Keys, up[k] # <<>>
  PROVE  /\ Head(up[k]) \in Controls
         /\ Head(up[k]).id \in Ids \cup {Zero} /\ Head(up[k]).ts \in Stamps
         /\ Tail(up[k]) \in Seq(Controls)
<1>1. up[k] \in Seq(Controls)
  BY DEF DownTypeOK
<1>2. Head(up[k]) \in Controls /\ Tail(up[k]) \in Seq(Controls)
  BY <1>1
<1> QED BY <1>2, DownAssumption DEF Controls

(* To the registry every step is one of its own or none.                     *)
LEMMA DownStepsRegistry == DownTypeOK /\ [DownNext]_downVars => [Next]_vars
<1> SUFFICES ASSUME DownTypeOK, [DownNext]_downVars, vars' # vars PROVE Next
  OBVIOUS
<1>1. ASSUME NEW c \in Clients, ClientStep(c) PROVE FALSE
  BY <1>1 DEF ClientStep, Dial, ReadAssign, Keepalive, Leave
<1>2. ASSUME NEW k \in Keys, up[k] # <<>>, Register(Head(up[k]), k) PROVE Next
  BY <1>2, ControlTaken, Zenon DEF Register, Next
<1>3. ASSUME NEW k \in Keys, HandlerStep(k) \/ TryFlush(k) PROVE Next
  BY <1>2, <1>3
     DEF HandlerStep, HandleRegister, HandshakeFails, AssignWrite, HandleKeepalive, ReadFails,
         HandlerReturns, TryFlush
<1>4. ASSUME NEW r \in Routers, NEW o \in Ids \cup {Zero}, Send(r, o) PROVE FALSE
  BY <1>4 DEF Send
<1>5. ASSUME NEW f \in Flushers, FlushStep(f) PROVE FALSE
  BY <1>5 DEF FlushStep, FlushViews, WriteEnds
<1>6. CASE RegistryTime
  BY <1>6 DEF RegistryTime, Next
<1> QED BY <1>1, <1>3, <1>4, <1>5, <1>6 DEF DownNext, downVars

(* Whatever is written to a stream, frames stay frames.                      *)
LEMMA WrittenIsStream ==
  ASSUME NEW o \in Seq(Frames), NEW f \in Frames
  PROVE  Written(o, f) \in Seq(Frames)
BY DEF Written

(* Clients, handlers and writers keep their types.                           *)
LEMMA DownTypeStep == IInv /\ DownTypeOK /\ [DownNext]_downVars => DownTypeOK'
<1> SUFFICES ASSUME IInv, DownTypeOK, [DownNext]_downVars PROVE DownTypeOK'
  OBVIOUS
<1>1. ASSUME NEW c \in Clients, Dial(c) PROVE DownTypeOK'
  <2> DEFINE k == CHOOSE x \in Keys : pc[x] = "none"
  <2>1. k \in Keys /\ pc[k] = "none"
    BY <1>1 DEF Dial, Stamp
  <2> HIDE DEF k
  <2>2. /\ lastTS' = lastTS + 1 /\ lastTS < MaxStamp
        /\ up' = [up EXCEPT ![k] = <<Control(curID[c], lastTS')>>]
        /\ at' = [at EXCEPT ![c] = "wait"] /\ link' = [link EXCEPT ![c] = k]
        /\ pc' = [pc EXCEPT ![k] = "accepted"]
        /\ UNCHANGED <<curID, line, out, writers>>
    BY <1>1 DEF Dial, Stamp, k
  <2>3. lastTS' \in 1..MaxStamp
    BY <2>2, DownAssumption DEF DownTypeOK
  <2>4. <<Control(curID[c], lastTS')>> \in Seq(Controls)
    BY <2>3 DEF Control, Controls, DownTypeOK
  <2>5. at' \in [Clients -> {"idle", "wait", "on"}] /\ pc' \in [Keys -> {"none", "accepted", "locked", "steady", "over"}]
    BY <2>1, <2>2 DEF DownTypeOK
  <2>6. link' \in [Clients -> Keys \cup {NoKey}] /\ \A d \in Clients : at'[d] # "idle" => link'[d] \in Keys
    BY <2>1, <2>2 DEF DownTypeOK
  <2>7. up' \in [Keys -> Seq(Controls)]
    BY <2>2, <2>4, Zenon DEF DownTypeOK
  <2> QED BY <2>2, <2>3, <2>5, <2>6, <2>7 DEF DownTypeOK, writers
<1>2. ASSUME NEW c \in Clients, ReadAssign(c) PROVE DownTypeOK'
  <2>1. link[c] \in Keys /\ out[link[c]] \in Seq(Frames) /\ out[link[c]] # <<>>
    BY <1>2 DEF ReadAssign, DownTypeOK
  <2>2. out[link[c]][1] \in Frames
    <3>1. 1 \in 1..Len(out[link[c]])
      BY <2>1
    <3> QED BY <2>1, <3>1
  <2>3. out[link[c]][1].id \in Ids \cup {Zero}
    BY <2>2 DEF Frames
  <2> QED BY <1>2, <2>3 DEF ReadAssign, DownTypeOK, writers
<1>3. ASSUME NEW c \in Clients, Keepalive(c) PROVE DownTypeOK'
  <2>1. lastTS' \in 1..MaxStamp /\ link[c] \in Keys
    BY <1>3, DownAssumption DEF Keepalive, Stamp, DownTypeOK
  <2>2. Control(curID[c], lastTS') \in Controls
    BY <2>1 DEF Control, Controls, DownTypeOK
  <2>3. up' \in [Keys -> Seq(Controls)]
    BY <1>3, <2>1, <2>2 DEF Keepalive, Stamp, DownTypeOK
  <2> QED BY <1>3, <2>1, <2>3 DEF Keepalive, Stamp, DownTypeOK, writers
<1>4. ASSUME NEW c \in Clients, NEW told \in BOOLEAN, NEW forgets \in BOOLEAN, Leave(c, told, forgets)
      PROVE  DownTypeOK'
  <2>1. link[c] \in Keys
    BY <1>4 DEF Leave, DownTypeOK
  <2>2. line' \in [Keys -> {"open", "silent", "shut"}] /\ curID' \in [Clients -> Ids \cup {Zero}]
    BY <1>4, <2>1 DEF Leave, DownTypeOK
  <2> QED BY <1>4, <2>2 DEF Leave, DownTypeOK, writers
<1>5. ASSUME NEW k \in Keys, HandlerStep(k) PROVE DownTypeOK'
  <2>1. CASE HandleRegister(k)
    BY <2>1, ControlTaken, Zenon DEF HandleRegister, DownTypeOK, client, claims, Closed
  <2>2. CASE HandshakeFails(k)
    BY <2>2 DEF HandshakeFails, DownTypeOK, client, claims, Closed, writers
  <2>3. CASE AssignWrite(k)
    <3>1. Frame("assign", Assigned(k)) \in Frames
      BY DEF Frame, Frames, Assigned, IInv, TypeOK
    <3>2. out' \in [Keys -> Seq(Frames)]
      <4>1. out \in [Keys -> Seq(Frames)] /\ Written(out[k], Frame("assign", Assigned(k))) \in Seq(Frames)
        BY <3>1, WrittenIsStream DEF DownTypeOK
      <4> QED BY <2>3, <4>1 DEF AssignWrite
    <3> QED BY <2>3, <3>2, Zenon DEF AssignWrite, DownTypeOK, client, claims, Closed
  <2>4. CASE HandleKeepalive(k)
    BY <2>4, ControlTaken DEF HandleKeepalive, DownTypeOK, client, claims, writers
  <2>5. CASE ReadFails(k)
    BY <2>5 DEF ReadFails, HandlerReturns, TeardownLocked, Closed, DownTypeOK, client, claims, writers
  <2> QED BY <1>5, <2>1, <2>2, <2>3, <2>4, <2>5 DEF HandlerStep
<1>6. ASSUME NEW k \in Keys, TryFlush(k) PROVE DownTypeOK'
  BY <1>6 DEF TryFlush, DownTypeOK, client, claims, Flushers
<1>7. ASSUME NEW r \in Routers, NEW o \in Ids \cup {Zero}, Send(r, o) PROVE DownTypeOK'
  BY <1>7, Zenon DEF Send, Buffer, DownTypeOK, client, claims, Flushers
<1>8. ASSUME NEW f \in Flushers, NEW k \in Keys, FlushViews(f, k) PROVE DownTypeOK'
  BY <1>8, Zenon DEF FlushViews, FlushReturns, DownTypeOK, client, claims
<1>9. ASSUME NEW f \in Flushers, NEW k \in Keys, WriteEnds(f, k) PROVE DownTypeOK'
  <2>1. Frame("data", Zero) \in Frames /\ Frame("cut", Zero) \in Frames
    BY DEF Frame, Frames
  <2>2. out' \in [Keys -> Seq(Frames)]
    <3>1. /\ out \in [Keys -> Seq(Frames)]
          /\ Written(out[k], Frame("data", Zero)) \in Seq(Frames)
          /\ Written(out[k], Frame("cut", Zero)) \in Seq(Frames)
      BY <2>1, WrittenIsStream DEF DownTypeOK
    <3> QED BY <1>9, <3>1, Zenon DEF WriteEnds
  <2>3. line' \in [Keys -> {"open", "silent", "shut"}]
    BY <1>9, Zenon DEF WriteEnds, TeardownLocked, Closed, DownTypeOK
  <2> QED BY <1>9, <2>2, <2>3, Zenon DEF WriteEnds, FlushReturns, DownTypeOK, client, claims
<1>10. CASE RegistryTime \/ UNCHANGED downVars
  BY <1>10 DEF RegistryTime, downVars, DownTypeOK, client, claims, writers
<1> QED BY <1>1, <1>2, <1>3, <1>4, <1>5, <1>6, <1>7, <1>8, <1>9, <1>10
        DEF DownNext, ClientStep, FlushStep

(* A register from connection k brings packets to k and to no other.         *)
LEMMA RegistersOnlyItself ==
  ASSUME IInv, NEW k \in Keys, NEW m, m.id \in Ids \cup {Zero}, Register(m, k),
         NEW j \in Keys, j # k, Unregistered(j)
  PROVE  Unregistered(j)'
<1>1. CASE RegisterPeer(m.id, k, m.ts)
  <2>1. PICK id \in Candidates(m.id, k) : Bind(id, k, m.ts) \/ UNCHANGED peers
    BY <1>1 DEF RegisterPeer
  <2>2. id \in Ids /\ single' = single
    BY <1>1, CandidateIsId DEF RegisterPeer, IInv
  <2> QED BY <2>1, <2>2 DEF Unregistered, Bind, peers, IInv, TypeOK
<1>2. CASE RegisterSingle(k, m.ts)
  BY <1>2 DEF RegisterSingle, Unregistered, peers
<1>3. CASE UNCHANGED vars
  BY <1>3 DEF Unregistered, vars, peers
<1> QED BY <1>1, <1>2, <1>3 DEF Register

(* A step that leaves connection j's handler, stream and mutexes alone.      *)
LEMMA StageKept ==
  ASSUME NEW j \in Keys, StreamStage(j), Unregistered(j) => Unregistered(j)',
         pc'[j] = pc[j], out'[j] = out[j], wmu'[j] = wmu[j], pmu'[j] = pmu[j],
         line[j] = "shut" => line'[j] = "shut"
  PROVE  StreamStage(j)'
BY DEF StreamStage

(* The end of a write: only a stream with its assignment, uncut, is written. *)
LEMMA WriteEndsStage ==
  ASSUME DownInv, NEW j \in Keys, NEW f \in Flushers, NEW k \in Keys, WriteEnds(f, k)
  PROVE  StreamStage(j)'
<1> USE DEF DownInv
<1>0. StreamStage(j)
  BY DEF StreamInv
<1>s. UNCHANGED vars => (Unregistered(j) => Unregistered(j)')
  BY DEF Unregistered, vars, peers
<1>n. NoOne # "handler" /\ NoOne \notin Flushers /\ "handler" \notin Flushers
  BY DownAssumption DEF Flushers
<1>1. CASE j = k
  <2>1. pc[k] \in {"steady", "over"} /\ pc' = pc /\ pmu'[k] = NoOne
    BY <1>0, <1>n, <1>1 DEF WriteEnds, StreamStage, DownTypeOK
  <2>2. CASE line[k] = "shut"
    <3>1. out' = out /\ line'[k] = "shut"
      BY <2>2 DEF WriteEnds, TeardownLocked, Closed, DownTypeOK
    <3> QED BY <1>0, <1>n, <1>1, <2>1, <3>1 DEF StreamStage
  <2>3. CASE line[k] # "shut"
    <3>1. Len(out[k]) = 1 /\ out[k][1].what = "assign"
      BY <1>0, <1>1, <2>1, <2>3 DEF StreamStage
    <3>2. out[k] \in Seq(Frames)
      BY DEF DownTypeOK
    <3>3. out[k] # <<>> /\ Written(out[k], Frame("data", Zero)) = out[k]
      BY <3>1 DEF Written, Frame
    <3>4. CASE out' = [out EXCEPT ![k] = Written(@, Frame("data", Zero))] /\ UNCHANGED line
      BY <1>0, <1>n, <1>1, <2>1, <3>1, <3>3, <3>4 DEF StreamStage, DownTypeOK
    <3>5. CASE out' = [out EXCEPT ![k] = Written(@, Frame("cut", Zero))] /\ TeardownLocked(k)
      <4>1. Written(out[k], Frame("cut", Zero)) = Append(out[k], Frame("cut", Zero))
        BY <3>1 DEF Written, Frame
      <4>2. Frame("cut", Zero) \in Frames
        BY DEF Frame, Frames
      <4>3. out'[k] # <<>> /\ Len(out'[k]) = 2 /\ out'[k][1].what = "assign" /\ out'[k][2].what = "cut"
        <5> DEFINE o == Append(out[k], Frame("cut", Zero))
        <5>1. o # <<>> /\ Len(o) = Len(out[k]) + 1
          BY <3>2, <4>2
        <5>2. o[1] = out[k][1]
          BY <3>1, <3>2, <4>2
        <5>3. o[Len(out[k]) + 1] = Frame("cut", Zero)
          BY <3>2, <4>2
        <5>4. out'[k] = o
          BY <3>5, <4>1 DEF DownTypeOK
        <5> HIDE DEF o
        <5> QED BY <3>1, <5>1, <5>2, <5>3, <5>4 DEF Frame
      <4>4. line'[k] = "shut"
        BY <3>5 DEF TeardownLocked, Closed, DownTypeOK
      <4> QED BY <1>n, <1>1, <2>1, <4>3, <4>4 DEF StreamStage
    <3> QED BY <2>3, <3>4, <3>5 DEF WriteEnds
  <2> QED BY <2>2, <2>3
<1>2. CASE j # k
  BY <1>0, <1>s, <1>2, StageKept
     DEF WriteEnds, FlushReturns, TeardownLocked, Closed, DownTypeOK
<1> QED BY <1>1, <1>2

(* No step of the downlink takes a stream out of its stage.                  *)
LEMMA StreamStep ==
  ASSUME DownInv, [DownNext]_downVars, NEW j \in Keys
  PROVE  StreamStage(j)'
<1> USE DEF DownInv
<1>0. StreamStage(j)
  BY DEF StreamInv
<1>s. UNCHANGED vars => (Unregistered(j) => Unregistered(j)')
  BY DEF Unregistered, vars, peers
<1>n. NoOne # "handler" /\ NoOne \notin Flushers /\ "handler" \notin Flushers
  BY DownAssumption DEF Flushers
<1>1. ASSUME NEW c \in Clients, Dial(c) PROVE StreamStage(j)'
  <2> DEFINE k == CHOOSE x \in Keys : pc[x] = "none"
  <2>1. k \in Keys /\ pc[k] = "none"
    BY <1>1 DEF Dial, Stamp
  <2>2. pc' = [pc EXCEPT ![k] = "accepted"] /\ UNCHANGED <<vars, line, out, writers>>
    BY <1>1 DEF Dial, Stamp
  <2> HIDE DEF k
  <2> QED BY <1>0, <1>s, <2>1, <2>2 DEF StreamStage, DownTypeOK, writers
<1>2. ASSUME NEW c \in Clients, ReadAssign(c) \/ Keepalive(c) PROVE StreamStage(j)'
  BY <1>0, <1>2, <1>s, StageKept DEF ReadAssign, Keepalive, writers
<1>3. ASSUME NEW c \in Clients, NEW told \in BOOLEAN, NEW forgets \in BOOLEAN, Leave(c, told, forgets)
      PROVE  StreamStage(j)'
  <2>1. line[j] = "shut" => line'[j] = "shut"
    BY <1>3 DEF Leave, DownTypeOK
  <2> QED BY <1>0, <1>3, <1>s, <2>1, StageKept DEF Leave, writers
<1>4. ASSUME NEW k \in Keys, HandleRegister(k) PROVE StreamStage(j)'
  <2>1. Register(Head(up[k]), k) /\ Head(up[k]).id \in Ids \cup {Zero} /\ pc[k] = "accepted"
    BY <1>4, ControlTaken DEF HandleRegister
  <2>2. CASE j = k
    BY <1>0, <1>4, <1>n, <2>1, <2>2 DEF HandleRegister, StreamStage, DownTypeOK, Closed
  <2>3. CASE j # k
    <3>1. Unregistered(j) => Unregistered(j)'
      BY <2>1, <2>3, RegistersOnlyItself
    <3> QED BY <1>0, <1>4, <2>3, <3>1, StageKept, SMTT(20) DEF HandleRegister, DownTypeOK, Closed
  <2> QED BY <2>2, <2>3
<1>5. ASSUME NEW k \in Keys, HandshakeFails(k) PROVE StreamStage(j)'
  <2>1. CASE j = k
    BY <1>0, <1>5, <2>1 DEF HandshakeFails, StreamStage, DownTypeOK, Closed, writers
  <2>2. CASE j # k
    BY <1>0, <1>5, <1>s, <2>2, StageKept DEF HandshakeFails, DownTypeOK, Closed, writers
  <2> QED BY <2>1, <2>2
<1>6. ASSUME NEW k \in Keys, AssignWrite(k) PROVE StreamStage(j)'
  <2>1. CASE j = k
    <3>1. out[k] = <<>> /\ pmu[k] = "handler" /\ pc[k] = "locked"
      BY <1>0, <1>6, <2>1 DEF AssignWrite, StreamStage
    <3>2. Written(out[k], Frame("assign", Assigned(k))) = <<Frame("assign", Assigned(k))>>
      BY <3>1 DEF Written, Frame
    <3>3. pmu'[k] = NoOne /\ UNCHANGED <<vars, wmu>>
      BY <1>6 DEF AssignWrite, DownTypeOK
    <3>4. CASE out' = [out EXCEPT ![k] = Written(@, Frame("assign", Assigned(k)))]
               /\ pc' = [pc EXCEPT ![k] = "steady"] /\ UNCHANGED line
      <4>1. out'[k] = <<Frame("assign", Assigned(k))>> /\ pc'[k] = "steady"
        BY <3>2, <3>4 DEF DownTypeOK
      <4>2. out'[k] # <<>> /\ Len(out'[k]) = 1 /\ out'[k][1].what = "assign"
        BY <4>1 DEF Frame
      <4> QED BY <1>n, <2>1, <3>3, <4>1, <4>2 DEF StreamStage
    <3>5. CASE pc' = [pc EXCEPT ![k] = "over"] /\ line' = Closed(k) /\ UNCHANGED out
      BY <1>n, <2>1, <3>1, <3>3, <3>5 DEF StreamStage, DownTypeOK, Closed
    <3> QED BY <1>6, <3>4, <3>5 DEF AssignWrite
  <2>2. CASE j # k
    BY <1>0, <1>6, <1>s, <2>2, StageKept, SMTT(20) DEF AssignWrite, DownTypeOK, Closed
  <2> QED BY <2>1, <2>2
<1>7. ASSUME NEW k \in Keys, HandleKeepalive(k) PROVE StreamStage(j)'
  <2>1. Register(Head(up[k]), k) /\ Head(up[k]).id \in Ids \cup {Zero} /\ pc[k] = "steady"
    BY <1>7, ControlTaken DEF HandleKeepalive
  <2>2. CASE j = k
    BY <1>0, <1>7, <2>1, <2>2, SMTT(20) DEF HandleKeepalive, StreamStage, writers
  <2>3. CASE j # k
    <3>1. Unregistered(j) => Unregistered(j)'
      BY <2>1, <2>3, RegistersOnlyItself, SMTT(20)
    <3> QED BY <1>0, <1>7, <3>1, StageKept DEF HandleKeepalive, writers
  <2> QED BY <2>2, <2>3
<1>8. ASSUME NEW k \in Keys, ReadFails(k) PROVE StreamStage(j)'
  <2>1. CASE j = k
    BY <1>0, <1>8, <2>1
       DEF ReadFails, HandlerReturns, TeardownLocked, StreamStage, DownTypeOK, Closed, writers
  <2>2. CASE j # k
    BY <1>0, <1>8, <1>s, <2>2, StageKept, SMTT(20)
       DEF ReadFails, HandlerReturns, TeardownLocked, DownTypeOK, Closed, writers
  <2> QED BY <2>1, <2>2
<1>9. ASSUME NEW k \in Keys, TryFlush(k) PROVE StreamStage(j)'
  BY <1>0, <1>9, <1>s DEF TryFlush, StreamStage, DownTypeOK
<1>10. ASSUME NEW r \in Routers, NEW o \in Ids \cup {Zero}, Send(r, o) PROVE StreamStage(j)'
  <2>1. UNCHANGED <<vars, out, line, pc, pmu>>
    BY <1>10, SMTT(20) DEF Send, Buffer
  <2>2. CASE j = SinkFor(o)
    <3>1. ~Unregistered(j)
      BY <2>2, IdAssumption DEF Unregistered, SinkFor
    <3> QED BY <1>0, <2>1, <3>1 DEF StreamStage
  <2>3. CASE j # SinkFor(o)
    BY <1>0, <1>10, <1>s, <2>1, <2>3, StageKept DEF Send, Buffer, DownTypeOK
  <2> QED BY <2>2, <2>3
<1>11. ASSUME NEW f \in Flushers, NEW k \in Keys, FlushViews(f, k) PROVE StreamStage(j)'
  <2>1. CASE j = k
    BY <1>0, <1>11, <1>n, <1>s, <2>1 DEF FlushViews, FlushReturns, StreamStage, DownTypeOK
  <2>2. CASE j # k
    BY <1>0, <1>11, <1>s, <2>2, StageKept DEF FlushViews, FlushReturns, DownTypeOK
  <2> QED BY <2>1, <2>2, SMTT(20)
<1>12. ASSUME NEW f \in Flushers, NEW k \in Keys, WriteEnds(f, k) PROVE StreamStage(j)'
  BY <1>12, WriteEndsStage
<1>13. CASE RegistryTime
  <2>1. Unregistered(j) => Unregistered(j)'
    BY <1>13 DEF RegistryTime, GC, Tick, Forget, Unregistered, IInv, TypeOK
  <2> QED BY <1>0, <1>13, <2>1, StageKept DEF RegistryTime, writers
<1>14. CASE UNCHANGED downVars
  BY <1>0, <1>14, <1>s, StageKept DEF downVars, writers
<1> QED BY <1>1, <1>2, <1>3, <1>4, <1>5, <1>6, <1>7, <1>8, <1>9, <1>10, <1>11, <1>12, <1>13, <1>14
        DEF DownNext, ClientStep, HandlerStep, FlushStep

(* Types, registry and stages hold throughout.                               *)
THEOREM DownInvariant == DownSpec => []DownInv
<1>1. DownInv /\ [DownNext]_downVars => DownInv'
  <2> SUFFICES ASSUME DownInv, [DownNext]_downVars PROVE DownInv'
    OBVIOUS
  <2>1. [Next]_vars
    BY DownStepsRegistry DEF DownInv
  <2>2. IInv' /\ OneMode'
    BY <2>1, NextIInv, OneModeStep DEF DownInv
  <2>3. DownTypeOK'
    BY DownTypeStep DEF DownInv
  <2>4. StreamInv'
    BY StreamStep DEF StreamInv
  <2> QED BY <2>2, <2>3, <2>4 DEF DownInv
<1> QED BY <1>1, DownInitInv, PTL DEF DownSpec

(* Every stream starts with its assignment, and nothing follows a frame cut  *)
(* short, for any number of clients, connections and writers.                *)
THEOREM StreamsWellFormed == DownSpec => []StreamWellFormed
<1>1. DownInv => StreamWellFormed
  <2> SUFFICES ASSUME DownInv, NEW k \in Keys, NEW n \in DOMAIN out[k]
               PROVE  /\ out[k][n].what = "assign" <=> n = 1
                      /\ out[k][n].what = "cut" => n = Len(out[k])
    BY DEF StreamWellFormed
  <2>1. out[k] \in Seq(Frames) /\ StreamStage(k)
    BY DEF DownInv, DownTypeOK, StreamInv
  <2>2. Len(out[k]) \in Nat /\ DOMAIN out[k] = 1..Len(out[k])
    BY <2>1
  <2>3. out[k] # <<>>
    BY <2>2
  <2>4. n = 1 \/ (n = 2 /\ Len(out[k]) = 2)
    <3>1. Len(out[k]) = 1 \/ Len(out[k]) = 2
      BY <2>1, <2>3 DEF StreamStage
    <3>2. n \in 1..Len(out[k])
      BY <2>2
    <3> QED BY <3>1, <3>2
  <2> QED BY <2>1, <2>3, <2>4, Zenon DEF StreamStage
<1> QED BY <1>1, DownInvariant, PTL

(* The registry under the tcp streams keeps its promise: an owner moves only *)
(* to a fresher stream, and the cap holds.                                   *)
THEOREM TcpKeepsReturnPath == DownSpec => KeepsReturnPath
<1>1. DownInit => Return!Init
  BY DEF DownInit, Init, Return!Init, Return!Off, Attachments
<1>2. DownInv /\ [DownNext]_downVars => [Return!Next]_Attachments
  BY DownStepsRegistry, StepKeepsPaths DEF DownInv
<1> QED BY <1>1, <1>2, DownInvariant, PTL DEF DownSpec, KeepsReturnPath, Return!Spec

=============================================================================
