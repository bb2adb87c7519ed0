----------------------------- MODULE PktBufProofs -----------------------------
(***************************************************************************)
(* The package pktbuf, for every size.                                     *)
(*                                                                         *)
(* Writer: the buffer bounds and the lock discipline, for any number of    *)
(* writers and producers and any capacities.                               *)
(*                                                                         *)
(* Reader: the two batches never have two owners, for every call site,     *)
(* batch size and packet count: BatchOwnership is inductive once it says   *)
(* what prefetch holds in each of its states (HandoffInv).  On that rests  *)
(* the order of the packets, which InOrder follows from place to place.    *)
(***************************************************************************)
EXTENDS PktReader, PktWriter, TLAPS

WriterInv == WriterTypeOK /\ InBounds /\ BufferStable /\ FullBatchGone

(* Writers start unlocked and empty.                                         *)
LEMMA InitWriterInv == WriterInit => WriterInv
BY CapAssumption DEF WriterInit, WriterInv, WriterTypeOK, InBounds, BufferStable, FullBatchGone, Holders

(* A step that only moves the flush group's own state keeps the buffers.     *)
LEMMA GroupStep ==
  ASSUME WriterInv, UNCHANGED <<st, by, want, bufs>>,
         members' \subseteq Writers, todo' \subseteq Writers,
         phase' \in [Writers -> {"open", "removed", "flushing", "closed"}]
  PROVE  WriterInv'
BY DEF WriterInv, WriterTypeOK, InBounds, BufferStable, FullBatchGone, Holders, bufs

(* Entering the callback with the mutex taken freezes the whole batch.       *)
LEMMA FlushStep ==
  ASSUME WriterInv, NEW w \in Writers, NEW h \in Holders \ {Nobody}, FlushLocked(w, h), by[w] = Nobody,
         NEW n \in 0..ArenaCap, n > 0 => h \in Producers,
         want' = [want EXCEPT ![w] = n],
         members' \subseteq Writers, todo' \subseteq Writers,
         phase' \in [Writers -> {"open", "removed", "flushing", "closed"}]
  PROVE  WriterInv'
<1>1. WriterTypeOK'
  BY Zenon DEF WriterInv, WriterTypeOK, FlushLocked
<1>2. InBounds' /\ FullBatchGone'
  BY DEF WriterInv, WriterTypeOK, InBounds, FullBatchGone, FlushLocked
<1>3. BufferStable'
  BY NameAssumption DEF WriterInv, WriterTypeOK, BufferStable, FlushLocked, Holders
<1> QED BY <1>1, <1>2, <1>3 DEF WriterInv

(* Every step of producers, tick and owners keeps the invariant.             *)
LEMMA NextWriterInv == WriterInv /\ [WriterNext]_writerVars => WriterInv'
<1> SUFFICES ASSUME WriterInv, [WriterNext]_writerVars PROVE WriterInv'
  OBVIOUS
<1>0. ArenaCap \in Nat /\ MaxPackets \in Nat /\ \A n \in Sizes : n \in 1..ArenaCap
  BY CapAssumption
<1>n. \A w \in Writers : by[w] = Nobody => want[w] = 0
  BY NameAssumption DEF WriterInv, BufferStable, WriterTypeOK
<1>1. ASSUME NEW p \in Producers, NEW w \in Writers, NEW n \in Sizes, Reserve(p, w, n)
      PROVE  WriterInv'
  <2>h. p \in Holders \ {Nobody}
    BY NameAssumption DEF Holders
  <2>g. /\ members' \subseteq Writers /\ todo' \subseteq Writers
        /\ phase' \in [Writers -> {"open", "removed", "flushing", "closed"}]
    BY <1>1 DEF Reserve, group, WriterInv, WriterTypeOK
  <2>1. CASE FlushLocked(w, p)
    <3>1. n \in 0..ArenaCap /\ (n > 0 => p \in Producers)
      BY <1>0
    <3>2. want' = [want EXCEPT ![w] = n] /\ by[w] = Nobody
      BY <1>1 DEF Reserve
    <3> QED BY <2>1, <2>h, <2>g, <3>1, <3>2, FlushStep, Zenon
  <2>2. CASE ~FlushLocked(w, p)
    <3>0. /\ st' = [st EXCEPT ![w] = "build"] /\ by' = [by EXCEPT ![w] = p]
          /\ slot' = [slot EXCEPT ![w] = used[w]] /\ want' = [want EXCEPT ![w] = n]
          /\ used' = used /\ nv' = nv /\ batch' = batch
          /\ (nv[w] # MaxPackets /\ ~(used[w] + n > ArenaCap)) \/ nv[w] = 0
      BY <1>1, <2>2 DEF Reserve
    <3>1. WriterTypeOK'
      <4>1. n \in 0..ArenaCap BY <1>0
      <4> QED BY <4>1, <3>0, <2>h, <2>g, Zenon DEF WriterInv, WriterTypeOK
    <3>2. used[w] + n <= ArenaCap /\ nv[w] < MaxPackets
      BY <3>0, <1>0, CapAssumption DEF WriterInv, WriterTypeOK, InBounds
    <3>3. InBounds' /\ FullBatchGone'
      BY <3>0, <3>2 DEF WriterInv, WriterTypeOK, InBounds, FullBatchGone
    <3>4. BufferStable'
      BY <3>0, <2>h DEF WriterInv, WriterTypeOK, BufferStable
    <3> QED BY <3>1, <3>3, <3>4 DEF WriterInv
  <2> QED BY <2>1, <2>2
<1>2. ASSUME NEW p \in Producers, NEW w \in Writers, NEW n \in Sizes, Commit(p, w, n)
      PROVE  WriterInv'
  <2>1. used[w] + n \in 0..ArenaCap /\ nv[w] + 1 \in 0..MaxPackets /\ n > 0
    BY <1>0, <1>2, CapAssumption DEF WriterInv, WriterTypeOK, InBounds, Commit
  <2>2. WriterTypeOK'
    <3>0. 0 \in 0..ArenaCap
      BY <1>0
    <3>1. used' \in [Writers -> 0..ArenaCap] /\ nv' \in [Writers -> 0..MaxPackets]
      BY <1>2, <2>1 DEF WriterInv, WriterTypeOK, Commit
    <3>2. want' \in [Writers -> 0..ArenaCap] /\ slot' \in [Writers -> 0..ArenaCap]
      BY <1>2, <3>0 DEF WriterInv, WriterTypeOK, Commit
    <3>3. batch' \in [Writers -> 0..MaxPackets]
      BY <1>2, <3>1 DEF WriterInv, WriterTypeOK, Commit
    <3>4. st' \in [Writers -> {"free", "build", "flush"}] /\ by' \in [Writers -> Holders]
      BY <1>2 DEF WriterInv, WriterTypeOK, Commit, Holders
    <3> QED BY <1>2, <3>1, <3>2, <3>3, <3>4 DEF WriterInv, WriterTypeOK, Commit, group
  <2>3. InBounds' /\ FullBatchGone'
    BY <1>2, <2>1, <2>2, CapAssumption DEF WriterInv, WriterTypeOK, InBounds, FullBatchGone, Commit
  <2>4. BufferStable'
    BY <1>2, <2>1, <2>2, NameAssumption DEF WriterInv, WriterTypeOK, BufferStable, Commit
  <2> QED BY <2>2, <2>3, <2>4 DEF WriterInv
<1>3. ASSUME NEW w \in Writers, FlushReturns(w) PROVE WriterInv'
  <2>1. WriterTypeOK'
    BY <1>3, CapAssumption DEF WriterInv, WriterTypeOK, FlushReturns, Holders
  <2>2. InBounds' /\ FullBatchGone'
    BY <1>3, <1>0, CapAssumption DEF WriterInv, WriterTypeOK, InBounds, FullBatchGone, FlushReturns
  <2>3. BufferStable'
    BY <1>3, NameAssumption DEF WriterInv, WriterTypeOK, BufferStable, FlushReturns
  <2> QED BY <2>1, <2>2, <2>3 DEF WriterInv
<1>4. ASSUME NEW w \in Writers, Add(w) \/ Remove(w) PROVE WriterInv'
  BY <1>4, GroupStep DEF Add, Remove, WriterInv, WriterTypeOK
<1>5. ASSUME NEW w \in Writers, Close(w) PROVE WriterInv'
  <2>g. /\ members' \subseteq Writers /\ todo' \subseteq Writers
        /\ phase' \in [Writers -> {"open", "removed", "flushing", "closed"}]
    BY <1>5 DEF Close, WriterInv, WriterTypeOK
  <2>1. CASE FlushLocked(w, Closer)
    <3>1. want' = [want EXCEPT ![w] = 0]
      BY <1>5, <1>n DEF Close, WriterInv, WriterTypeOK
    <3>2. Closer \in Holders \ {Nobody}
      BY NameAssumption DEF Holders
    <3>3. 0 \in 0..ArenaCap /\ (0 > 0 => Closer \in Producers) BY <1>0
    <3> QED BY <3>3, <1>5, <2>1, <2>g, <3>1, <3>2, FlushStep, Zenon DEF Close
  <2>2. CASE ~FlushLocked(w, Closer)
    BY <1>5, <2>2, <2>g, GroupStep DEF Close
  <2> QED BY <2>1, <2>2
<1>6. ASSUME NEW w \in Writers, TryFlush(w) PROVE WriterInv'
  <2>g. /\ members' \subseteq Writers /\ todo' \subseteq Writers
        /\ phase' \in [Writers -> {"open", "removed", "flushing", "closed"}]
    BY <1>6 DEF TryFlush, WriterInv, WriterTypeOK
  <2>1. CASE by[w] = Nobody /\ FlushLocked(w, Ticker)
    <3>1. want' = [want EXCEPT ![w] = 0]
      BY <1>6, <2>1, <1>n DEF TryFlush, WriterInv, WriterTypeOK
    <3>2. Ticker \in Holders \ {Nobody}
      BY NameAssumption DEF Holders
    <3>3. 0 \in 0..ArenaCap /\ (0 > 0 => Ticker \in Producers) BY <1>0
    <3> QED BY <3>3, <2>1, <2>g, <3>1, <3>2, FlushStep, Zenon
  <2>2. CASE ~(by[w] = Nobody /\ FlushLocked(w, Ticker))
    BY <1>6, <2>2, <2>g, GroupStep DEF TryFlush
  <2> QED BY <2>1, <2>2
<1>7. CASE TickSnapshot
  BY <1>7, GroupStep DEF TickSnapshot, WriterInv, WriterTypeOK
<1>8. CASE UNCHANGED writerVars
  BY <1>8, GroupStep DEF writerVars, group, WriterInv, WriterTypeOK
<1> QED BY <1>1, <1>2, <1>3, <1>4, <1>5, <1>6, <1>7, <1>8 DEF WriterNext

(* The three invariants hold together from start to end; each needs the      *)
(* others, so they are proved as one.                                        *)
THEOREM WriterInvariant == WriterSpec => []WriterInv
BY InitWriterInv, NextWriterInv, PTL DEF WriterSpec

(* Reserve's slice always fits the arena and Commit's append the views.      *)
THEOREM ReserveInBounds == WriterSpec => []InBounds
<1>1. WriterInv => InBounds BY DEF WriterInv
<1> QED BY <1>1, WriterInvariant, PTL

(* No flush moves a buffer under a producer, and no packet joins a batch     *)
(* that is being written.                                                    *)
THEOREM LockHeldThroughout == WriterSpec => []BufferStable
<1>1. WriterInv => BufferStable BY DEF WriterInv
<1> QED BY <1>1, WriterInvariant, PTL

(* An unlocked writer has room for a packet.                                 *)
THEOREM FullBatchesLeave == WriterSpec => []FullBatchGone
<1>1. WriterInv => FullBatchGone BY DEF WriterInv
<1> QED BY <1>1, WriterInvariant, PTL

----------------------------------------------------------------------------
(* Appending to a queue adds exactly the appended batch.                     *)
LEMMA ElementsAppend ==
  ASSUME NEW S, NEW s \in Seq(S), NEW x \in S
  PROVE  /\ Append(s, x) \in Seq(S)
         /\ Elements(Append(s, x)) = Elements(s) \cup {x}
         /\ NoRepeats(s) /\ x \notin Elements(s) => NoRepeats(Append(s, x))
<1> DEFINE t == Append(s, x)
<1>1. /\ t \in Seq(S) /\ Len(t) = Len(s) + 1 /\ DOMAIN t = 1..(Len(s) + 1)
      /\ DOMAIN s = 1..Len(s) /\ Len(s) \in Nat
  OBVIOUS
<1>2. /\ \A i \in DOMAIN s : t[i] = s[i]
      /\ t[Len(s) + 1] = x
  OBVIOUS
<1>3. \A i \in DOMAIN t : i \in DOMAIN s \/ i = Len(s) + 1
  BY <1>1
<1> HIDE DEF t
<1>4. Elements(t) = Elements(s) \cup {x}
  <2>1. ASSUME NEW y \in Elements(t) PROVE y \in Elements(s) \cup {x}
    BY <1>2, <1>3 DEF Elements
  <2>2. ASSUME NEW y \in Elements(s) \cup {x} PROVE y \in Elements(t)
    BY <1>1, <1>2 DEF Elements
  <2> QED BY <2>1, <2>2
<1>5. ASSUME NoRepeats(s), x \notin Elements(s) PROVE NoRepeats(t)
  BY <1>1, <1>2, <1>3, <1>5 DEF NoRepeats, Elements
<1> QED BY <1>1, <1>4, <1>5 DEF t

(* Receiving from a queue without repeats removes exactly its head.          *)
LEMMA ElementsTail ==
  ASSUME NEW S, NEW s \in Seq(S), s # <<>>, NoRepeats(s)
  PROVE  /\ Head(s) \in S /\ Tail(s) \in Seq(S) /\ Len(Tail(s)) = Len(s) - 1
         /\ Elements(s) = Elements(Tail(s)) \cup {Head(s)}
         /\ Head(s) \notin Elements(Tail(s))
         /\ NoRepeats(Tail(s))
<1> DEFINE t == Tail(s)
<1>1. /\ t \in Seq(S) /\ Len(t) = Len(s) - 1 /\ DOMAIN t = 1..(Len(s) - 1)
      /\ DOMAIN s = 1..Len(s) /\ Len(s) \in Nat \ {0}
      /\ Head(s) = s[1] /\ Head(s) \in S
  OBVIOUS
<1>2. \A i \in DOMAIN t : t[i] = s[i + 1] /\ i + 1 \in DOMAIN s /\ i + 1 # 1
  BY <1>1
<1>3. \A i \in DOMAIN s : i = 1 \/ (i - 1 \in DOMAIN t /\ s[i] = t[i - 1])
  BY <1>1
<1>4. 1 \in DOMAIN s
  BY <1>1
<1> HIDE DEF t
<1>5. Elements(s) = Elements(t) \cup {s[1]}
  <2>1. ASSUME NEW y \in Elements(s) PROVE y \in Elements(t) \cup {s[1]}
    BY <1>3 DEF Elements
  <2>2. ASSUME NEW y \in Elements(t) \cup {s[1]} PROVE y \in Elements(s)
    BY <1>2, <1>4 DEF Elements
  <2> QED BY <2>1, <2>2
<1>6. s[1] \notin Elements(t)
  BY <1>2, <1>4 DEF Elements, NoRepeats
<1>7. NoRepeats(t)
  BY <1>1, <1>2 DEF NoRepeats
<1> QED BY <1>1, <1>5, <1>6, <1>7 DEF t

(* What is queued was put there: only batches are in a queue of batches.     *)
LEMMA ElementsIn ==
  ASSUME NEW S, NEW s \in Seq(S)
  PROVE  Elements(s) \subseteq S
BY DEF Elements

(* A fill's packets form a sequence of numbers.                              *)
LEMMA FillIsSeq ==
  ASSUME NEW n \in Nat, NEW p \in Nat
  PROVE  [i \in 1..n |-> p + i] \in Seq(Nat)
<1>1. [i \in 1..n |-> p + i] \in [1..n -> Nat]
  OBVIOUS
<1> QED BY <1>1

(* An update within the range keeps the type of a function.                  *)
LEMMA UpdateTyped ==
  ASSUME NEW A, NEW S, NEW f \in [A -> S], NEW a, NEW x \in S
  PROVE  [f EXCEPT ![a] = x] \in [A -> S]
BY Zenon

IInv == TypeOK /\ HandoffInv

(* Both batches start out spent, and belong to nobody else.                  *)
LEMMA InitIInv == Init => IInv
<1> SUFFICES ASSUME Init PROVE IInv
  OBVIOUS
<1> USE BatchAssumption DEF Init
<1>1. ready \in Seq(Batches) /\ got \in Seq(Nat) /\ views \in [Batches -> Seq(Nat)]
  OBVIOUS
<1>2. spent \in Seq(Batches) /\ Elements(spent) = {Spare} /\ NoRepeats(spent)
  BY DEF Batches, Elements, NoRepeats
<1>3. Elements(ready) = {} /\ NoRepeats(ready) /\ Len(ready) = 0
  BY DEF Elements, NoRepeats
<1>4. TypeOK
  BY <1>1, <1>2, Zenon DEF TypeOK, Batches
<1>5. HandoffInv
  BY <1>2, <1>3 DEF HandoffInv, BatchOwnership, Batches, ReadyCap
<1> QED BY <1>4, <1>5 DEF IInv

(* Steps that move no batch: they keep what HandoffInv talks about.          *)
LEMMA SameBatches ==
  ASSUME IInv, TypeOK', UNCHANGED <<ready, spent, pfB, cur>>,
         cons' # "recv" \/ cons' = cons \/ cur = NoBatch,
         pf' = pf \/ pf' = "done" \/ (pf' \in {"fill", "offer"} /\ pfB \in Batches)
  PROVE  IInv'
BY DEF IInv, HandoffInv, BatchOwnership

(* Every step of the consumer, the prefetcher and the environment keeps it.  *)
LEMMA NextIInv == IInv /\ [Next]_vars => IInv'
<1> SUFFICES ASSUME IInv, [Next]_vars PROVE IInv'
  OBVIOUS
<1> USE BatchAssumption, UsesAssumption, BoundAssumption
<1> USE DEF env, chans, consumer
<1>t. TypeOK /\ HandoffInv
  BY DEF IInv
<1>1. CASE Start
  BY <1>1, <1>t, SameBatches DEF Start, TypeOK, HandoffInv
<1>2. CASE FillOK
  <2>1. PICK n \in 1..MaxViews :
          /\ views' = [views EXCEPT ![pfB] = [i \in 1..n |-> produced + i]]
          /\ produced' = produced + n
    BY <1>2 DEF FillOK
  <2>a. produced \in Nat /\ n \in Nat /\ views \in [Batches -> Seq(Nat)]
    BY <1>t DEF TypeOK
  <2> DEFINE fresh == [i \in 1..n |-> produced + i]
  <2>b. fresh \in Seq(Nat)
    BY <2>a, FillIsSeq
  <2>c. views' = [views EXCEPT ![pfB] = fresh] /\ produced' = produced + n
    BY <2>1
  <2> HIDE DEF fresh
  <2>d. views' \in [Batches -> Seq(Nat)]
    BY <2>a, <2>b, <2>c, UpdateTyped
  <2>e. produced' \in Nat
    BY <2>a, <2>c
  <2>3. TypeOK'
    BY SMTT(30), <1>2, <1>t, <2>d, <2>e DEF FillOK, TypeOK
  <2> QED BY <1>2, <1>t, <2>3, SameBatches DEF FillOK, HandoffInv
<1>3. CASE FillErr
  BY <1>3, <1>t, SameBatches DEF FillErr, Exit, TypeOK
<1>4. CASE Offer
  <2>1. pfB \in Batches /\ pfB \notin Elements(ready) /\ NoRepeats(ready) /\ ready \in Seq(Batches)
    BY <1>4, <1>t DEF Offer, HandoffInv, BatchOwnership, TypeOK
  <2>2. /\ ready' \in Seq(Batches) /\ NoRepeats(ready')
        /\ Elements(ready') = Elements(ready) \cup {pfB}
    BY <1>4, <2>1, ElementsAppend DEF Offer
  <2>3. TypeOK'
    BY SMTT(30), <1>4, <1>t, <2>2 DEF Offer, TypeOK
  <2>4. Len(ready') <= ReadyCap
    BY <1>4, <1>t, <2>1 DEF Offer, ReadyCap
  <2>5. BatchOwnership'
    BY <1>4, <1>t, <2>1, <2>2, ElementsIn DEF Offer, HandoffInv, BatchOwnership, TypeOK
  <2> QED BY <1>4, <2>3, <2>4, <2>5 DEF IInv, HandoffInv, Offer
<1>5. CASE Take
  <2>1. spent \in Seq(Batches) /\ spent # <<>> /\ NoRepeats(spent) /\ pfB = NoBatch
    BY <1>5, <1>t DEF Take, HandoffInv, BatchOwnership, TypeOK
  <2>2. /\ Head(spent) \in Batches /\ spent' \in Seq(Batches)
        /\ Elements(spent) = Elements(spent') \cup {Head(spent)}
        /\ Head(spent) \notin Elements(spent') /\ NoRepeats(spent')
    BY <1>5, <2>1, ElementsTail DEF Take
  <2>3. views' \in [Batches -> Seq(Nat)]
    BY <1>5, <1>t, <2>2 DEF Take, TypeOK
  <2>4. TypeOK'
    BY SMTT(30), <1>5, <1>t, <2>2, <2>3 DEF Take, TypeOK
  <2>5. BatchOwnership'
    BY <1>5, <1>t, <2>1, <2>2 DEF Take, HandoffInv, BatchOwnership, TypeOK
  <2> QED BY <1>5, <1>t, <2>2, <2>4, <2>5 DEF IInv, HandoffInv, Take
<1>6. CASE SeeQuit
  BY <1>6, <1>t, SameBatches DEF SeeQuit, Exit, TypeOK
<1>7. CASE NextView
  <2>1. got' \in Seq(Nat)
    BY <1>7, <1>t DEF NextView, TypeOK
  <2>2. TypeOK'
    BY SMTT(30), <1>7, <1>t, <2>1 DEF NextView, TypeOK
  <2> QED BY <1>7, <2>2, SameBatches DEF NextView
<1>8. CASE NextRetire
  <2>1. CASE cur = NoBatch
    <3>1. TypeOK'
      BY <1>8, <1>t, <2>1 DEF NextRetire, TypeOK
    <3> QED BY <1>8, <2>1, <3>1, SameBatches DEF NextRetire
  <2>2. CASE cur # NoBatch
    <3>1. cur \in Batches /\ cur \notin Elements(spent) /\ NoRepeats(spent) /\ spent \in Seq(Batches)
      BY <1>8, <1>t, <2>2 DEF HandoffInv, BatchOwnership, TypeOK
    <3>2. /\ spent' \in Seq(Batches) /\ NoRepeats(spent')
          /\ Elements(spent') = Elements(spent) \cup {cur}
      <4>1. spent' = Append(spent, cur)
        BY <1>8, <2>2 DEF NextRetire
      <4> QED BY <4>1, <3>1, ElementsAppend
    <3>3. TypeOK'
      BY <1>8, <1>t, <3>2 DEF NextRetire, TypeOK
    <3>4. BatchOwnership'
      BY <1>8, <1>t, <3>1, <3>2, ElementsIn DEF NextRetire, HandoffInv, BatchOwnership, TypeOK
    <3> QED BY <1>8, <1>t, <3>3, <3>4 DEF IInv, HandoffInv, NextRetire
  <2> QED BY <2>1, <2>2
<1>9. CASE NextReceive
  <2>1. ready \in Seq(Batches) /\ ready # <<>> /\ NoRepeats(ready)
    BY <1>9, <1>t DEF NextReceive, HandoffInv, BatchOwnership, TypeOK
  <2>2. /\ Head(ready) \in Batches /\ ready' \in Seq(Batches) /\ Len(ready') = Len(ready) - 1
        /\ Elements(ready) = Elements(ready') \cup {Head(ready)}
        /\ Head(ready) \notin Elements(ready') /\ NoRepeats(ready')
    BY <1>9, <2>1, ElementsTail DEF NextReceive
  <2>3. TypeOK'
    BY SMTT(30), <1>9, <1>t, <2>2 DEF NextReceive, TypeOK
  <2>4. BatchOwnership'
    BY <1>9, <1>t, <2>1, <2>2, ElementsIn DEF NextReceive, HandoffInv, BatchOwnership, TypeOK
  <2>5. Len(ready') <= ReadyCap
    BY <1>t, <2>1, <2>2 DEF HandoffInv, ReadyCap
  <2> QED BY <1>9, <1>t, <2>3, <2>4, <2>5 DEF IInv, HandoffInv, NextReceive
<1>10. CASE NextEnd
  <2>1. TypeOK'
    BY SMTT(30), <1>10, <1>t DEF NextEnd, TypeOK
  <2> QED BY <1>10, <2>1, SameBatches DEF NextEnd
<1>11. CASE Leave
  <2>1. TypeOK'
    BY ZenonT(60), <1>11, <1>t DEF Leave, TypeOK
  <2> QED BY <1>11, <2>1, SameBatches DEF Leave
<1>12. CASE LeaveClosed
  <2>1. TypeOK'
    BY SMTT(30), <1>12, <1>t DEF LeaveClosed, TypeOK
  <2> QED BY <1>12, <2>1, SameBatches DEF LeaveClosed
<1>13. CASE CloseQuit
  <2>1. TypeOK'
    BY SMTT(30), <1>13, <1>t DEF CloseQuit, TypeOK
  <2> QED BY <1>13, <2>1, SameBatches DEF CloseQuit
<1>14. CASE CloseSource
  <2>1. TypeOK'
    BY SMTT(30), <1>14, <1>t DEF CloseSource, TypeOK
  <2> QED BY <1>14, <2>1, SameBatches DEF CloseSource
<1>15. CASE Cancel
  <2>1. TypeOK'
    BY SMTT(30), <1>15, <1>t DEF Cancel, TypeOK
  <2> QED BY <1>15, <2>1, SameBatches DEF Cancel
<1>16. CASE SourceEnds
  <2>1. TypeOK'
    BY ZenonT(60), <1>16, <1>t DEF SourceEnds, TypeOK
  <2> QED BY <1>16, <2>1, SameBatches DEF SourceEnds
<1>17. CASE Terminated \/ UNCHANGED vars
  <2>1. UNCHANGED vars
    BY <1>17 DEF Terminated
  <2> QED BY <1>t, <2>1, SameBatches DEF vars, TypeOK
<1> QED BY <1>1, <1>2, <1>3, <1>4, <1>5, <1>6, <1>7, <1>8, <1>9, <1>10, <1>11,
           <1>12, <1>13, <1>14, <1>15, <1>16, <1>17
        DEF Next, Prefetch, Consume, CloseStep

(* Type correctness and the handoff, for any call site and any bounds.       *)
THEOREM ReaderInvariant == Spec => []IInv
BY InitIInv, NextIInv, PTL DEF Spec

(* Each batch has exactly one owner at every moment (batch.go:5-7).          *)
THEOREM OneOwner == Spec => []BatchOwnership
<1>1. IInv => BatchOwnership
  BY DEF IInv, HandoffInv
<1> QED BY <1>1, ReaderInvariant, PTL

(* Two batches cannot fill spent while the consumer holds one of them.       *)
LEMMA RoomInSpent == IInv => SpentNeverBlocks
<1> SUFFICES ASSUME IInv, cur # NoBatch, Len(spent) >= SpentCap PROVE FALSE
  BY DEF SpentNeverBlocks, IInv, TypeOK, SpentCap
<1>1. /\ spent \in Seq(Batches) /\ cur \in Batches /\ NoRepeats(spent)
      /\ \A b \in Elements(spent) : b # cur
  BY DEF IInv, TypeOK, HandoffInv, BatchOwnership
<1>2. 1 \in DOMAIN spent /\ 2 \in DOMAIN spent
  BY <1>1 DEF SpentCap
<1>3. spent[1] \in Batches /\ spent[2] \in Batches
  BY <1>1, <1>2
<1>4. spent[1] # spent[2] /\ spent[1] # cur /\ spent[2] # cur
  BY <1>1, <1>2 DEF NoRepeats, Elements
<1> QED BY <1>1, <1>3, <1>4 DEF Batches

(* The send back to spent in Next never blocks (reader.go:103).              *)
THEOREM SpentHasRoom == Spec => []SpentNeverBlocks
BY RoomInSpent, ReaderInvariant, PTL

(* No fill rewrites the batch whose views the consumer is using.             *)
THEOREM ViewsNotOverwritten == Spec => ViewStable
<1> DEFINE Stable == cur # NoBatch /\ cur' = cur => views'[cur] = views[cur]
<1>1. IInv /\ [Next]_vars => [Stable]_vars
  <2> SUFFICES ASSUME IInv, Next, cur # NoBatch, cur' = cur PROVE views'[cur] = views[cur]
    OBVIOUS
  <2> USE DEF env, chans, consumer
  <2>1. /\ cur \in Batches /\ cur # pfB /\ cur \notin Elements(spent)
        /\ views \in [Batches -> Seq(Nat)] /\ spent \in Seq(Batches)
    BY DEF IInv, TypeOK, HandoffInv, BatchOwnership
  <2>2. CASE FillOK
    BY <2>1, <2>2 DEF FillOK
  <2>3. CASE Take
    <3>1. Head(spent) \in Elements(spent)
      BY <2>1, <2>3 DEF Take, Elements
    <3> QED BY <2>1, <2>3, <3>1 DEF Take
  <2>4. CASE ~FillOK /\ ~Take
    BY <2>4 DEF Next, Prefetch, Consume, CloseStep, Start, FillErr, Exit, Offer, SeeQuit,
                NextView, NextRetire, NextReceive, NextEnd, Leave, LeaveClosed,
                CloseQuit, CloseSource, Cancel, SourceEnds, Terminated, vars
  <2> QED BY <2>2, <2>3, <2>4
<1> QED BY <1>1, ReaderInvariant, PTL DEF Spec, ViewStable

----------------------------------------------------------------------------
(* The order of the packets.  A run of consecutive packets after the n-th.   *)
Counts(s, n) == \A i \in 1..Len(s) : s[i] = n + i

(* How many packets wait with the consumer, in ready and with prefetch.      *)
Left    == IF cur = NoBatch THEN 0 ELSE Len(views[cur]) - idx
Queued  == IF ready = <<>> THEN 0 ELSE Len(views[Head(ready)])
Offered == IF pf = "offer" THEN Len(views[pfB]) ELSE 0

(* StreamIntact place by place: what each place holds follows, number by     *)
(* number, on what the places before it hold, and together they hold what    *)
(* was produced, unless a Close made prefetch drop its batch.                *)
InOrder ==
  /\ Counts(got, 0)
  /\ cur # NoBatch => idx <= Len(views[cur]) /\ Counts(views[cur], Len(got) - idx)
  /\ ready # <<>> => Counts(views[Head(ready)], Len(got) + Left)
  /\ pf = "offer" => Counts(views[pfB], Len(got) + Left + Queued)
  /\ \/ Len(got) + Left + Queued + Offered = produced
     \/ quit /\ pf = "done" /\ pfB # NoBatch

(* A fill numbers its packets on from the last one produced.                 *)
LEMMA FillCounts ==
  ASSUME NEW n \in Nat, NEW p \in Nat
  PROVE  Len([i \in 1..n |-> p + i]) = n /\ Counts([i \in 1..n |-> p + i], p)
BY DEF Counts

(* The packet after a run of n extends it.                                   *)
LEMMA AppendCounts ==
  ASSUME NEW s \in Seq(Nat), Counts(s, 0)
  PROVE  /\ Len(Append(s, Len(s) + 1)) = Len(s) + 1
         /\ Counts(Append(s, Len(s) + 1), 0)
<1> DEFINE t == Append(s, Len(s) + 1)
<1>1. Len(t) = Len(s) + 1 /\ Len(s) \in Nat
  OBVIOUS
<1>2. \A i \in 1..Len(s) : t[i] = s[i]
  OBVIOUS
<1>3. t[Len(s) + 1] = Len(s) + 1
  OBVIOUS
<1> HIDE DEF t
<1>4. Counts(t, 0)
  BY <1>1, <1>2, <1>3 DEF Counts
<1> QED BY <1>1, <1>4 DEF t

(* Two runs, one where the other ends, are one run.                          *)
LEMMA ConcatCounts ==
  ASSUME NEW s \in Seq(Nat), NEW t \in Seq(Nat), NEW n \in Nat,
         Counts(s, n), Counts(t, n + Len(s))
  PROVE  s \o t \in Seq(Nat) /\ Len(s \o t) = Len(s) + Len(t) /\ Counts(s \o t, n)
<1> DEFINE u == s \o t
<1>1. u \in Seq(Nat) /\ Len(u) = Len(s) + Len(t) /\ Len(s) \in Nat /\ Len(t) \in Nat
  OBVIOUS
<1>2. \A i \in 1..Len(s) : u[i] = s[i]
  OBVIOUS
<1>3. \A i \in 1..Len(t) : u[Len(s) + i] = t[i]
  OBVIOUS
<1> HIDE DEF u
<1>4. ASSUME NEW i \in 1..Len(u) PROVE u[i] = n + i
  <2>1. CASE i <= Len(s)
    BY <1>1, <1>2, <2>1 DEF Counts
  <2>2. CASE i > Len(s)
    <3>1. i - Len(s) \in 1..Len(t) /\ Len(s) + (i - Len(s)) = i
      BY <1>1, <2>2
    <3>2. u[i] = t[i - Len(s)]
      BY <1>3, <3>1
    <3>3. t[i - Len(s)] = (n + Len(s)) + (i - Len(s))
      BY <3>1 DEF Counts
    <3> QED BY <1>1, <3>2, <3>3
  <2> QED BY <1>1, <2>1, <2>2
<1> QED BY <1>1, <1>4 DEF u, Counts

(* The rest of a run is a run.                                               *)
LEMMA RestCounts ==
  ASSUME NEW s \in Seq(Nat), NEW k \in Nat, k <= Len(s), NEW n \in Nat, Counts(s, n - k)
  PROVE  /\ SubSeq(s, k + 1, Len(s)) \in Seq(Nat)
         /\ Len(SubSeq(s, k + 1, Len(s))) = Len(s) - k
         /\ Counts(SubSeq(s, k + 1, Len(s)), n)
<1> DEFINE u == SubSeq(s, k + 1, Len(s))
<1>1. u \in Seq(Nat) /\ Len(u) = Len(s) - k /\ Len(s) \in Nat
  OBVIOUS
<1>2. \A i \in 1..Len(u) : u[i] = s[k + i] /\ k + i \in 1..Len(s)
  BY <1>1
<1> HIDE DEF u
<1>3. Counts(u, n)
  BY <1>1, <1>2 DEF Counts
<1> QED BY <1>1, <1>3 DEF u

(* Nothing has been produced or read at first.                               *)
LEMMA InitInOrder == Init => InOrder
BY DEF Init, InOrder, Counts, Left, Queued, Offered

(* Steps that move no packet.                                                *)
LEMMA SamePackets ==
  ASSUME InOrder, UNCHANGED <<produced, ready, pfB, views, cur, idx, got>>, quit => quit',
         pf' = pf \/ (pf \notin {"offer", "done"} /\ pf' # "offer")
  PROVE  InOrder'
BY DEF InOrder, Counts, Left, Queued, Offered

(* Every step keeps what each place holds in order.                          *)
LEMMA NextInOrder == IInv /\ InOrder /\ [Next]_vars => InOrder'
<1> SUFFICES ASSUME IInv, InOrder, [Next]_vars PROVE InOrder'
  OBVIOUS
<1> USE BatchAssumption DEF env, chans, consumer
<1>t. TypeOK /\ HandoffInv
  BY DEF IInv
<1>l. /\ Len(got) \in Nat /\ produced \in Nat /\ idx \in Nat
      /\ \A b \in Batches : views[b] \in Seq(Nat) /\ Len(views[b]) \in Nat
      /\ ready # <<>> => Head(ready) \in Batches /\ Head(ready) \in Elements(ready)
  BY <1>t DEF TypeOK, Elements
<1>m. Left \in Int /\ Queued \in Nat /\ Offered \in Nat
  BY <1>l, <1>t DEF Left, Queued, Offered, TypeOK, HandoffInv
<1>1. CASE Start
  BY <1>1, SamePackets DEF Start
<1>2. CASE FillOK
  <2>1. PICK n \in 1..MaxViews :
          /\ views' = [views EXCEPT ![pfB] = [i \in 1..n |-> produced + i]]
          /\ produced' = produced + n
    BY <1>2 DEF FillOK
  <2>n. n \in Nat
    BY BoundAssumption
  <2> DEFINE fresh == [i \in 1..n |-> produced + i]
  <2>2. Len(fresh) = n /\ Counts(fresh, produced)
    BY <1>l, <2>n, FillCounts
  <2>3. views' = [views EXCEPT ![pfB] = fresh] /\ produced' = produced + n
    BY <2>1
  <2> HIDE DEF fresh
  <2>4. /\ pfB \in Batches /\ pfB # cur /\ (ready # <<>> => Head(ready) # pfB)
        /\ pf = "fill" /\ pf' = "offer" /\ UNCHANGED <<got, cur, idx, ready, quit, pfB>>
    BY <1>2, <1>l, <1>t DEF FillOK, HandoffInv, BatchOwnership
  <2>5. /\ views'[pfB] = fresh /\ (cur # NoBatch => views'[cur] = views[cur])
        /\ ready # <<>> => views'[Head(ready)] = views[Head(ready)]
    BY <1>t, <2>3, <2>4 DEF TypeOK
  <2>6. Left' = Left /\ Queued' = Queued /\ Offered = 0 /\ Offered' = n
    BY <2>2, <2>4, <2>5 DEF Left, Queued, Offered
  <2>7. Len(got) + Left + Queued = produced
    BY <1>l, <1>m, <2>4, <2>6 DEF InOrder
  <2> QED BY <1>l, <2>2, <2>3, <2>4, <2>5, <2>6, <2>7 DEF InOrder, Counts
<1>3. CASE FillErr
  BY <1>3, SamePackets DEF FillErr, Exit
<1>4. CASE Offer
  <2>1. /\ ready = <<>> /\ pfB \in Batches /\ pf = "offer" /\ pf' = "await"
        /\ UNCHANGED <<got, cur, idx, views, produced, quit>>
    BY <1>4, <1>t DEF Offer, ReadyCap, HandoffInv, TypeOK
  <2>2. ready' # <<>> /\ Head(ready') = pfB
    BY <1>4, <2>1 DEF Offer
  <2>3. Left' = Left /\ Queued = 0 /\ Queued' = Offered /\ Offered' = 0
    BY <2>1, <2>2 DEF Left, Queued, Offered
  <2> QED BY <1>l, <1>m, <2>1, <2>2, <2>3 DEF InOrder, Counts
<1>5. CASE Take
  <2>1. /\ Head(spent) \in Elements(spent) /\ Head(spent) \in Batches
        /\ pf = "await" /\ pf' = "fill" /\ UNCHANGED <<got, cur, idx, ready, produced, quit>>
        /\ views' = [views EXCEPT ![Head(spent)] = <<>>]
    BY <1>5, <1>t DEF Take, Elements, TypeOK
  <2>2. Head(spent) # cur /\ (ready # <<>> => Head(spent) # Head(ready))
    BY <1>l, <1>t, <2>1 DEF HandoffInv, BatchOwnership
  <2>3. /\ cur # NoBatch => views'[cur] = views[cur]
        /\ ready # <<>> => views'[Head(ready)] = views[Head(ready)]
    BY <1>t, <2>1, <2>2 DEF TypeOK
  <2>4. Left' = Left /\ Queued' = Queued /\ Offered' = Offered
    BY <2>1, <2>3 DEF Left, Queued, Offered
  <2> QED BY <2>1, <2>3, <2>4 DEF InOrder, Counts
<1>6. CASE SeeQuit
  <2>1. /\ quit /\ quit' /\ pf' = "done" /\ Offered' = 0 /\ Left' = Left /\ Queued' = Queued
        /\ UNCHANGED <<produced, ready, pfB, views, cur, idx, got>>
    BY <1>6 DEF SeeQuit, Exit, Left, Queued, Offered
  <2>2. CASE pf = "offer"
    BY <1>t, <2>1, <2>2 DEF InOrder, HandoffInv, Counts
  <2>3. CASE pf = "await"
    BY <2>1, <2>3 DEF InOrder, Counts, Offered
  <2> QED BY <1>6, <2>2, <2>3 DEF SeeQuit
<1>7. CASE NextView
  <2>1. /\ cur \in Batches /\ cur # NoBatch /\ idx < Len(views[cur]) /\ idx' = idx + 1
        /\ got' = Append(got, views[cur][idx + 1])
        /\ UNCHANGED <<produced, ready, pfB, views, cur, quit, pf>>
    BY <1>7, <1>t DEF NextView, TypeOK
  <2>2. views[cur][idx + 1] = Len(got) + 1
    BY <1>l, <2>1 DEF InOrder, Counts
  <2>3. Len(got') = Len(got) + 1 /\ Counts(got', 0)
    BY <1>t, <2>1, <2>2, AppendCounts DEF InOrder, TypeOK
  <2>4. Left' = Left - 1 /\ Queued' = Queued /\ Offered' = Offered
    BY <1>l, <2>1 DEF Left, Queued, Offered
  <2>5. /\ Len(got') - idx' = Len(got) - idx /\ Len(got') + Left' = Len(got) + Left
        /\ Len(got') + Left' + Queued' = Len(got) + Left + Queued
    BY <1>l, <1>m, <2>1, <2>3, <2>4
  <2>6. idx' <= Len(views[cur])
    BY <1>l, <2>1
  <2> QED BY <2>1, <2>3, <2>4, <2>5, <2>6, Zenon DEF InOrder, Counts
<1>8. CASE NextRetire
  <2>1. /\ cur' = NoBatch /\ UNCHANGED <<produced, ready, pfB, views, idx, got, quit, pf>>
        /\ cur # NoBatch => idx >= Len(views[cur]) /\ cur \in Batches
    BY <1>8, <1>t DEF NextRetire, TypeOK
  <2>2. Left = 0 /\ Left' = 0 /\ Queued' = Queued /\ Offered' = Offered
    BY <1>l, <2>1 DEF InOrder, Left, Queued, Offered
  <2> QED BY <2>1, <2>2 DEF InOrder, Counts
<1>9. CASE NextReceive
  <2>1. /\ ready # <<>> /\ cur = NoBatch /\ cur' = Head(ready) /\ idx' = 0 /\ ready' = <<>>
        /\ cur' # NoBatch /\ UNCHANGED <<produced, pfB, views, got, quit, pf>>
    BY <1>9, <1>l, <1>t DEF NextReceive, HandoffInv, ReadyCap, TypeOK
  <2>2. Left = 0 /\ Left' = Queued /\ Queued' = 0 /\ Offered' = Offered /\ Queued \in Nat
    BY <1>l, <2>1 DEF Left, Queued, Offered
  <2> QED BY <1>l, <2>1, <2>2 DEF InOrder, Counts
<1>10. CASE NextEnd \/ LeaveClosed \/ Cancel \/ SourceEnds \/ CloseSource \/ CloseQuit
  BY <1>10, SamePackets DEF NextEnd, LeaveClosed, Cancel, SourceEnds, CloseSource, CloseQuit
<1>11. CASE Leave
  BY <1>11, SamePackets DEF Leave
<1>12. CASE Terminated \/ UNCHANGED vars
  BY <1>12, SamePackets DEF Terminated, vars
<1> QED BY <1>1, <1>2, <1>3, <1>4, <1>5, <1>6, <1>7, <1>8, <1>9, <1>10, <1>11, <1>12
        DEF Next, Prefetch, Consume, CloseStep

(* Place after place, the runs add up to the numbers 1, 2, 3, ...            *)
LEMMA InOrderIsIntact == IInv /\ InOrder => StreamIntact
<1> SUFFICES ASSUME IInv, InOrder PROVE StreamIntact
  OBVIOUS
<1> DEFINE A == IF cur = NoBatch THEN <<>> ELSE SubSeq(views[cur], idx + 1, Len(views[cur]))
           B == IF ready = <<>> THEN <<>> ELSE views[Head(ready)]
           C == IF pf = "offer" THEN views[pfB] ELSE <<>>
           all == got \o Pending
<1>l. /\ got \in Seq(Nat) /\ Len(got) \in Nat /\ idx \in Nat
      /\ \A b \in Batches : views[b] \in Seq(Nat) /\ Len(views[b]) \in Nat
      /\ ready # <<>> => Head(ready) \in Batches
      /\ cur # NoBatch => cur \in Batches
      /\ pf = "offer" => pfB \in Batches
  BY DEF IInv, TypeOK, HandoffInv
<1>1. A \in Seq(Nat) /\ Len(A) = Left /\ Counts(A, Len(got))
  <2>1. CASE cur = NoBatch
    BY <2>1 DEF Left, Counts
  <2>2. CASE cur # NoBatch
    BY <1>l, <2>2, RestCounts, Zenon DEF Left, InOrder
  <2> QED BY <2>1, <2>2
<1>2. B \in Seq(Nat) /\ Len(B) = Queued /\ Counts(B, Len(got) + Left)
  BY <1>l DEF Queued, InOrder, Counts
<1>3. C \in Seq(Nat) /\ Len(C) = Offered /\ Counts(C, Len(got) + Left + Queued)
  BY <1>l DEF Offered, InOrder, Counts
<1>p. Pending = (A \o B) \o C
  BY DEF Pending
<1>4. Left \in Nat /\ Queued \in Nat /\ Offered \in Nat
  BY <1>1, <1>2, <1>3
<1> HIDE DEF A, B, C
<1>5. A \o B \in Seq(Nat) /\ Len(A \o B) = Left + Queued /\ Counts(A \o B, Len(got))
  BY <1>l, <1>1, <1>2, ConcatCounts, Zenon
<1>6. Len(got) + (Left + Queued) = Len(got) + Left + Queued
  BY <1>l, <1>4
<1>7. /\ Pending \in Seq(Nat) /\ Len(Pending) = Left + Queued + Offered
      /\ Counts(Pending, Len(got))
  BY <1>l, <1>p, <1>3, <1>5, <1>6, ConcatCounts, Zenon
<1>8. 0 + Len(got) = Len(got)
  BY <1>l
<1>9. /\ all \in Seq(Nat) /\ Len(all) = Len(got) + (Left + Queued + Offered)
      /\ Counts(all, 0)
  BY <1>l, <1>7, <1>8, ConcatCounts, Zenon DEF InOrder
<1>10. Len(all) = Len(got) + Left + Queued + Offered
  BY <1>l, <1>4, <1>9
<1> HIDE DEF all
<1>11. all = [i \in 1..Len(all) |-> i]
  BY <1>9 DEF Counts
<1> QED BY <1>10, <1>11 DEF InOrder, StreamIntact, all

(* Next returns the source's packets in order, none lost, repeated or        *)
(* overwritten, for every call site, batch size and number of packets        *)
(* (reader.go:70-112).                                                       *)
THEOREM StreamStaysIntact == Spec => []StreamIntact
<1>1. Init => IInv /\ InOrder
  BY InitIInv, InitInOrder
<1>2. (IInv /\ InOrder) /\ [Next]_vars => (IInv /\ InOrder)'
  BY NextIInv, NextInOrder
<1> QED BY <1>1, <1>2, InOrderIsIntact, PTL DEF Spec

=============================================================================
