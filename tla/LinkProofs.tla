------------------------------ MODULE LinkProofs ------------------------------
(***************************************************************************)
(* A node's links and what watches over them.                              *)
(*                                                                         *)
(* TcpConnectOut: its safety properties, for any number of links.          *)
(*                                                                         *)
(* Healthcheck: what a report of healthy or not is worth, for all timings. *)
(* HeardInv ties lastSeen, which a reconnect moves, to packets that really *)
(* came back; SoundInv says which probe answers for the silence so far.    *)
(***************************************************************************)
EXTENDS TcpConnectOut, Healthcheck, TLAPS

(* What holds of one link, seen from how far the teardown has come: a write  *)
(* needs an open socket, and Close leaves none.                              *)
LinkInv(k, passed) ==
  /\ k \in Link
  /\ k.dialing => k.out + k.got = 1
  /\ ~k.dialing => k.out = 0 /\ k.got = 0
  /\ ~k.lost /\ (k.dialing => ~k.connected)
  /\ k.writing => k.connected
  /\ k.closed => ~k.connected
  /\ passed => k.closed

IInv ==
  /\ DOMAIN link = Links /\ link = [l \in Links |-> link[l]]
  /\ \A l \in Links : LinkInv(link[l], l > leave)
  /\ remote \in [Links -> {"ok", "broken", "stalled"}]
  /\ visit \in 0..N /\ leave \in 0..(N + 1)

(* The initial state: nothing open, nothing under way.                       *)
LEMMA InitIInv == Init => IInv
  BY LinkAssumption DEF Init, IInv, LinkInv, Link, Links

(* Every step changes at most one link, and keeps what holds of it.          *)
LEMMA NextIInv == IInv /\ [Next]_vars => IInv'
  <1> SUFFICES ASSUME IInv, [Next]_vars PROVE IInv'
      OBVIOUS
  <1> USE LinkAssumption
  <1>0. ASSUME UNCHANGED vars PROVE IInv'
      BY <1>0 DEF vars, IInv
  <1>1. ASSUME DownEdge PROVE IInv'
      BY <1>1 DEF DownEdge, IInv
  <1>2. ASSUME Teardown PROVE IInv'
    <2>1. \A l \in Links : LinkInv(link[l], l > leave')
        BY <1>2 DEF Teardown, IInv, Links, LinkInv
    <2> QED
        BY <1>2, <2>1 DEF Teardown, IInv
  <1>3. ASSUME NEW l \in Links, NEW k,
               link' = [link EXCEPT ![l] = k], LinkInv(k, l > leave'),
               \A m \in Links \ {l} : m > leave' => m > leave,
               remote' = remote, visit' \in 0..N, leave' \in 0..(N + 1)
        PROVE  IInv'
    <2>1. \A m \in Links \ {l} : LinkInv(link[m], m > leave')
        BY <1>3 DEF IInv, LinkInv
    <2> QED
        BY <1>3, <2>1 DEF IInv
  <1>4. ASSUME NEW l \in Links, RemoteChanges(l) PROVE IInv'
      BY <1>4 DEF RemoteChanges, IInv
  <1>5. ASSUME NEW l \in Links,
               KickDialLocked(l) \/ FlushStart(l) \/ FlushEnd(l) \/ DialEnds(l)
                 \/ DialDone(l) \/ BackoffEnds(l)
        PROVE  IInv'
    <2> DEFINE o == link[l]
    <2> DEFINE k == link'[l]
    <2>0. LinkInv(o, l > leave) /\ l \in DOMAIN link
        BY DEF IInv
    <2>1. LinkInv(k, l > leave) /\ link' = [link EXCEPT ![l] = k]
      <3>1. CASE KickDialLocked(l)
        <4>1. o.out = 0 /\ o.got = 0 /\ ~o.connected /\ ~o.dialing /\ ~o.closed
            BY <3>1, <2>0 DEF KickDialLocked, MayDial, Unlocked, LinkInv, Link
        <4>2. link' = [link EXCEPT ![l] = [o EXCEPT !.dialing = TRUE, !.out = o.out + 1]]
            BY <3>1, <2>0, Zenon DEF KickDialLocked
        <4>3. k = [o EXCEPT !.dialing = TRUE, !.out = o.out + 1]
            BY <4>2, <2>0
        <4> HIDE DEF k, o
        <4>a. o \in Link /\ o.out + 1 \in 0..1
            BY <2>0, <4>1 DEF LinkInv, Link
        <4>4. k \in Link
            BY <4>a, <4>3, Zenon DEF Link
        <4>5. /\ k.writing = o.writing /\ k.connected = o.connected /\ k.dialing = TRUE /\ k.closed = o.closed
              /\ k.backoff = o.backoff /\ k.out = o.out + 1 /\ k.got = o.got /\ k.lost = o.lost
            BY <2>0, <4>3 DEF LinkInv, Link
        <4>6. LinkInv(k, l > leave)
            BY <2>0, <4>1, <4>4, <4>5 DEF LinkInv
        <4> QED
            BY <4>2, <4>3, <4>6
      <3>2. CASE FlushStart(l)
        <4>1. o.connected
            BY <3>2, <2>0 DEF FlushStart, Unlocked, LinkInv, Link
        <4>2. link' = [link EXCEPT ![l] = [o EXCEPT !.writing = TRUE]]
            BY <3>2, <2>0, <4>1 DEF FlushStart, LinkInv, Link
        <4>3. k = [o EXCEPT !.writing = TRUE]
            BY <4>2, <2>0
        <4> HIDE DEF k, o
        <4>4. LinkInv(k, l > leave)
            BY <2>0, <4>1, <4>3, Zenon DEF LinkInv, Link
        <4> QED
            BY <4>2, <4>3, <4>4
      <3>3. CASE FlushOK(l)
        <4>2. link' = [link EXCEPT ![l] = [o EXCEPT !.writing = FALSE]]
            BY <3>3, <2>0 DEF FlushOK, LinkInv, Link
        <4>3. k = [o EXCEPT !.writing = FALSE]
            BY <4>2, <2>0
        <4> HIDE DEF k, o
        <4>4. LinkInv(k, l > leave)
            BY <2>0, <4>3, Zenon DEF LinkInv, Link
        <4> QED
            BY <4>2, <4>3, <4>4
      <3>4. CASE FlushErr(l)
        <4>2. link' = [link EXCEPT ![l] = [o EXCEPT !.writing = FALSE, !.connected = FALSE, !.backoff = TRUE]]
            BY <3>4, <2>0, Zenon DEF FlushErr, LinkInv, Link
        <4>3. k = [o EXCEPT !.writing = FALSE, !.connected = FALSE, !.backoff = TRUE]
            BY <4>2, <2>0
        <4> HIDE DEF k, o
        <4>4. LinkInv(k, l > leave)
            BY <2>0, <4>3, Zenon DEF LinkInv, Link
        <4> QED
            BY <4>2, <4>3, <4>4
      <3>5. CASE DialOpens(l)
        <4>1. o.out = 1 /\ o.got = 0 /\ o.dialing
            BY <3>5, <2>0 DEF DialOpens, Unlocked, LinkInv, Link
        <4>2. link' = [link EXCEPT ![l] = [o EXCEPT !.out = o.out - 1, !.got = o.got + 1]]
            BY <3>5, <2>0, Zenon DEF DialOpens
        <4>3. k = [o EXCEPT !.out = o.out - 1, !.got = o.got + 1]
            BY <4>2, <2>0
        <4> HIDE DEF k, o
        <4>a. o \in Link /\ o.out - 1 \in 0..1 /\ o.got + 1 \in 0..1
            BY <2>0, <4>1 DEF LinkInv, Link
        <4>4. k \in Link
            BY <4>a, <4>3, Zenon DEF Link
        <4>5. /\ k.writing = o.writing /\ k.connected = o.connected /\ k.dialing = o.dialing /\ k.closed = o.closed
              /\ k.backoff = o.backoff /\ k.out = o.out - 1 /\ k.got = o.got + 1 /\ k.lost = o.lost
            BY <2>0, <4>3 DEF LinkInv, Link
        <4>6. LinkInv(k, l > leave)
            BY <2>0, <4>1, <4>4, <4>5 DEF LinkInv
        <4> QED
            BY <4>2, <4>3, <4>6
      <3>6. CASE DialFails(l)
        <4>1. o.out = 1 /\ o.got = 0 /\ o.dialing
            BY <3>6, <2>0 DEF DialFails, Unlocked, LinkInv, Link
        <4>2. link' = [link EXCEPT ![l] = [o EXCEPT !.out = o.out - 1, !.dialing = FALSE, !.backoff = TRUE]]
            BY <3>6, <2>0, Zenon DEF DialFails
        <4>3. k = [o EXCEPT !.out = o.out - 1, !.dialing = FALSE, !.backoff = TRUE]
            BY <4>2, <2>0
        <4> HIDE DEF k, o
        <4>a. o \in Link /\ o.out - 1 \in 0..1
            BY <2>0, <4>1 DEF LinkInv, Link
        <4>4. k \in Link
            BY <4>a, <4>3, Zenon DEF Link
        <4>5. /\ k.writing = o.writing /\ k.connected = o.connected /\ k.dialing = FALSE /\ k.closed = o.closed
              /\ k.backoff = TRUE /\ k.out = o.out - 1 /\ k.got = o.got /\ k.lost = o.lost
            BY <2>0, <4>3 DEF LinkInv, Link
        <4>6. LinkInv(k, l > leave)
            BY <2>0, <4>1, <4>4, <4>5 DEF LinkInv
        <4> QED
            BY <4>2, <4>3, <4>6
      <3>7. CASE Discard(l)
        <4>1. o.out = 0 /\ o.got = 1 /\ o.dialing
            BY <3>7, <2>0 DEF Discard, Unlocked, LinkInv, Link
        <4>2. link' = [link EXCEPT ![l] = [o EXCEPT !.got = o.got - 1, !.dialing = FALSE,
                                       !.backoff = o.backoff \/ ~o.closed]]
            BY <3>7, <2>0, Zenon DEF Discard
        <4>3. k = [o EXCEPT !.got = o.got - 1, !.dialing = FALSE,
                                       !.backoff = o.backoff \/ ~o.closed]
            BY <4>2, <2>0
        <4> HIDE DEF k, o
        <4>a. o \in Link /\ o.got - 1 \in 0..1 /\ (o.backoff \/ ~o.closed) \in BOOLEAN
            BY <2>0, <4>1 DEF LinkInv, Link
        <4>4. k \in Link
            BY <4>a, <4>3, Zenon DEF Link
        <4>5. /\ k.writing = o.writing /\ k.connected = o.connected /\ k.dialing = FALSE /\ k.closed = o.closed
              /\ k.backoff = (o.backoff \/ ~o.closed) /\ k.out = o.out /\ k.got = o.got - 1 /\ k.lost = o.lost
            BY <2>0, <4>3 DEF LinkInv, Link
        <4>6. LinkInv(k, l > leave)
            BY <2>0, <4>1, <4>4, <4>5 DEF LinkInv
        <4> QED
            BY <4>2, <4>3, <4>6
      <3>8. CASE Install(l)
        <4>1. o.out = 0 /\ o.got = 1 /\ o.dialing /\ ~o.writing /\ ~o.closed
            BY <3>8, <2>0 DEF Install, Unlocked, LinkInv, Link
        <4>2. link' = [link EXCEPT ![l] = [o EXCEPT !.got = o.got - 1, !.dialing = FALSE, !.connected = TRUE,
                                       !.lost = o.lost \/ o.connected]]
            BY <3>8, <2>0, Zenon DEF Install
        <4>3. k = [o EXCEPT !.got = o.got - 1, !.dialing = FALSE, !.connected = TRUE,
                                       !.lost = o.lost \/ o.connected]
            BY <4>2, <2>0
        <4> HIDE DEF k, o
        <4>a. o \in Link /\ o.got - 1 \in 0..1 /\ (o.lost \/ o.connected) = FALSE
            BY <2>0, <4>1 DEF LinkInv, Link
        <4>4. k \in Link
            BY <4>a, <4>3, Zenon DEF Link
        <4>5. /\ k.writing = o.writing /\ k.connected = TRUE /\ k.dialing = FALSE /\ k.closed = o.closed
              /\ k.backoff = o.backoff /\ k.out = o.out /\ k.got = o.got - 1 /\ k.lost = (o.lost \/ o.connected)
            BY <2>0, <4>3 DEF LinkInv, Link
        <4>b. k.out = 0 /\ k.got = 0
            BY <4>1, <4>5
        <4>c. ~k.lost /\ k.connected /\ ~k.dialing /\ ~k.closed /\ ~k.writing
            BY <4>1, <4>5, <4>a, Zenon
        <4>d. ~(l > leave)
            BY <2>0, <4>1 DEF LinkInv
        <4>6. LinkInv(k, l > leave)
            BY <4>4, <4>b, <4>c, <4>d DEF LinkInv
        <4> QED
            BY <4>2, <4>3, <4>6
      <3>9. CASE BackoffEnds(l)
        <4>2. link' = [link EXCEPT ![l] = [o EXCEPT !.backoff = FALSE]]
            BY <3>9, <2>0 DEF BackoffEnds, LinkInv, Link
        <4>3. k = [o EXCEPT !.backoff = FALSE]
            BY <4>2, <2>0
        <4> HIDE DEF k, o
        <4>4. LinkInv(k, l > leave)
            BY <2>0, <4>3, Zenon DEF LinkInv, Link
        <4> QED
            BY <4>2, <4>3, <4>4
      <3> QED
          BY <1>5, <3>1, <3>2, <3>3, <3>4, <3>5, <3>6, <3>7, <3>8, <3>9 DEF FlushEnd, DialEnds, DialDone
    <2>2. remote' = remote /\ visit' = visit /\ leave' = leave
        BY <1>5 DEF KickDialLocked, FlushStart, FlushEnd, FlushOK, FlushErr, DialEnds, DialOpens,
           DialFails, DialDone, Install, Discard, BackoffEnds
    <2> HIDE DEF k
    <2> QED
        BY <2>1, <2>2, <1>3 DEF IInv
  <1>6. ASSUME NEW l \in Links, Reconnect(l) \/ Close(l) PROVE IInv'
    <2> DEFINE o == link[l]
    <2> DEFINE k == link'[l]
    <2>0. LinkInv(o, l > leave) /\ l \in DOMAIN link
        BY DEF IInv
    <2>1. LinkInv(k, l > leave') /\ link' = [link EXCEPT ![l] = k]
      <3>1. CASE Reconnect(l)
        <4>1. ~o.writing
            BY <3>1, <2>0 DEF Reconnect, Unlocked, LinkInv, Link
        <4>2. link' = [link EXCEPT ![l] = [o EXCEPT !.connected = FALSE, !.backoff = FALSE]]
            BY <3>1, <2>0, <4>1, Zenon DEF Reconnect, LinkInv, Link
        <4>3. k = [o EXCEPT !.connected = FALSE, !.backoff = FALSE]
            BY <4>2, <2>0
        <4> HIDE DEF k, o
        <4>4. LinkInv(k, l > leave')
            BY <2>0, <4>1, <4>3, <3>1, Zenon DEF LinkInv, Link, Reconnect
        <4> QED
            BY <4>2, <4>3, <4>4
      <3>2. CASE Close(l)
        <4>1. ~o.writing
            BY <3>2, <2>0 DEF Close, Unlocked, LinkInv, Link
        <4>2. link' = [link EXCEPT ![l] = [o EXCEPT !.connected = FALSE, !.closed = TRUE]]
            BY <3>2, <2>0, <4>1, Zenon DEF Close, LinkInv, Link
        <4>3. k = [o EXCEPT !.connected = FALSE, !.closed = TRUE]
            BY <4>2, <2>0
        <4> HIDE DEF k, o
        <4>4. LinkInv(k, l > leave')
            BY <2>0, <4>1, <4>3, Zenon DEF LinkInv, Link
        <4> QED
            BY <4>2, <4>3, <4>4
      <3> QED
          BY <1>6, <3>1, <3>2
    <2>2. remote' = remote /\ visit' \in 0..N /\ leave' \in 0..(N + 1)
        BY <1>6 DEF Reconnect, Close, IInv, Links
    <2>3. \A m \in Links \ {l} : m > leave' => m > leave
        BY <1>6 DEF Reconnect, Close, IInv, Links
    <2> HIDE DEF k
    <2> QED
        BY <2>1, <2>2, <2>3, <1>3, Zenon
  <1> QED
      BY <1>0, <1>1, <1>2, <1>4, <1>5, <1>6 DEF Next

(* The types of TcpConnectOut, among them that a link has at most one dial   *)
(* goroutine (tcp.go:100), hold in every reachable state.                    *)
THEOREM OutInvariant == Spec => []TypeOK
  <1>1. IInv => TypeOK
      BY DEF IInv, TypeOK, LinkInv
  <1> QED
      BY InitIInv, NextIInv, <1>1, PTL DEF Spec

(* kickDialLocked, dial: the flag and the goroutine come and go together.    *)
THEOREM DialFlagExact == Spec => []OneDial
  <1>1. IInv => OneDial
      BY DEF IInv, OneDial, LinkInv
  <1> QED
      BY InitIInv, NextIInv, <1>1, PTL DEF Spec

(* dial installs over c.conn unseen, and never over an open socket.          *)
THEOREM SocketsKept == Spec => []NoSocketLeak
  <1>1. IInv => NoSocketLeak
      BY DEF IInv, NoSocketLeak, LinkInv
  <1> QED
      BY InitIInv, NextIInv, <1>1, PTL DEF Spec

(* A dial that completes after Close installs nothing (tcp.go:101).          *)
THEOREM NothingBehindClose == Spec => []ClosedStaysDown
  <1>1. IInv => ClosedStaysDown
      BY DEF IInv, ClosedStaysDown, LinkInv
  <1> QED
      BY InitIInv, NextIInv, <1>1, PTL DEF Spec

----------------------------------------------------------------------------
(* What the timings of a driver have to do with each other.                  *)
LEMMA Timing ==
  ASSUME interval \in Cadences
  PROVE  /\ TickLen \in Nat \ {0} /\ Lull = 2 * TickLen
         /\ Never \in Nat /\ Never > Timeout + Lull /\ Never > UpGrace /\ Never > MaxBlock
         /\ interval = 0 => Timeout = 3 * TickLen
<1>1. TickLen \in Nat \ {0} /\ (interval = 0 => Timeout = 3 * TickLen)
  BY TimingAssumption DEF TickLen
<1> QED BY <1>1, TimingAssumption DEF Lull, Never

(* An age that is not capped yet grows by one.                               *)
LEMMA OlderAge ==
  ASSUME Never \in Nat, NEW a \in 0..Never
  PROVE  Older(a) \in 0..Never /\ a <= Older(a) /\ Older(a) <= a + 1 /\ (a < Never => Older(a) = a + 1)
BY DEF Older, None

(* The timings never change.                                                 *)
LEMMA SameTiming ==
  ASSUME HealthNext \/ UNCHANGED healthVars
  PROVE  interval' = interval /\ TickLen' = TickLen /\ Lull' = Lull /\ Never' = Never
<1>1. interval' = interval
  BY DEF HealthNext, StepDown, Step, ReconnectDone, Resync, Seen, SentData, PathFails,
         PathHeals, Pass, healthVars
<1>2. TickLen' = TickLen
  BY <1>1 DEF TickLen
<1> QED BY <1>1, <1>2 DEF Lull, Never

(* HealthTypeOK in two halves, which different provers handle.               *)
Ages ==
  /\ interval \in Cadences
  /\ seenAge \in 0..Never /\ sentAge \in 0..Never /\ activeAge \in 0..Never
  /\ soundAge \in 0..Never /\ heardAge \in 0..Never /\ quietAge \in 0..Never
  /\ candAge \in {None} \cup 0..Never
  /\ pc \in {"wait", "reconnect", "resync"}
  /\ stepAge \in 0..MaxBlock /\ tickAge \in 0..TickLen /\ pings \subseteq 0..MaxRTT

Flags ==
  /\ fresh \in BOOLEAN /\ sentTick \in BOOLEAN /\ healthy \in BOOLEAN
  /\ wasActive \in BOOLEAN /\ up \in BOOLEAN

(* The types of ages and of flags together are the type invariant.           *)
LEMMA TypeHalves == HealthTypeOK <=> Ages /\ Flags
BY Zenon DEF HealthTypeOK, Ages, Flags

(* A driver starts with ages and flags of their types.                       *)
LEMMA InitTyped == HealthInit => HealthTypeOK
<1> SUFFICES ASSUME HealthInit PROVE HealthTypeOK
  OBVIOUS
<1>1. interval \in Cadences
  BY DEF HealthInit
<1>2. Ages
  BY <1>1, Timing, TimingAssumption DEF HealthInit, Ages
<1>3. Flags
  BY Zenon DEF HealthInit, Flags
<1> QED BY <1>2, <1>3, TypeHalves

(* Ages stay below Never, whatever step is taken.                            *)
LEMMA StepAges == Ages /\ [HealthNext]_healthVars => Ages'
<1> SUFFICES ASSUME Ages, HealthNext \/ UNCHANGED healthVars PROVE Ages'
  OBVIOUS
<1>t. /\ TickLen \in Nat \ {0} /\ Never \in Nat /\ Never > MaxBlock
      /\ Timeout \in Nat \ {0} /\ MaxRTT \in Nat /\ MaxBlock \in Nat
  BY Timing, TimingAssumption DEF Ages
<1>s. interval' = interval /\ TickLen' = TickLen /\ Never' = Never
  BY SameTiming
<1>1. CASE StepDown
  BY <1>1, <1>s, <1>t DEF StepDown, Ages, ActiveAge
<1>2. CASE Step
  <2>1. candAge' \in {None} \cup 0..Never
    BY <1>2, <1>s, <1>t DEF Step, Ages, Candidate
  <2> QED BY <1>2, <1>s, <1>t, <2>1 DEF Step, Ages, ActiveAge
<1>3. CASE ReconnectDone
  BY <1>3, <1>s, <1>t DEF ReconnectDone, Ages
<1>4. CASE Resync
  BY <1>4, <1>s, <1>t DEF Resync, Ages
<1>5. CASE Seen
  BY <1>5, <1>s, <1>t DEF Seen, Ages
<1>6. CASE SentData
  BY <1>6, <1>s, <1>t DEF SentData, Ages
<1>7. CASE PathFails \/ PathHeals
  <2>1. /\ UNCHANGED <<seenAge, sentAge, activeAge, heardAge, quietAge, candAge, pc, stepAge, tickAge>>
        /\ pings' \subseteq pings /\ soundAge' \in {0, soundAge}
    BY <1>7, Zenon DEF PathFails, PathHeals, state
  <2> QED BY <1>s, <1>t, <2>1 DEF Ages
<1>8. CASE Pass
  <2>1. /\ seenAge' \in 0..Never /\ sentAge' \in 0..Never /\ activeAge' \in 0..Never
        /\ heardAge' \in 0..Never
    BY <1>8, <1>t, OlderAge DEF Pass, Ages
  <2>2. soundAge' \in 0..Never /\ quietAge' \in 0..Never
    BY <1>8, <1>t, OlderAge DEF Pass, Ages
  <2>3. candAge' \in {None} \cup 0..Never
    BY <1>8, <1>t DEF Pass, Ages, Older, None
  <2>4. stepAge' \in 0..MaxBlock /\ tickAge' \in 0..TickLen
    BY <1>8, <1>t DEF Pass, Ages
  <2>5. pings' \subseteq 0..MaxRTT
    BY <1>8, <1>t DEF Pass, Ages
  <2> QED BY <1>8, <1>s, <2>1, <2>2, <2>3, <2>4, <2>5 DEF Pass, Ages
<1>9. CASE UNCHANGED healthVars
  BY <1>9, <1>s DEF healthVars, state, Ages
<1> QED BY <1>1, <1>2, <1>3, <1>4, <1>5, <1>6, <1>7, <1>8, <1>9 DEF HealthNext

(* Flags stay flags.                                                         *)
LEMMA StepFlags == Flags /\ [HealthNext]_healthVars => Flags'
BY Zenon DEF HealthNext, StepDown, Step, ReconnectDone, Resync, Seen, SentData, PathFails,
             PathHeals, Pass, healthVars, state, Flags, Active

(* Type correctness of the healthcheck, for all timings.                     *)
THEOREM HealthTyped == HealthSpec => []HealthTypeOK
<1>1. HealthInit => Ages /\ Flags
  BY InitTyped, TypeHalves
<1> QED BY <1>1, StepAges, StepFlags, TypeHalves, PTL DEF HealthSpec

(* What the reports rest on.  Outside of a reconnect, a tick counts as fresh *)
(* and a path as healthy only by packets that really came back; a grace      *)
(* window is open only while they keep coming; and a healthy path was not    *)
(* too silent at the last tick.                                              *)
HeardInv ==
  /\ healthy \/ candAge # None => pc = "wait"
  /\ pc = "wait" /\ (healthy \/ fresh) => seenAge = heardAge
  /\ pc = "wait" /\ fresh => heardAge <= tickAge
  /\ ~healthy /\ candAge # None => heardAge <= TickLen + tickAge /\ candAge <= quietAge
  /\ healthy /\ (interval > 0 \/ wasActive) =>
       \/ seenAge <= Timeout + tickAge
       \/ interval = 0 /\ activeAge <= Timeout + tickAge

(* Nothing has been reported at first.                                       *)
LEMMA InitHeard == HealthInit => HeardInv
BY DEF HealthInit, HeardInv, None

(* Run, step, Seen, SentData and the path keep the reports grounded.         *)
LEMMA StepHeard == Ages /\ HeardInv /\ [HealthNext]_healthVars => HeardInv'
<1> SUFFICES ASSUME Ages, HeardInv, HealthNext \/ UNCHANGED healthVars PROVE HeardInv'
  OBVIOUS
<1>t. /\ TickLen \in Nat \ {0} /\ Never \in Nat /\ Never > Timeout + Lull /\ Never > MaxBlock
      /\ Lull = 2 * TickLen /\ Timeout \in Nat \ {0} /\ interval \in Nat
  BY Timing, TimingAssumption DEF Ages
<1>s. interval' = interval /\ TickLen' = TickLen /\ Never' = Never
  BY SameTiming
<1>1. CASE StepDown
  BY <1>1, <1>s DEF StepDown, HeardInv
<1>2. CASE Step
  <2>1. /\ pc = "wait" /\ tickAge = TickLen /\ pc' = pc /\ tickAge' = 0
        /\ UNCHANGED <<seenAge, heardAge, quietAge>> /\ ~fresh' /\ activeAge' = ActiveAge
        /\ candAge' = Candidate
    BY <1>2 DEF Step, Due
  <2>2. (healthy' <=> healthy \/ (fresh /\ candAge' >= UpGrace)) /\ (wasActive' <=> Active)
    BY <1>2, Zenon DEF Step
  <2>3. ~TooSilent
    BY <1>2 DEF Step
  <2>4. healthy' => seenAge' = heardAge'
    BY <2>1, <2>2 DEF HeardInv
  <2>5. ~healthy' /\ candAge' # None => heardAge' <= TickLen' + tickAge' /\ candAge' <= quietAge'
    BY <1>s, <1>t, <2>1, <2>2 DEF HeardInv, Candidate, Ages, None
  <2>6. Active => seenAge <= Timeout \/ (interval = 0 /\ ActiveAge <= Timeout)
    BY <1>t, <2>3 DEF TooSilent, Silent, Ages, ActiveAge
  <2>7. interval > 0 => Active
    BY DEF Active
  <2>8. healthy' /\ (interval' > 0 \/ wasActive') =>
          \/ seenAge' <= Timeout + tickAge'
          \/ interval' = 0 /\ activeAge' <= Timeout + tickAge'
    BY <1>s, <1>t, <2>1, <2>2, <2>6, <2>7
  <2> QED BY <2>1, <2>4, <2>5, <2>8 DEF HeardInv
<1>3. CASE ReconnectDone
  BY <1>3, <1>s DEF ReconnectDone, HeardInv
<1>4. CASE Resync
  BY <1>4, <1>s DEF Resync, HeardInv
<1>5. CASE Seen
  BY <1>5, <1>s, <1>t DEF Seen, HeardInv, Ages
<1>6. CASE SentData
  BY <1>6, <1>s DEF SentData, HeardInv
<1>7. CASE PathFails \/ PathHeals \/ UNCHANGED healthVars
  <2>1. /\ UNCHANGED <<seenAge, activeAge, heardAge, quietAge, candAge, pc, tickAge>>
        /\ UNCHANGED fresh /\ UNCHANGED healthy /\ UNCHANGED wasActive
    BY <1>7, Zenon DEF PathFails, PathHeals, healthVars, state
  <2> QED BY <1>s, <2>1 DEF HeardInv
<1>8. CASE Pass
  <2>1. /\ UNCHANGED pc /\ UNCHANGED fresh /\ UNCHANGED healthy /\ UNCHANGED wasActive
        /\ seenAge' = Older(seenAge) /\ heardAge' = Older(heardAge)
        /\ activeAge' = Older(activeAge) /\ candAge' = Older(candAge)
        /\ quietAge' = IF heardAge > Lull THEN 0 ELSE Older(quietAge)
    BY <1>8 DEF Pass
  <2>2. pc = "wait" => tickAge < TickLen /\ tickAge' = tickAge + 1
    BY <1>8, <1>t DEF Pass, Due, Ages
  <2>3. /\ seenAge' \in Nat /\ seenAge' <= seenAge + 1
        /\ heardAge' \in Nat /\ heardAge' <= heardAge + 1
        /\ activeAge' \in Nat /\ activeAge' <= activeAge + 1
    BY <1>t, <2>1, OlderAge DEF Ages
  <2>4. ~healthy /\ candAge # None => candAge' <= quietAge'
    BY <1>t, <2>1, <2>2 DEF HeardInv, Ages, Older, None
  <2>5. candAge = None => candAge' = None
    BY <2>1 DEF Older
  <2>6. pc = "wait" /\ fresh => heardAge' <= tickAge'
    BY <1>t, <2>1, <2>2, <2>3 DEF HeardInv, Ages
  <2>7. ~healthy /\ candAge # None => heardAge' <= TickLen + tickAge'
    BY <1>t, <2>1, <2>2, <2>3 DEF HeardInv, Ages
  <2>8. ASSUME healthy, interval > 0 \/ wasActive
        PROVE  \/ seenAge' <= Timeout + tickAge'
               \/ interval = 0 /\ activeAge' <= Timeout + tickAge'
    BY <1>t, <2>1, <2>2, <2>3, <2>8 DEF HeardInv, Ages
  <2> QED BY <1>s, <2>1, <2>4, <2>5, <2>6, <2>7, <2>8 DEF HeardInv
<1> QED BY <1>1, <1>2, <1>3, <1>4, <1>5, <1>6, <1>7, <1>8 DEF HealthNext

(* So the reports are grounded throughout.                                   *)
LEMMA HeardHolds == HealthSpec => [](Ages /\ HeardInv)
<1>1. HealthInit => Ages /\ HeardInv
  BY InitTyped, InitHeard, TypeHalves
<1> QED BY <1>1, StepAges, StepHeard, PTL DEF HealthSpec

(* A path reported healthy, and probed, has been heard within the timeout    *)
(* and a tick, for all timings and cadences (healthcheck.go:134-142).        *)
THEOREM DownsOnSilence == HealthSpec => []DownOnSilence
<1>1. Ages /\ HeardInv => DownOnSilence
  <2> SUFFICES ASSUME Ages, HeardInv PROVE DownOnSilence
    OBVIOUS
  <2>1. TickLen \in Nat /\ Timeout \in Nat
    BY Timing, TimingAssumption DEF Ages
  <2> QED BY <2>1 DEF Ages, HeardInv, DownOnSilence
<1> QED BY <1>1, HeardHolds, PTL

(* Up only after packets came back throughout the grace period, whatever     *)
(* the timings (healthcheck.go:144-160).                                     *)
THEOREM UpsAreEarned == HealthSpec => UpEarned
<1> DEFINE Earned == ~healthy /\ healthy' => quietAge >= UpGrace
<1>1. Ages /\ HeardInv /\ [HealthNext]_healthVars => [Earned]_healthVars
  <2> SUFFICES ASSUME Ages, HeardInv, HealthNext, ~healthy, healthy' PROVE quietAge >= UpGrace
    BY Zenon
  <2>1. Step
    BY Zenon DEF HealthNext, StepDown, ReconnectDone, Resync, Seen, SentData, PathFails,
           PathHeals, Pass, state
  <2>2. fresh /\ candAge' >= UpGrace /\ candAge' = Candidate
    BY <2>1, Zenon DEF Step
  <2>3. UpGrace \in Nat \ {0}
    BY TimingAssumption
  <2>4. candAge # None /\ candAge >= UpGrace
    BY <2>2, <2>3 DEF Candidate
  <2> QED BY <2>3, <2>4 DEF HeardInv, Ages, None
<1> QED BY <1>1, HeardHolds, PTL DEF HealthSpec, UpEarned

----------------------------------------------------------------------------
(* Timings at which a sound path answers in time: with a fixed cadence the   *)
(* round trip and an interval fit in the timeout; in lazy mode, where a tick *)
(* probes only after data, the round trip is shorter than a tick.  It fails  *)
(* with a round trip of a whole timeout, in lazy mode with a third of one.   *)
PromptPath ==
  \A c \in Cadences :
    /\ c > 0 => MaxRTT + c <= Timeout
    /\ c = 0 => 3 * MaxRTT < Timeout

(* Nothing that lasted x ends unanswered: no tick came since it began, or    *)
(* the ping of the first such tick is under way.                             *)
Reach(x) == x <= tickAge \/ \E a \in pings : x <= a + TickLen

(* A probe at most m before the last tick was answered, is under way, or     *)
(* met a path that was down.                                                 *)
Near(m) ==
  \/ seenAge <= tickAge + m \/ soundAge <= tickAge + m
  \/ \E a \in pings : a <= tickAge + m

Lags == {0, TickLen, 2 * TickLen}

(* Pings leave at ticks, and data is known to the tick after it.             *)
ProbeInv ==
  /\ ~up => soundAge = 0
  /\ \A a \in pings : a >= tickAge
  /\ interval = 0 => sentTick \/ sentAge >= tickAge
  /\ interval = 0 /\ ~wasActive => sentTick \/ sentAge >= Timeout

(* While a path is reported healthy, its silence is answered for.            *)
SoundInv ==
  /\ healthy /\ interval > 0 => Reach(seenAge) \/ Reach(soundAge)
  /\ healthy /\ interval = 0 /\ wasActive =>
       \E m \in Lags : Near(m) /\ (sentTick \/ sentAge >= tickAge + m)

(* No probe is owed at first.                                                *)
LEMMA InitSound == HealthInit => ProbeInv /\ SoundInv
<1> SUFFICES ASSUME HealthInit PROVE ProbeInv /\ SoundInv
  OBVIOUS
<1>1. Never \in Nat /\ Never > Timeout + Lull /\ Lull \in Nat /\ Timeout \in Nat
  BY Timing, TimingAssumption DEF HealthInit
<1> QED BY <1>1 DEF HealthInit, ProbeInv, SoundInv

(* Only a tick sends pings, and it takes note of the data sent before.       *)
LEMMA StepProbe == Ages /\ ProbeInv /\ [HealthNext]_healthVars => ProbeInv'
<1> SUFFICES ASSUME Ages, ProbeInv, HealthNext \/ UNCHANGED healthVars PROVE ProbeInv'
  OBVIOUS
<1>t. /\ TickLen \in Nat \ {0} /\ Never \in Nat /\ Never > Timeout + Lull
      /\ Lull = 2 * TickLen /\ Timeout \in Nat \ {0} /\ interval \in Nat
  BY Timing, TimingAssumption DEF Ages
<1>s. interval' = interval /\ TickLen' = TickLen /\ Never' = Never
  BY SameTiming
<1>1. CASE StepDown
  BY <1>1, <1>s, <1>t DEF StepDown, TooSilent, ProbeInv, Ages
<1>2. CASE Step
  <2>1. /\ tickAge' = 0 /\ pings' \subseteq pings \cup {0} /\ UNCHANGED soundAge
        /\ UNCHANGED sentAge /\ UNCHANGED up
    BY <1>2 DEF Step
  <2>2. wasActive' <=> Active
    BY <1>2 DEF Step
  <2>3. ~Active => sentAge >= Timeout
    BY <1>t DEF Active, Ages
  <2> QED BY <1>t, <2>1, <2>2, <2>3 DEF ProbeInv, Ages
<1>3. CASE ReconnectDone \/ Resync
  BY <1>3, <1>s DEF ReconnectDone, Resync, ProbeInv
<1>4. CASE Seen
  BY <1>4, <1>s DEF Seen, ProbeInv
<1>5. CASE SentData
  BY <1>5, <1>s DEF SentData, ProbeInv
<1>6. CASE PathFails \/ PathHeals \/ UNCHANGED healthVars
  <2>1. /\ UNCHANGED sentAge /\ UNCHANGED tickAge /\ UNCHANGED sentTick /\ UNCHANGED wasActive
        /\ pings' \subseteq pings /\ (~up' => soundAge' = 0)
    BY <1>6, Zenon DEF PathFails, PathHeals, healthVars, state, ProbeInv
  <2> QED BY <1>s, <2>1 DEF ProbeInv
<1>7. CASE Pass
  <2>1. /\ UNCHANGED up /\ UNCHANGED sentTick /\ UNCHANGED wasActive /\ (~up => soundAge' = 0)
        /\ sentAge' = Older(sentAge) /\ pings' = {a + 1 : a \in pings}
    BY <1>7 DEF Pass
  <2>2. tickAge' \in Nat /\ tickAge' <= tickAge + 1 /\ tickAge' <= TickLen
    BY <1>7, <1>t DEF Pass, Ages
  <2>3. sentAge' \in Nat /\ sentAge' >= sentAge /\ (sentAge' = sentAge + 1 \/ sentAge' = Never)
    BY <1>t, <2>1 DEF Ages, Older, None
  <2>4. \A a \in pings' : a >= tickAge'
    BY <1>t, <2>1, <2>2, TimingAssumption DEF ProbeInv, Ages
  <2> QED BY <1>s, <1>t, <2>1, <2>2, <2>3, <2>4 DEF ProbeInv, Ages
<1> QED BY <1>1, <1>2, <1>3, <1>4, <1>5, <1>6, <1>7 DEF HealthNext

(* No step leaves a silence unaccounted for on a path reported healthy.      *)
LEMMA StepSound ==
  Ages /\ HeardInv /\ ProbeInv /\ SoundInv /\ [HealthNext]_healthVars => SoundInv'
<1> SUFFICES ASSUME Ages, HeardInv, ProbeInv, SoundInv, HealthNext \/ UNCHANGED healthVars
             PROVE  SoundInv'
  OBVIOUS
<1>t. /\ TickLen \in Nat \ {0} /\ Never \in Nat /\ Never > Timeout + Lull
      /\ Lull = 2 * TickLen /\ Timeout \in Nat \ {0} /\ interval \in Nat
      /\ interval = 0 => Timeout = 3 * TickLen
  BY Timing, TimingAssumption DEF Ages
<1>a. \A a \in pings : a \in Nat
  BY TimingAssumption DEF Ages
<1>s. interval' = interval /\ TickLen' = TickLen /\ Never' = Never /\ Lags' = Lags
  BY SameTiming DEF Lags
<1>1. CASE StepDown
  BY <1>1 DEF StepDown, SoundInv
<1>2. CASE Step
  <2>1. /\ pc = "wait" /\ tickAge = TickLen /\ tickAge' = 0
        /\ UNCHANGED <<seenAge, heardAge, soundAge, sentAge>>
    BY <1>2 DEF Step, Due
  <2>2. /\ healthy' <=> healthy \/ (fresh /\ candAge' >= UpGrace)
        /\ wasActive' <=> Active
        /\ pings' = IF Probes /\ up THEN pings \cup {0} ELSE pings
    BY <1>2, Zenon DEF Step
  <2>3. Probes => Near(0)'
    BY <1>t, <2>1, <2>2 DEF Near, ProbeInv
  <2>4. ASSUME healthy', interval > 0 PROVE Reach(seenAge)' \/ Reach(soundAge)'
    <3>1. Probes
      BY <2>4 DEF Probes
    <3>2. CASE up
      <4>1. 0 \in pings' /\ \A a \in pings : a \in pings'
        BY <2>2, <3>1, <3>2
      <4>2. seenAge <= tickAge \/ soundAge <= tickAge \/ (\E a \in pings : seenAge <= a + TickLen \/ soundAge <= a + TickLen)
        BY <2>1, <2>2, <2>4 DEF SoundInv, Reach, HeardInv
      <4> QED BY <1>s, <1>t, <2>1, <4>1, <4>2 DEF Reach
    <3>3. CASE ~up
      BY <2>1, <3>3 DEF Reach, ProbeInv
    <3> QED BY <3>2, <3>3
  <2>5. ASSUME healthy', interval = 0, Active
        PROVE  \E m \in Lags : Near(m)' /\ sentAge >= m
    <3>1. CASE sentTick
      <4>1. Near(0)' /\ 0 \in Lags /\ sentAge >= 0
        BY <2>3, <3>1 DEF Probes, Lags, Ages
      <4> QED BY <4>1
    <3>2. CASE ~sentTick /\ healthy
      <4>1. sentAge < Timeout /\ wasActive
        BY <2>5, <3>2, <1>t DEF Active, ProbeInv, Ages
      <4>2. PICK m \in Lags : Near(m) /\ sentAge >= tickAge + m
        BY <2>5, <3>2, <4>1 DEF SoundInv
      <4>3. m \in Nat /\ m + TickLen \in Lags
        BY <1>t, <2>1, <2>5, <4>1, <4>2 DEF Lags, Ages
      <4>n. PICK n \in Lags : n = m + TickLen
        BY <4>3, Zenon
      <4>4. pings' = pings
        BY <2>2, <2>5, <3>2 DEF Probes
      <4>5. Near(n)'
        BY <1>t, <1>a, <2>1, <4>2, <4>3, <4>4, <4>n DEF Near
      <4>6. sentAge >= n
        BY <1>t, <2>1, <4>2, <4>3, <4>n DEF Ages
      <4> QED BY <4>5, <4>6
    <3>3. CASE ~sentTick /\ ~healthy
      <4>1. seenAge <= TickLen
        BY <2>1, <2>2, <2>5, <3>3 DEF HeardInv
      <4>2. sentAge >= TickLen
        BY <2>1, <2>5, <3>3 DEF ProbeInv
      <4>n. PICK n \in Lags : n = TickLen
        BY DEF Lags
      <4>3. Near(n)'
        BY <1>t, <2>1, <4>1, <4>n DEF Near
      <4> QED BY <4>2, <4>3, <4>n
    <3> QED BY <3>1, <3>2, <3>3
  <2>6. ASSUME healthy', interval = 0, Active
        PROVE  \E m \in Lags' : Near(m)' /\ sentAge' >= tickAge' + m
    BY <1>s, <1>t, <2>1, <2>5, <2>6 DEF Lags
  <2> QED BY <1>s, <2>2, <2>4, <2>6 DEF SoundInv
<1>3. CASE ReconnectDone \/ Resync
  BY <1>3, <1>s DEF ReconnectDone, Resync, SoundInv, HeardInv
<1>4. CASE Seen
  <2>1. seenAge' = 0 /\ UNCHANGED tickAge /\ UNCHANGED sentAge
        /\ UNCHANGED sentTick /\ UNCHANGED healthy /\ UNCHANGED wasActive
    BY <1>4, Zenon DEF Seen
  <2>2. Reach(seenAge)'
    BY <1>t, <2>1 DEF Reach, Ages
  <2>3. \A m \in Lags : Near(m)'
    BY <1>t, <2>1 DEF Near, Lags, Ages
  <2> QED BY <1>s, <2>1, <2>2, <2>3 DEF SoundInv
<1>5. CASE SentData
  <2>1. /\ sentTick' /\ UNCHANGED seenAge /\ UNCHANGED soundAge /\ UNCHANGED tickAge
        /\ UNCHANGED pings /\ UNCHANGED healthy /\ UNCHANGED wasActive /\ interval = 0
    BY <1>5, Zenon DEF SentData
  <2>2. \A m \in Lags : Near(m) => Near(m)'
    BY <2>1 DEF Near
  <2> QED BY <1>s, <2>1, <2>2 DEF SoundInv
<1>6. CASE PathFails
  <2>1. /\ soundAge' = 0 /\ UNCHANGED tickAge /\ UNCHANGED sentAge
        /\ UNCHANGED sentTick /\ UNCHANGED healthy /\ UNCHANGED wasActive
    BY <1>6, Zenon DEF PathFails, state
  <2>2. Reach(soundAge)'
    BY <2>1 DEF Reach, Ages
  <2>3. \A m \in Lags : Near(m)'
    BY <1>t, <2>1 DEF Near, Lags, Ages
  <2> QED BY <1>s, <2>1, <2>2, <2>3 DEF SoundInv
<1>7. CASE PathHeals \/ UNCHANGED healthVars
  <2>1. /\ UNCHANGED <<seenAge, soundAge, tickAge, pings, sentAge>>
        /\ UNCHANGED sentTick /\ UNCHANGED healthy /\ UNCHANGED wasActive
    BY <1>7, Zenon DEF PathHeals, healthVars, state
  <2> QED BY <1>s, <2>1 DEF SoundInv, Reach, Near
<1>8. CASE Pass
  <2>1. /\ UNCHANGED sentTick /\ UNCHANGED healthy /\ UNCHANGED wasActive
        /\ pings' = {a + 1 : a \in pings}
    BY <1>8 DEF Pass
  <2>2. /\ seenAge' \in Nat /\ seenAge' <= seenAge + 1
        /\ soundAge' \in Nat /\ soundAge' <= soundAge + 1
    BY <1>8, <1>t, OlderAge DEF Pass, Ages
  <2>3. sentAge' \in Nat /\ (sentAge' = sentAge + 1 \/ sentAge' = Never)
    BY <1>8, <1>t DEF Pass, Ages, Older, None
  <2>4. healthy => tickAge' = tickAge + 1 /\ tickAge < TickLen
    BY <1>8, <1>t DEF Pass, Due, Ages, HeardInv
  <2>p. \A a \in pings : a + 1 \in pings'
    BY <2>1
  <2>5. ASSUME healthy, NEW x \in Nat, NEW y \in Nat, y <= x + 1, Reach(x)
        PROVE  y <= tickAge' \/ \E a \in pings' : y <= a + TickLen'
    <3>1. CASE x <= tickAge
      BY <2>4, <2>5, <3>1 DEF Ages
    <3>2. ASSUME NEW a \in pings, x <= a + TickLen PROVE y <= (a + 1) + TickLen'
      BY <1>a, <1>s, <1>t, <2>5, <3>2
    <3> QED BY <2>5, <2>p, <3>1, <3>2 DEF Reach
  <2>r. ASSUME healthy PROVE /\ Reach(seenAge) => Reach(seenAge)'
                             /\ Reach(soundAge) => Reach(soundAge)'
    <3>1. seenAge \in Nat /\ soundAge \in Nat
      BY DEF Ages
    <3> QED BY <2>2, <2>5, <2>r, <3>1 DEF Reach
  <2>6. ASSUME healthy, NEW m \in Lags, Near(m) PROVE Near(m)'
    BY <1>a, <1>t, <2>1, <2>2, <2>4, <2>6 DEF Near, Lags, Ages
  <2>7. ASSUME healthy, interval = 0, NEW m \in Lags, sentAge >= tickAge + m
        PROVE  sentAge' >= tickAge' + m
    BY <1>t, <2>3, <2>4, <2>7 DEF Lags, Ages
  <2> QED BY <1>s, <2>1, <2>r, <2>6, <2>7 DEF SoundInv
<1> QED BY <1>1, <1>2, <1>3, <1>4, <1>5, <1>6, <1>7, <1>8 DEF HealthNext

(* On a path that answers in time no down edge is false, for all timings     *)
(* and cadences, in lazy mode neither after an idle gap                      *)
(* (healthcheck.go:125-134).                                                 *)
THEOREM NoFalseDowns == PromptPath => (HealthSpec => NoFalseDown)
<1> SUFFICES ASSUME PromptPath PROVE HealthSpec => NoFalseDown
  OBVIOUS
<1> DEFINE True == healthy /\ ~healthy' => soundAge <= Timeout + Lull
           Inv == Ages /\ HeardInv /\ ProbeInv /\ SoundInv
<1>1. HealthInit => Inv
  BY InitTyped, InitHeard, InitSound, TypeHalves
<1>2. Inv /\ [HealthNext]_healthVars => Inv'
  BY StepAges, StepHeard, StepProbe, StepSound
<1>3. Inv /\ [HealthNext]_healthVars => [True]_healthVars
  <2> SUFFICES ASSUME Ages, HeardInv, ProbeInv, SoundInv, HealthNext, healthy, ~healthy'
               PROVE  soundAge <= Timeout + Lull
    BY Zenon
  <2>t. /\ TickLen \in Nat \ {0} /\ Lull = 2 * TickLen /\ Timeout \in Nat /\ interval \in Nat
        /\ MaxRTT \in Nat /\ (interval = 0 => Timeout = 3 * TickLen)
    BY Timing, TimingAssumption DEF Ages
  <2>1. StepDown
    BY Zenon DEF HealthNext, Step, ReconnectDone, Resync, Seen, SentData, PathFails,
           PathHeals, Pass, state
  <2>2. tickAge = TickLen /\ Active /\ Silent > Timeout
    BY <2>1 DEF StepDown, Due, TooSilent
  <2>3. CASE interval > 0
    <3>1. seenAge > Timeout
      BY <2>2, <2>3, <2>t DEF Silent
    <3>2. MaxRTT + TickLen <= Timeout
      BY <2>3 DEF PromptPath, Ages, TickLen
    <3>3. \A a \in pings : a \in Nat /\ a <= MaxRTT
      BY <2>t DEF Ages
    <3> QED BY <2>2, <2>3, <2>t, <3>1, <3>2, <3>3 DEF SoundInv, Reach, Ages
  <2>4. CASE interval = 0
    <3>1. MaxRTT < TickLen
      BY <2>4, <2>t DEF PromptPath, Ages
    <3>2. pings = {}
      BY <2>2, <2>t, <3>1 DEF ProbeInv, Ages
    <3>3. wasActive /\ seenAge > Timeout
      BY <2>2, <2>4, <2>t DEF Silent, ActiveAge, Ages
    <3>4. PICK m \in Lags : Near(m)
      BY <2>4, <3>3 DEF SoundInv
    <3>5. m \in Nat /\ tickAge + m <= Timeout
      BY <2>2, <2>4, <2>t DEF Lags
    <3> QED BY <2>2, <2>t, <3>2, <3>3, <3>4, <3>5 DEF Near, Ages
  <2> QED BY <2>3, <2>4, <2>t
<1> QED BY <1>1, <1>2, <1>3, PTL DEF HealthSpec, NoFalseDown

=============================================================================
