--------------------------- MODULE FinalizerProofs ---------------------------
(* The safety properties of Finalizer, for any number of goroutines, flows,  *)
(* paths and any timing.                                                     *)
EXTENDS Finalizer, FiniteSetTheorems, TLAPS

(* What a goroutine took with it: the clock lagged the arrival by a tick at  *)
(* most, and the packet is not older than the slowest handling.              *)
JobInv(j) ==
  j # Idle => /\ j \in Job \/ j \in Taken
              /\ j.from <= now /\ now <= j.from + MaxStall /\ j.from <= j.at + ClockTick
              /\ j.at <= now

(* An entry's stamp trails the traffic it has seen by a bounded time.        *)
EntryInv(ip) ==
  /\ track[ip] \in Entry /\ bound[ip] \in Paths /\ used[ip] \in 0..now
  /\ track[ip].path = bound[ip]
  /\ used[ip] <= track[ip].seen + ClockTick + MaxStall

IInv ==
  /\ now \in 0..MaxTime /\ clock \in 0..now /\ now <= clock + ClockTick
  /\ job = [g \in Goroutines |-> job[g]] /\ \A g \in Goroutines : JobInv(job[g])
  /\ DOMAIN track \subseteq IPs /\ DOMAIN bound = DOMAIN track /\ DOMAIN used = DOMAIN track
  /\ track = [ip \in DOMAIN track |-> track[ip]]
  /\ bound = [ip \in DOMAIN track |-> bound[ip]] /\ used = [ip \in DOMAIN track |-> used[ip]]
  /\ \A ip \in DOMAIN track : EntryInv(ip)
  /\ awaited \subseteq IPs
  /\ IsFiniteSet(DOMAIN track) /\ FlowsCapped

(* The empty table.                                                          *)
LEMMA InitIInv == Init => IInv
  <1> SUFFICES ASSUME Init PROVE IInv
      OBVIOUS
  <1>1. DOMAIN track = {} /\ DOMAIN bound = {} /\ DOMAIN used = {}
      BY DEF Init
  <1>2. IsFiniteSet({}) /\ Cardinality({}) = 0
      BY FS_EmptySet
  <1>3. FlowsCapped
      BY <1>1, <1>2, TimeAssumption DEF FlowsCapped
  <1>4. \A g \in Goroutines : JobInv(job[g])
      BY DEF Init, JobInv
  <1> QED
      BY <1>1, <1>2, <1>3, <1>4, TimeAssumption DEF Init, IInv

(* Steps that leave the table alone: what is left is the clocks and one job. *)
LEMMA JobStep ==
  ASSUME IInv, NEW g \in Goroutines, NEW j,
         job' = [job EXCEPT ![g] = j], JobInv(j), awaited' \subseteq IPs,
         UNCHANGED <<now, clock, track, bound, used>>
  PROVE  IInv'
  <1>1. \A h \in Goroutines : JobInv(job[h])'
      BY DEF IInv, JobInv
  <1>2. \A ip \in DOMAIN track : EntryInv(ip)'
      BY DEF IInv, EntryInv
  <1> QED
      BY <1>1, <1>2 DEF IInv, FlowsCapped

(* Steps that write the entry of one tracked address, or touch its ghosts.   *)
LEMMA EntryStep ==
  ASSUME IInv, NEW g \in Goroutines, NEW j, NEW ip \in IPs,
         job' = [job EXCEPT ![g] = j], JobInv(j),
         UNCHANGED <<now, clock, awaited>>,
         NEW e, NEW b, NEW u,
         track' = Put(track, ip, e), bound' = Put(bound, ip, b), used' = Put(used, ip, u),
         e \in Entry, b \in Paths, u \in 0..now, e.path = b,
         u <= e.seen + ClockTick + MaxStall,
         ip \in DOMAIN track \/ MaxTrack = 0 \/ Cardinality(DOMAIN track) < MaxTrack
  PROVE  IInv'
  <1>1. \A h \in Goroutines : JobInv(job[h])'
      BY DEF IInv, JobInv
  <1>2. /\ DOMAIN track' = DOMAIN track \cup {ip}
        /\ DOMAIN bound' = DOMAIN track \cup {ip} /\ DOMAIN used' = DOMAIN track \cup {ip}
        /\ track'[ip] = e /\ bound'[ip] = b /\ used'[ip] = u
        /\ \A x \in DOMAIN track \ {ip} :
             track'[x] = track[x] /\ bound'[x] = bound[x] /\ used'[x] = used[x]
      BY DEF IInv, Put
  <1>3. \A x \in DOMAIN track' : EntryInv(x)'
    <2>1. EntryInv(ip)'
        BY <1>2 DEF EntryInv
    <2>2. ASSUME NEW x \in DOMAIN track, x # ip PROVE EntryInv(x)'
        BY <1>2, <2>2 DEF IInv, EntryInv
    <2> QED
        BY <1>2, <2>1, <2>2
  <1>4. /\ IsFiniteSet(DOMAIN track') /\ Cardinality(DOMAIN track) \in Nat
        /\ Cardinality(DOMAIN track') = IF ip \in DOMAIN track THEN Cardinality(DOMAIN track)
                                        ELSE Cardinality(DOMAIN track) + 1
      BY <1>2, FS_AddElement, FS_CardinalityType DEF IInv
  <1>5. FlowsCapped'
      BY <1>4, TimeAssumption DEF IInv, FlowsCapped
  <1>6. /\ track' = [x \in DOMAIN track' |-> track'[x]]
        /\ bound' = [x \in DOMAIN track' |-> bound'[x]]
        /\ used' = [x \in DOMAIN track' |-> used'[x]]
      BY <1>2 DEF Put, IInv
  <1> QED
      BY <1>1, <1>2, <1>3, <1>4, <1>5, <1>6 DEF IInv

(* Writing back what is there changes nothing.                               *)
LEMMA PutSame ==
  ASSUME NEW f, NEW D, f = [x \in D |-> f[x]], NEW y \in D
  PROVE  f = Put(f, y, f[y])
  BY DEF Put

(* The newer of two times, written back, is one of the two.                  *)
LEMMA NewerPut ==
  ASSUME IInv, NEW ip \in DOMAIN track, NEW t \in 0..now
  PROVE  \E u \in 0..now : Newer(used, ip, t) = Put(used, ip, u) /\ u \in {used[ip], t} /\ u >= t
  <1>1. used[ip] \in 0..now /\ DOMAIN used = DOMAIN track
      BY DEF IInv, EntryInv
  <1>2. CASE used[ip] > t
    <2>1. Put(used, ip, used[ip]) = used
        BY <1>1 DEF Put, IInv
    <2> QED
        BY <1>1, <1>2, <2>1 DEF Newer
  <1>3. CASE ~(used[ip] > t)
      BY <1>1, <1>3 DEF Newer
  <1> QED
      BY <1>2, <1>3

(* Every step preserves the invariant.                                       *)
LEMMA NextIInv == IInv /\ [Next]_vars => IInv'
  <1> SUFFICES ASSUME IInv, [Next]_vars PROVE IInv'
      OBVIOUS
  <1> USE TimeAssumption
  <1>0. ASSUME UNCHANGED vars PROVE IInv'
      BY <1>0 DEF vars, IInv, JobInv, EntryInv, FlowsCapped
  <1>a. Threads \subseteq Goroutines /\ "run" \in Goroutines
      BY DEF Goroutines
  <1>c. {MaxTrack, TTL, ClockTick, MaxStall, MaxTime, now, clock} \subseteq Nat /\ now <= MaxTime
      BY DEF IInv
  <1>b. JobInv(Idle)
      BY DEF JobInv
  <1>1. ASSUME NEW g \in Threads, NEW ip \in IPs, NEW p \in Paths, Submit(g, ip, p) PROVE IInv'
    <2> DEFINE j == [pc |-> "look", ip |-> ip, path |-> p, at |-> clock, from |-> now]
    <2>1. JobInv(j)
        BY DEF IInv, JobInv, Job
    <2> HIDE DEF j
    <2> QED
        BY <1>1, <1>a, <2>1, JobStep DEF Submit, j, IInv
  <1>2. ASSUME NEW g \in Threads, SubmitLook(g) PROVE IInv'
    <2> DEFINE o == job[g]
    <2> DEFINE n == IF Fresh(o) THEN "out" ELSE "store"
    <2>0. JobInv(o) /\ o # Idle /\ o.pc # "taken" /\ g \in Goroutines
        BY <1>2, <1>a DEF IInv, SubmitLook, Idle
    <2>1. /\ JobInv(o) /\ o \in Job /\ g \in Goroutines
          /\ o.from \in 0..now /\ o.at \in Nat
          /\ now <= o.from + MaxStall /\ o.from <= o.at + ClockTick
        BY <2>0, <1>c DEF JobInv, Job, Taken
    <2>2. job' = [job EXCEPT ![g] = [o EXCEPT !.pc = n]]
        BY <1>2, <2>1 DEF SubmitLook, IInv
    <2>3. JobInv([o EXCEPT !.pc = n])
        BY <2>1 DEF JobInv, Job, Idle
    <2>4. CASE ~Fresh(o)
        BY <1>2, <2>1, <2>2, <2>3, <2>4, JobStep DEF SubmitLook, IInv
    <2>5. CASE Fresh(o)
      <3>1. o.ip \in DOMAIN track /\ track[o.ip] = [path |-> o.path, seen |-> o.at] /\ o.ip \in IPs
          BY <2>5, <2>1 DEF Fresh, Job
      <3>3. PICK u \in 0..now : Newer(used, o.ip, o.from) = Put(used, o.ip, u)
                                /\ u \in {used[o.ip], o.from} /\ u >= o.from
          BY <3>1, <2>1, NewerPut
      <3>4. u <= track[o.ip].seen + ClockTick + MaxStall /\ track[o.ip] \in Entry
        <4>1. EntryInv(o.ip) /\ track[o.ip].seen = o.at
            BY <3>1 DEF IInv
        <4> QED
            BY <4>1, <3>3, <2>1, <1>c DEF EntryInv
      <3>5. track' = Put(track, o.ip, track[o.ip]) /\ track[o.ip].path = o.path
        <4>1. track = Put(track, o.ip, track[o.ip])
            BY <3>1, PutSame DEF IInv
        <4> QED
            BY <1>2, <3>1, <4>1 DEF SubmitLook
      <3>6. used' = Put(used, o.ip, u) /\ bound' = Put(bound, o.ip, o.path)
            /\ UNCHANGED <<now, clock, awaited>>
          BY <1>2, <2>5, <3>3 DEF SubmitLook
      <3>7. o.path \in Paths
          BY <2>1 DEF Job
      <3> HIDE DEF o, n
      <3> QED
          BY <2>1, <2>2, <2>3, <3>1, <3>3, <3>4, <3>5, <3>6, <3>7, EntryStep
    <2> QED
        BY <2>4, <2>5
  <1>3. ASSUME NEW g \in Threads, SubmitStore(g) PROVE IInv'
    <2> DEFINE o == job[g]
    <2>0. JobInv(o) /\ o # Idle /\ o.pc # "taken" /\ g \in Goroutines
        BY <1>3, <1>a DEF IInv, SubmitStore, Idle
    <2>1. /\ JobInv(o) /\ o \in Job /\ g \in Goroutines
          /\ o.from \in 0..now /\ o.at \in Nat
          /\ now <= o.from + MaxStall /\ o.from <= o.at + ClockTick
        BY <2>0, <1>c DEF JobInv, Job, Taken
    <2>2. job' = [job EXCEPT ![g] = [o EXCEPT !.pc = "out"]]
        BY <1>3, <2>1 DEF SubmitStore, IInv
    <2>3. JobInv([o EXCEPT !.pc = "out"])
        BY <2>1 DEF JobInv, Job, Idle
    <2>4. CASE ~Admitted(o)
        BY <1>3, <2>1, <2>2, <2>3, <2>4, JobStep DEF SubmitStore, IInv
    <2>5. CASE Admitted(o)
      <3> DEFINE e == [path |-> o.path, seen |-> o.at]
      <3>1. e \in Entry /\ e.path = o.path /\ e.seen = o.at /\ o.ip \in IPs /\ o.path \in Paths
          BY <2>1 DEF Entry, Job
      <3>3. PICK u \in 0..now : Newer(used, o.ip, o.from) = Put(used, o.ip, u)
        <4>1. CASE o.ip \in DOMAIN track
            BY <4>1, <2>1, NewerPut
        <4>2. CASE o.ip \notin DOMAIN track
            BY <4>2, <2>1 DEF Newer, IInv
        <4> QED
            BY <4>1, <4>2
      <3>4. u <= e.seen + ClockTick + MaxStall
          BY <2>1, <3>1, <3>3, <1>c
      <3>5. /\ track' = Put(track, o.ip, e) /\ bound' = Put(bound, o.ip, o.path)
            /\ used' = Put(used, o.ip, u) /\ UNCHANGED <<now, clock, awaited>>
          BY <1>3, <2>5, <3>3 DEF SubmitStore
      <3>6. o.ip \in DOMAIN track \/ MaxTrack = 0 \/ Cardinality(DOMAIN track) < MaxTrack
          BY <2>5 DEF Admitted
      <3> HIDE DEF o, e
      <3> QED
          BY <2>1, <2>2, <2>3, <3>1, <3>3, <3>4, <3>5, <3>6, EntryStep, Zenon
    <2> QED
        BY <2>4, <2>5
  <1>4. ASSUME NEW g \in Threads, Inject(g) PROVE IInv'
    <2>1. job[g] \in Job
        BY <1>4, <1>a DEF IInv, JobInv, Inject, Idle, Taken
    <2>2. awaited' \subseteq IPs
        BY <1>4, <2>1 DEF Inject, IInv, Job
    <2> QED
        BY <1>4, <1>a, <1>b, <2>2, JobStep, Zenon DEF Inject
  <1>t. ASSUME NEW ip \in IPs, ReplyTake(ip) PROVE IInv'
    <2> DEFINE j == [pc |-> "taken", ip |-> ip, at |-> clock, from |-> now]
    <2>1. JobInv(j)
        BY <1>c DEF JobInv, Taken, IInv
    <2>2. /\ job' = [job EXCEPT !["run"] = j] /\ awaited' \subseteq IPs
          /\ UNCHANGED <<now, clock, track, bound, used>>
        BY <1>t DEF ReplyTake, IInv
    <2> QED
        BY <1>a, <2>1, <2>2, JobStep
  <1>5. ASSUME ReplyLook PROVE IInv'
    <2> DEFINE o == job["run"]
               p == IF track[o.ip].seen = o.at THEN "out" ELSE "store"
               j == [pc |-> p, ip |-> o.ip, path |-> track[o.ip].path, at |-> o.at, from |-> o.from]
    <2>0. JobInv(o) /\ o # Idle /\ o.pc = "taken"
        BY <1>5, <1>a DEF IInv, ReplyLook, Idle
    <2>1. /\ o.ip \in IPs /\ o.from \in 0..now /\ o.at \in 0..MaxTime /\ o.at <= now
          /\ now <= o.from + MaxStall /\ o.from <= o.at + ClockTick
        BY <2>0, <1>c DEF JobInv, Job, Taken
    <2>2. CASE o.ip \notin DOMAIN track
      <3>1. job' = [job EXCEPT !["run"] = Idle] /\ UNCHANGED <<now, clock, track, bound, used, awaited>>
          BY <1>5, <2>2 DEF ReplyLook
      <3> QED
          BY <1>a, <1>b, <3>1, JobStep DEF IInv
    <2>3. CASE o.ip \in DOMAIN track
      <3>1. EntryInv(o.ip) /\ job' = [job EXCEPT !["run"] = j] /\ UNCHANGED <<now, clock, awaited>>
          BY <1>5, <2>3 DEF ReplyLook, IInv
      <3>2. track[o.ip] \in Entry /\ bound[o.ip] \in Paths /\ track[o.ip].path = bound[o.ip]
          BY <3>1 DEF EntryInv
      <3>3. j \in Job
          BY <2>1, <3>2, <1>c DEF Job
      <3>4. JobInv(j)
          BY <2>1, <3>3, <1>c DEF JobInv
      <3>5. CASE track[o.ip].seen # o.at
        <4>1. UNCHANGED <<track, bound, used>>
            BY <1>5, <2>3, <3>5 DEF ReplyLook
        <4> HIDE DEF j
        <4> QED
            BY <1>a, <3>1, <3>4, <4>1, JobStep DEF IInv
      <3>6. CASE track[o.ip].seen = o.at
        <4>1. PICK u \in 0..now : /\ Newer(used, o.ip, o.from) = Put(used, o.ip, u)
                                  /\ u \in {used[o.ip], o.from} /\ u >= o.from
            BY <2>1, <2>3, NewerPut
        <4>2. u <= track[o.ip].seen + ClockTick + MaxStall
            BY <2>1, <3>6, <4>1, <1>c
        <4>3. track = Put(track, o.ip, track[o.ip]) /\ bound = Put(bound, o.ip, bound[o.ip])
            BY <2>3, PutSame DEF IInv
        <4>4. /\ track' = Put(track, o.ip, track[o.ip]) /\ bound' = Put(bound, o.ip, bound[o.ip])
              /\ used' = Put(used, o.ip, u)
            BY <1>5, <2>3, <3>6, <4>1, <4>3 DEF ReplyLook
        <4> HIDE DEF j, o
        <4> QED
            BY <1>a, <2>1, <2>3, <3>1, <3>2, <3>4, <4>1, <4>2, <4>4, EntryStep, Zenon
      <3> QED
          BY <3>5, <3>6
    <2> QED
        BY <2>2, <2>3
  <1>6. ASSUME ReplyBump PROVE IInv'
    <2> DEFINE o == job["run"]
    <2>0. JobInv(o) /\ o # Idle /\ o.pc # "taken"
        BY <1>6, <1>a DEF IInv, ReplyBump, Idle
    <2>1. /\ o \in Job /\ o.from \in 0..now /\ o.at \in 0..MaxTime
          /\ now <= o.from + MaxStall /\ o.from <= o.at + ClockTick
        BY <2>0, <1>c DEF JobInv, Job, Taken
    <2>2. job' = [job EXCEPT !["run"] = [o EXCEPT !.pc = "out"]]
        BY <1>6, <1>a DEF ReplyBump, IInv
    <2>3. JobInv([o EXCEPT !.pc = "out"])
        BY <2>0, <2>1 DEF JobInv, Job, Idle
    <2>4. CASE o.ip \notin DOMAIN track
        BY <1>6, <1>a, <2>2, <2>3, <2>4, JobStep DEF ReplyBump, IInv
    <2>5. CASE o.ip \in DOMAIN track
      <3> DEFINE e == [track[o.ip] EXCEPT !.seen = o.at]
      <3>1. EntryInv(o.ip) /\ o.ip \in IPs
          BY <2>5 DEF IInv
      <3>2. e \in Entry /\ e.path = bound[o.ip] /\ e.seen = o.at /\ bound[o.ip] \in Paths
          BY <3>1, <2>1 DEF EntryInv, Entry
      <3>3. PICK u \in 0..now : Newer(used, o.ip, o.from) = Put(used, o.ip, u)
          BY <2>5, <2>1, NewerPut
      <3>4. u <= e.seen + ClockTick + MaxStall
          BY <2>1, <3>2, <3>3, <1>c
      <3>5. /\ track' = Put(track, o.ip, e) /\ bound' = Put(bound, o.ip, bound[o.ip])
            /\ used' = Put(used, o.ip, u) /\ UNCHANGED <<now, clock, awaited>>
          BY <1>6, <2>5, <3>3 DEF ReplyBump, Put, IInv
      <3> HIDE DEF o, e
      <3> QED
          BY <1>a, <2>2, <2>3, <2>5, <3>1, <3>2, <3>3, <3>4, <3>5, EntryStep, Zenon
    <2> QED
        BY <2>4, <2>5
  <1>7. ASSUME ReplySend PROVE IInv'
      BY <1>7, <1>a, <1>b, JobStep DEF ReplySend, IInv
  <1>8. ASSUME GC PROVE IInv'
    <2> DEFINE kept == {ip \in DOMAIN track : ~Expired(ip)}
    <2>1. /\ track' = [x \in kept |-> track[x]] /\ bound' = [x \in kept |-> bound[x]]
          /\ used' = [x \in kept |-> used[x]] /\ UNCHANGED <<now, clock, job, awaited>>
        BY <1>8 DEF GC, Restrict
    <2>2. kept \in SUBSET DOMAIN track
        OBVIOUS
    <2>3. IsFiniteSet(kept) /\ Cardinality(kept) <= Cardinality(DOMAIN track)
          /\ Cardinality(kept) \in Nat /\ Cardinality(DOMAIN track) \in Nat
        BY <2>2, FS_Subset, FS_CardinalityType DEF IInv
    <2> HIDE DEF kept
    <2>4. FlowsCapped'
        BY <2>1, <2>3 DEF IInv, FlowsCapped
    <2>5. \A ip \in kept : EntryInv(ip)'
        BY <2>1, <2>2 DEF IInv, EntryInv
    <2>6. \A g \in Goroutines : JobInv(job[g])'
        BY <2>1 DEF IInv, JobInv
    <2> QED
        BY <2>1, <2>2, <2>3, <2>4, <2>5, <2>6 DEF IInv
  <1>9. ASSUME RefreshClock \/ Pass PROVE IInv'
    <2>1. /\ now' \in 0..MaxTime /\ clock' \in 0..now' /\ now' <= clock' + ClockTick /\ now <= now'
          /\ UNCHANGED <<track, job, awaited, bound, used>>
        BY <1>9, <1>c DEF RefreshClock, Pass, IInv
    <2>2. \A g \in Goroutines : JobInv(job[g])'
      <3> SUFFICES ASSUME NEW g \in Goroutines, job[g] # Idle PROVE JobInv(job[g])'
          BY <2>1 DEF JobInv
      <3>1. /\ job[g] \in Job \/ job[g] \in Taken
            /\ job[g].from <= now /\ now <= job[g].from + MaxStall
            /\ job[g].from <= job[g].at + ClockTick /\ job[g].at <= now
          BY DEF IInv, JobInv
      <3>2. now' <= job[g].from + MaxStall
          BY <1>9, <3>1, <1>c DEF RefreshClock, Pass, Job, Taken
      <3> QED
          BY <2>1, <3>1, <3>2, <1>c DEF JobInv, Job, Taken
    <2>3. \A ip \in DOMAIN track : EntryInv(ip)'
        BY <2>1, <1>c DEF IInv, EntryInv
    <2> QED
        BY <2>1, <2>2, <2>3 DEF IInv, FlowsCapped
  <1> QED
      BY <1>0, <1>1, <1>2, <1>3, <1>4, <1>t, <1>5, <1>6, <1>7, <1>8, <1>9 DEF Next

(* finalizer.go:42-61: the table, the goroutines' packets and the ghosts keep *)
(* their types.                                                              *)
THEOREM FinalizerTypes == Spec => []TypeOK
  <1>1. IInv => TypeOK
    <2> SUFFICES ASSUME IInv PROVE TypeOK
        OBVIOUS
    <2>1. \A ip \in DOMAIN track :
            track[ip] \in Entry /\ bound[ip] \in Paths /\ used[ip] \in 0..now
        BY DEF IInv, EntryInv
    <2>2. \A g \in Goroutines : job[g] \in {Idle} \cup Taken \cup Job
        BY DEF IInv, JobInv
    <2>3. job \in [Goroutines -> {Idle} \cup Taken \cup Job]
        BY <2>2, Zenon DEF IInv
    <2>4. bound \in [DOMAIN track -> Paths]
        BY <2>1, Zenon DEF IInv
    <2>5. used \in [DOMAIN track -> 0..now]
        BY <2>1, Zenon DEF IInv
    <2> QED
        BY <2>1, <2>3, <2>4, <2>5 DEF IInv, TypeOK
  <1> QED
      BY InitIInv, NextIInv, <1>1, PTL DEF Spec

(* finalizer.go:117-126: the table never exceeds its cap, however many new   *)
(* flows arrive at once.                                                     *)
THEOREM TableBounded == Spec => []FlowsCapped
  <1>1. IInv => FlowsCapped
      BY DEF IInv
  <1> QED
      BY InitIInv, NextIInv, <1>1, PTL DEF Spec

(* finalizer.go:171-180: no reply brings back a path that was replaced.      *)
THEOREM RebindHolds == Spec => []LatestPath
  <1>1. IInv => LatestPath
      BY DEF IInv, LatestPath, EntryInv
  <1> QED
      BY InitIInv, NextIInv, <1>1, PTL DEF Spec

(* finalizer.go:189-201: GC takes no flow that was used within the ttl, less *)
(* the lag of the coarse clock and of a slow goroutine.                      *)
THEOREM NoEarlyExpiry == Spec => ActiveFlowKept
  <1>1. IInv /\ [Next]_vars =>
          [\A ip \in DOMAIN track \ DOMAIN track' : now - used[ip] > TTL - ClockTick - MaxStall]_vars
    <2> SUFFICES ASSUME IInv, Next, NEW ip \in DOMAIN track, ip \notin DOMAIN track'
                 PROVE  now - used[ip] > TTL - ClockTick - MaxStall
        BY DEF vars
    <2>1. CASE GC
      <3>1. track[ip].seen < now - TTL
          BY <2>1 DEF GC, Expired, Restrict
      <3>2. EntryInv(ip) /\ {TTL, ClockTick, MaxStall, MaxTime, now} \subseteq Nat
          BY TimeAssumption DEF IInv
      <3> QED
          BY <3>1, <3>2 DEF EntryInv, Entry
    <2>2. CASE ~GC
      <3>1. track' = track \/ \E x, v : track' = Put(track, x, v) \/ track' = [track EXCEPT ![x].seen = v]
          BY <2>2 DEF Next, Submit, SubmitLook, SubmitStore, Inject, ReplyTake, ReplyLook, ReplyBump, ReplySend,
             RefreshClock, Pass
      <3> QED
          BY <3>1, Zenon DEF Put
    <2> QED
        BY <2>1, <2>2
  <1> QED
      BY InitIInv, NextIInv, <1>1, PTL DEF Spec, ActiveFlowKept

=============================================================================
