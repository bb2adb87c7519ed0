--------------------------- MODULE HandoverProofs ---------------------------
(***************************************************************************)
(* TakeExclusive keeps two instances from running a datapath at once, for  *)
(* any number of pids.  The argument: of two processes that have both      *)
(* listed /proc, the later listing saw the earlier process, so at least    *)
(* one of them still waits for the other (SomeoneWaits).  Giving up on a   *)
(* survivor is sound because the survivor was killed, or is a new process  *)
(* with the old pid, which waits in its turn (ReuseWaits, OneForces).      *)
(*                                                                         *)
(* The host with all that its processes do to it is then shown to take     *)
(* only steps of the handover, which carries the exclusion over to the     *)
(* scripts, the undo chains and the reloads.                               *)
(***************************************************************************)
EXTENDS Host, TLAPS

\* Has listed /proc and still runs.
Listed(p) == stage[p] \in {"signal", "wait", "links", "own"}

Waits(p, q) == stage[p] \in {"signal", "wait"} /\ q \in seen[p]

Forces(p, q) == stage[p] = "wait" /\ forced[p] /\ q \in seen[p]

SomeoneWaits ==
    \A p, q \in Procs : p # q /\ Listed(p) /\ Listed(q) => Waits(p, q) \/ Waits(q, p)

ReuseWaits ==
    \A p, q \in Procs : p # q /\ Forces(p, q) /\ Listed(q) => Waits(q, p)

OneForces ==
    \A p, q \in Procs : p # q /\ Forces(p, q) => ~ Forces(q, p)

NotSelf == \A p \in Procs : p \notin seen[p]

\* waitGone's flag belongs to one call.
FlagFresh == \A p \in Procs : stage[p] \in {"off", "start", "signal", "dead"} => ~forced[p]

HandoverInv == /\ HandoverTypeOK /\ SomeoneWaits /\ ReuseWaits
               /\ OneForces /\ NotSelf /\ FlagFresh

\* No process exists at first.
LEMMA InvInit == HandoverInit => HandoverInv
  BY DEF HandoverInit, HandoverInv, HandoverTypeOK, SomeoneWaits, ReuseWaits,
         OneForces, NotSelf, FlagFresh, Stages, Listed, Forces

\* A process that leaves releases nobody else's wait.
LEMMA GoneKeepsInv ==
  ASSUME HandoverInv, NEW p \in Procs, Gone(p)
  PROVE  HandoverInv'
  BY DEF Gone, HandoverInv, HandoverTypeOK, SomeoneWaits, ReuseWaits,
         OneForces, NotSelf, FlagFresh, Stages, Listed, Waits, Forces

\* Every step of the handover keeps the invariant.
LEMMA InvNext == HandoverInv /\ [HandoverNext]_handover => HandoverInv'
  <1> SUFFICES ASSUME HandoverInv, [HandoverNext]_handover PROVE HandoverInv'
    OBVIOUS
  <1> USE DEF HandoverInv, HandoverTypeOK, SomeoneWaits, ReuseWaits, OneForces,
              NotSelf, FlagFresh, Stages, Listed, Waits, Forces
  <1>1. ASSUME NEW p \in Procs, Start(p) PROVE HandoverInv'
    BY <1>1 DEF Start, Move
  <1>2. ASSUME NEW p \in Procs, Scan(p) PROVE HandoverInv'
    <2>1. PICK killed \in SUBSET (Present \ Running) :
             LET others == (Running \cup killed) \ {p} IN
             /\ seen' = [seen EXCEPT ![p] = others]
             /\ Move(p, IF others = {} THEN "links" ELSE "signal")
      BY <1>2, Zenon DEF Scan
    <2> DEFINE others == (Running \cup killed) \ {p}
    <2>2. /\ p \notin others
          /\ others \subseteq Procs
          /\ \A q \in Procs : q # p /\ Listed(q) => q \in others
      BY DEF Running, Present
    <2>3. stage[p] = "start" /\ UNCHANGED <<term, forced>>
      BY <1>2, <2>1 DEF Scan, Move
    <2> HIDE DEF others
    <2>4. CASE others = {}
      BY <2>1, <2>2, <2>3, <2>4 DEF Move, others
    <2>5. CASE others # {}
      <3>1. stage' = [stage EXCEPT ![p] = "signal"] /\ seen' = [seen EXCEPT ![p] = others]
        BY <2>1, <2>5, Zenon DEF Move, others
      <3> QED BY <2>2, <2>3, <3>1
    <2> QED BY <2>4, <2>5
  <1>3. ASSUME NEW p \in Procs, ScanFails(p) PROVE HandoverInv'
    BY <1>3, GoneKeepsInv DEF ScanFails
  <1>4. ASSUME NEW p \in Procs, Terminate(p) PROVE HandoverInv'
    BY <1>4 DEF Terminate
  <1>5. ASSUME NEW p \in Procs, WaitGone(p) PROVE HandoverInv'
    <2>1. \A q \in seen[p] : ~Listed(q)
      BY <1>5 DEF WaitGone, live, Present
    <2> QED BY <1>5, <2>1 DEF WaitGone, Move
  <1>6. ASSUME NEW p \in Procs, ForceKill(p) PROVE HandoverInv'
    <2>1. \A q \in Procs : q \in seen[p] => ~Listed(q)'
      BY <1>6 DEF ForceKill, live, Present
    <2>2. \A q \in Procs : q \in live(p) => q \in seen[p]
      BY DEF live
    <2>3. p \notin live(p)
      BY DEF live
    <2> QED BY <1>6, <2>1, <2>2, <2>3 DEF ForceKill
  <1>7. ASSUME NEW p \in Procs, ProceedAnyway(p) PROVE HandoverInv'
    <2>1. \A q \in Procs : q # p /\ Listed(q) => Waits(q, p)
      BY <1>7 DEF ProceedAnyway
    <2> QED BY <1>7, <2>1 DEF ProceedAnyway, Move
  <1>8. ASSUME NEW p \in Procs, Interrupted(p) PROVE HandoverInv'
    BY <1>8, GoneKeepsInv DEF Interrupted
  <1>9. ASSUME NEW p \in Procs, LinksReady(p) PROVE HandoverInv'
    BY <1>9 DEF LinksReady, Move
  <1>10. ASSUME NEW p \in Procs, Signalled(p) PROVE HandoverInv'
    BY <1>10 DEF Signalled
  <1>11. ASSUME NEW p \in Procs, Crash(p) \/ Reaped(p) \/ RunReturns(p) PROVE HandoverInv'
    BY <1>11, GoneKeepsInv DEF Crash, Reaped, RunReturns
  <1>12. CASE UNCHANGED handover
    BY <1>12 DEF handover
  <1> QED BY <1>1, <1>2, <1>3, <1>4, <1>5, <1>6, <1>7, <1>8, <1>9, <1>10, <1>11,
             <1>12, Zenon DEF HandoverNext, Boot

\* Two owners would both have stopped waiting.
LEMMA InvOneOwner == HandoverInv => OneOwner
  BY DEF HandoverInv, SomeoneWaits, Listed, Waits, OneOwner

\* singleton.TakeExclusive and netwait.Wait let at most one process run a
\* datapath, for every set of pids.
THEOREM OneOwnerAlways == HandoverSpec => []OneOwner
  BY InvInit, InvNext, InvOneOwner, PTL DEF HandoverSpec

-----------------------------------------------------------------------------
(* The host.                                                               *)

\* Every step of the host is a step of the handover or leaves it alone.
LEMMA HostStepIsHandover == [Next]_hostVars => [HandoverNext]_handover
  <1> SUFFICES ASSUME [Next]_hostVars PROVE [HandoverNext]_handover
    OBVIOUS
  <1>1. ASSUME NEW p \in Procs, BootStep(p) PROVE HandoverNext
    BY <1>1 DEF BootStep, HandoverNext, Boot
  <1>2. ASSUME NEW p \in Procs, KillStep(p) PROVE HandoverNext
    BY <1>2 DEF KillStep, HandoverNext
  <1>3. ASSUME NEW p \in Procs, CrashStep(p) \/ ReapStep(p) PROVE HandoverNext
    BY <1>3 DEF CrashStep, ReapStep, HandoverNext
  <1>4. ASSUME NEW p \in Procs, RunStarts(p) PROVE HandoverNext
    BY <1>4 DEF RunStarts, HandoverNext, Boot
  <1>5. ASSUME NEW p \in Procs, Applies(p) \/ ApplyFails(p) \/ Stops(p) \/ Undoes(p)
        PROVE  UNCHANGED handover
    BY <1>5, Zenon DEF Applies, ApplyFails, Stops, Undoes
  <1>6. ASSUME NEW p \in Procs, Exits(p) PROVE HandoverNext
    BY <1>6 DEF Exits, HandoverNext
  <1>7. ASSUME NEW w \in Reloaders, ReloadStep(w) PROVE UNCHANGED handover
    BY <1>7 DEF ReloadStep, LockFlush, ReadPrefixes, RunBatch
  <1>8. ASSUME OperatorStops PROVE HandoverNext
    BY <1>8 DEF OperatorStops, HandoverNext
  <1>9. ASSUME Rewrite \/ Hangup \/ TakeHup \/ Tick PROVE UNCHANGED handover
    BY <1>9 DEF Rewrite, Hangup, TakeHup, Tick
  <1>10. CASE UNCHANGED hostVars
    BY <1>10 DEF hostVars
  <1> QED BY <1>1, <1>2, <1>3, <1>4, <1>5, <1>6, <1>7, <1>8, <1>9, <1>10
         DEF Next, MainStep, DatapathStep

\* What a process does to the host once runNode has reached the datapath,
\* what kills it and what its reloads do, is invisible to the handover: the
\* host implements it.
THEOREM HostImplementsHandover == Spec => HandoverSpec
  <1>1. Init => HandoverInit
    BY DEF Init
  <1> QED BY <1>1, HostStepIsHandover, PTL DEF Spec, HandoverSpec

\* At most one process runs a datapath on the host, whatever the config, the
\* crashes, the kills and the reloads.
THEOREM HostOneOwner == Spec => []OneOwner
  BY HostImplementsHandover, OneOwnerAlways, PTL

\* A process has a script or an undo chain to run exactly while the handover
\* counts it as the owner.
OwnerConfigures ==
    /\ phase \in [Procs -> {"none", "apply", "up", "undo"}]
    /\ \A p \in Procs : phase[p] # "none" <=> stage[p] = "own"

\* The reloading goroutines of watchReload, whoever's they are, do nothing and
\* have nothing to do.
Quiet == ~hup /\ holder = Nobody /\ buf = <<>> /\ \A w \in Reloaders : queue[w] = <<>>

\* Reloads exist only beside a datapath that has been fully applied; the lock
\* is held only over a set, and a list has been read only under the lock.
ReloadsServed ==
    /\ queue = [w \in Reloaders |-> queue[w]]
    /\ Serving \/ Quiet
    /\ holder \in Reloaders \cup {Nobody}
    /\ holder # Nobody => queue[holder] # <<>>
    /\ buf # <<>> => holder # Nobody

\* No two processes have commands to run, so no two scripts or undo chains
\* interleave on the host.
OneDatapath == \A p, q \in Procs : phase[p] # "none" /\ phase[q] # "none" => p = q

\* A reload writes the tables only while the one datapath on the host is up or
\* on its way down: never during an apply, nor after the process has gone.
ReloadsOwned ==
    holder # Nobody =>
        \E p \in Procs : /\ phase[p] \in {"up", "undo"}
                         /\ \A q \in Procs \ {p} : phase[q] = "none"

\* The steps of runNode before the datapath neither make nor unmake an owner.
LEMMA BootKeepsOwners ==
  ASSUME HandoverTypeOK, NEW p \in Procs, BootStep(p)
  PROVE  \A q \in Procs : stage'[q] = "own" <=> stage[q] = "own"
  BY DEF HandoverTypeOK, BootStep, Start, Scan, ScanFails, Terminate, WaitGone,
         ProceedAnyway, Interrupted, Move, Gone

\* SIGKILL from waitGone takes the ownership of those it hits, and of no other.
LEMMA KillKeepsOthers ==
  ASSUME HandoverTypeOK, NEW p \in Procs, ForceKill(p)
  PROVE  \A q \in Procs : stage'[q] = "own" <=> stage[q] = "own" /\ q \notin live(p)
  BY DEF HandoverTypeOK, ForceKill

\* A script begins with the ownership and ends with it.
LEMMA OwnerNext ==
  ASSUME HandoverTypeOK, OwnerConfigures, [Next]_hostVars
  PROVE  OwnerConfigures'
  <1> USE DEF OwnerConfigures, HandoverTypeOK
  <1>1. ASSUME NEW p \in Procs, BootStep(p) PROVE OwnerConfigures'
    <2>1. UNCHANGED phase
      BY <1>1 DEF BootStep, proc
    <2> QED BY <1>1, <2>1, BootKeepsOwners, SMTT(20)
  <1>2. ASSUME NEW p \in Procs, KillStep(p) PROVE OwnerConfigures'
    BY <1>2, KillKeepsOthers DEF KillStep, Die
  <1>3. ASSUME NEW p \in Procs, CrashStep(p) PROVE OwnerConfigures'
    BY <1>3 DEF CrashStep, Crash, Gone, Die
  <1>4. ASSUME NEW p \in Procs, ReapStep(p) PROVE OwnerConfigures'
    BY <1>4 DEF ReapStep, Reaped, Gone, proc
  <1>5. ASSUME NEW p \in Procs, RunStarts(p) PROVE OwnerConfigures'
    BY <1>5 DEF RunStarts, LinksReady, Move
  <1>6. ASSUME NEW p \in Procs, Applies(p) \/ ApplyFails(p) \/ Stops(p) \/ Undoes(p)
        PROVE  OwnerConfigures'
    <2>1. UNCHANGED stage
      BY <1>6, Zenon DEF Applies, ApplyFails, Stops, Undoes, handover
    <2>2. /\ phase[p] \in {"apply", "up", "undo"}
          /\ \/ UNCHANGED phase
             \/ phase' = [phase EXCEPT ![p] = "up"]
             \/ phase' = [phase EXCEPT ![p] = "undo"]
      BY <1>6, Zenon DEF Applies, ApplyFails, Stops, Undoes
    <2> QED BY <2>1, <2>2
  <1>7. ASSUME NEW p \in Procs, Exits(p) PROVE OwnerConfigures'
    BY <1>7 DEF Exits, RunReturns, Gone
  <1>8. ASSUME \/ \E w \in Reloaders : ReloadStep(w)
               \/ OperatorStops \/ Rewrite \/ Hangup \/ TakeHup \/ Tick
               \/ UNCHANGED hostVars
        PROVE  OwnerConfigures'
    <2>1. UNCHANGED <<stage, phase>>
      BY <1>8, Zenon DEF ReloadStep, LockFlush, ReadPrefixes, RunBatch, OperatorStops, Signalled,
                  Rewrite, Hangup, TakeHup, Tick, handover, proc, hostVars
    <2> QED BY <2>1
  <1> QED BY <1>1, <1>2, <1>3, <1>4, <1>5, <1>6, <1>7, <1>8
         DEF Next, MainStep, DatapathStep

\* A step that leaves the reloads alone, and every served datapath where it is
\* or further, keeps the reloads served.
LEMMA ServedStays ==
  ASSUME ReloadsServed, UNCHANGED reload,
         \A q \in Procs : stage[q] = "own" /\ phase[q] \in {"up", "undo"}
                            => stage'[q] = "own" /\ phase'[q] \in {"up", "undo"}
  PROVE  ReloadsServed'
  BY DEF ReloadsServed, reload, Serving, Quiet

\* When the reloading goroutines end with their process nothing is pending.
LEMMA IdleIsServed ==
  ASSUME Idle
  PROVE  ReloadsServed'
  BY DEF Idle, ReloadsServed, Quiet

\* A death either ends the reloads or hits nobody that serves.
LEMMA DeathServes ==
  ASSUME ReloadsServed, NEW gone, NEW freed, Die(gone, freed),
         \A q \in Procs : stage[q] = "own" /\ q \notin gone => stage'[q] = "own"
  PROVE  ReloadsServed'
  <1>1. CASE \E p \in gone : phase[p] # "none"
    BY <1>1, IdleIsServed DEF Die
  <1>2. CASE ~ \E p \in gone : phase[p] # "none"
    <2>1. UNCHANGED reload
      BY <1>2 DEF Die
    <2>2. \A q \in Procs : stage[q] = "own" /\ phase[q] \in {"up", "undo"}
                             => stage'[q] = "own" /\ phase'[q] \in {"up", "undo"}
      BY <1>2 DEF Die
    <2> QED BY <2>1, <2>2, ServedStays
  <1> QED BY <1>1, <1>2

\* loadGeo and watchReload: a load begins with the lock and a set, and ends
\* with the lock released.
LEMMA ReloadNext ==
  ASSUME HandoverTypeOK, OwnerConfigures, ReloadsServed, [Next]_hostVars
  PROVE  ReloadsServed'
  <1> USE DEF HandoverTypeOK, OwnerConfigures
  <1>1. ASSUME NEW p \in Procs, BootStep(p) PROVE ReloadsServed'
    <2>1. UNCHANGED <<phase, reload>>
      BY <1>1 DEF BootStep, proc
    <2> QED BY <1>1, <2>1, BootKeepsOwners, ServedStays, SMTT(20)
  <1>2. ASSUME NEW p \in Procs, KillStep(p) PROVE ReloadsServed'
    BY <1>2, KillKeepsOthers, DeathServes DEF KillStep
  <1>3. ASSUME NEW p \in Procs, CrashStep(p) PROVE ReloadsServed'
    BY <1>3, DeathServes DEF CrashStep, Crash, Gone
  <1>4. ASSUME NEW p \in Procs, ReapStep(p) PROVE ReloadsServed'
    BY <1>4, ServedStays DEF ReapStep, Reaped, Gone, proc
  <1>5. ASSUME NEW p \in Procs, RunStarts(p) PROVE ReloadsServed'
    BY <1>5, ServedStays DEF RunStarts, LinksReady, Move
  <1>6. ASSUME NEW p \in Procs, Applies(p) \/ ApplyFails(p) \/ Stops(p) \/ Undoes(p)
        PROVE  ReloadsServed'
    <2>1. UNCHANGED <<stage, reload>>
      BY <1>6, Zenon DEF Applies, ApplyFails, Stops, Undoes, handover
    <2>2. \/ UNCHANGED phase
          \/ phase' = [phase EXCEPT ![p] = "up"]
          \/ phase' = [phase EXCEPT ![p] = "undo"]
      BY <1>6, Zenon DEF Applies, ApplyFails, Stops, Undoes
    <2> QED BY <2>1, <2>2, ServedStays
  <1>7. ASSUME NEW p \in Procs, Exits(p) PROVE ReloadsServed'
    BY <1>7, IdleIsServed DEF Exits
  <1>8. ASSUME NEW w \in Reloaders, ReloadStep(w) PROVE ReloadsServed'
    <2>1. UNCHANGED <<stage, phase, hup>> /\ Serving
      BY <1>8 DEF ReloadStep, LockFlush, ReadPrefixes, RunBatch, handover, proc,
                  ReloadsServed, Quiet, Reloaders, Nobody
    <2>2. Serving'
      BY <2>1 DEF Serving
    <2>3. CASE LockFlush(w)
      BY <2>2, <2>3 DEF LockFlush, ReloadsServed
    <2>4. CASE Unlock(w)
      BY <2>2, <2>4, Zenon DEF Unlock, ReloadsServed
    <2>5. CASE ReadPrefixes(w) /\ ~Unlock(w)
      BY <2>2, <2>5 DEF ReadPrefixes, ReloadsServed, Reloaders, Nobody
    <2> QED BY <1>8, <2>3, <2>4, <2>5, SMTT(20) DEF ReloadStep, RunBatch
  <1>9. ASSUME TakeHup \/ Tick PROVE ReloadsServed'
    <2>1. UNCHANGED <<stage, phase, holder, buf>> /\ Serving
      BY <1>9 DEF TakeHup, Tick, handover, proc
    <2>2. Serving'
      BY <2>1 DEF Serving
    <2>3. PICK w \in Reloaders :
            queue[w] = <<>> /\ \E load : queue' = [queue EXCEPT ![w] = load]
      BY <1>9 DEF TakeHup, Tick, Reloaders
    <2> QED BY <2>1, <2>2, <2>3 DEF ReloadsServed
  <1>10. ASSUME Hangup PROVE ReloadsServed'
    <2>1. UNCHANGED <<stage, phase, queue, holder, buf>> /\ Serving
      BY <1>10 DEF Hangup, handover, proc, Serving
    <2>2. Serving'
      BY <2>1 DEF Serving
    <2> QED BY <2>1, <2>2 DEF ReloadsServed
  <1>11. ASSUME OperatorStops \/ Rewrite \/ UNCHANGED hostVars PROVE ReloadsServed'
    <2>1. UNCHANGED <<stage, phase, reload>>
      BY <1>11 DEF OperatorStops, Signalled, Rewrite, handover, proc, hostVars
    <2> QED BY <2>1, ServedStays
  <1> QED BY <1>1, <1>2, <1>3, <1>4, <1>5, <1>6, <1>7, <1>8, <1>9, <1>10, <1>11
         DEF Next, MainStep, DatapathStep

HostInv == HandoverInv /\ OwnerConfigures /\ ReloadsServed

\* The invariant of the host: the handover's, with the scripts and the reloads
\* tied to the owner.
THEOREM HostInvariant == Spec => []HostInv
  <1>1. Init => HostInv
    <2> SUFFICES ASSUME Init PROVE HostInv
      OBVIOUS
    <2>1. HandoverInv
      BY InvInit DEF Init
    <2>2. OwnerConfigures
      BY DEF Init, HandoverInit, OwnerConfigures
    <2>3. ReloadsServed
      BY DEF Init, ReloadsServed, Quiet
    <2> QED BY <2>1, <2>2, <2>3 DEF HostInv
  <1>2. HostInv /\ [Next]_hostVars => HostInv'
    BY HostStepIsHandover, InvNext, OwnerNext, ReloadNext DEF HostInv, HandoverInv
  <1> QED BY <1>1, <1>2, PTL DEF Spec

\* Exclusion reaches the commands themselves: of all the processes that were
\* started, crashed, killed or restarted, at most one is inside its datapath's
\* apply, its service or its teardown.
THEOREM OneDatapathAlways == Spec => []OneDatapath
  <1>1. HostInv => OneDatapath
    BY InvOneOwner DEF HostInv, OwnerConfigures, OneOwner, OneDatapath
  <1> QED BY <1>1, HostInvariant, PTL

\* A reload that SIGHUP or the interval started never races an apply, its own
\* process's or a successor's, and never outlives its process (watchReload
\* starts after apply; reloadMu is not shared between processes).
THEOREM ReloadsOwnedAlways == Spec => []ReloadsOwned
  <1>1. HostInv => ReloadsOwned
    <2> SUFFICES ASSUME HostInv, holder # Nobody PROVE ReloadsOwned
      BY DEF ReloadsOwned
    <2>1. PICK p \in Procs : stage[p] = "own" /\ phase[p] \in {"up", "undo"}
      BY DEF HostInv, ReloadsServed, Quiet, Serving
    <2>2. \A q \in Procs \ {p} : phase[q] = "none"
      BY <2>1, InvOneOwner DEF HostInv, OwnerConfigures, OneOwner
    <2> QED BY <2>1, <2>2 DEF ReloadsOwned
  <1> QED BY <1>1, HostInvariant, PTL
=============================================================================
