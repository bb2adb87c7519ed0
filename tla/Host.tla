-------------------------------- MODULE Host --------------------------------
(***************************************************************************)
(* One host and the processes that configure it: the handover, then the    *)
(* datapath's script of commands, its undo chain, crashes at any point,    *)
(* restarts, and the reloading of the kernel datapath's prefix lists.      *)
(*                                                                         *)
(* A command is atomic: a process that dies does not leave a child ip or   *)
(* iptables behind that completes later.  The config does not change       *)
(* between restarts.  Undo commands do not fail.                           *)
(***************************************************************************)
EXTENDS Handover, KernelPlan, NodePlan, SequencesExt

CONSTANTS Configs,      \* the configs a host may have: c.path is the datapath;
                        \* bounds: c.pids the pids in use, c.maxDeaths how often
                        \* a datapath dies without undoing
          Lists,        \* names of prefix lists
          Files,        \* those of them that are files, and may change
          Contents,     \* what a file may hold: sequences of prefixes
          Static,       \* what each of the other lists holds
          Forward0,     \* ip_forward as the host had it
          Bad           \* a file that does not read or parse

VARIABLES cfg,          \* the config
          host,         \* the host's state (HostNet)
          phase,        \* of a process: "none" "apply" "up" "undo"
          todo,         \* the commands it has still to run
          undo,         \* its chain of undo commands
          lists,        \* what each list holds now
          loaded,       \* the prefixes the last load of each list put in
          hup,          \* SIGHUP in watchReload's channel
          queue,        \* the sets each reloading goroutine has still to load
          holder,       \* of reloadMu
          buf,          \* what loadGeo has read, <<>> before it reads
          deaths,       \* datapaths that died without undoing
          dirty         \* the last of them with no full apply since

proc == <<phase, todo, undo>>
reload == <<hup, queue, holder, buf>>
hostVars == <<handover, cfg, host, proc, lists, loaded, reload, deaths, dirty>>
Reloaders == {"hup", "tick"}

Nobody == "nobody"

Idle == /\ hup' = FALSE
        /\ queue' = [w \in Reloaders |-> <<>>]
        /\ holder' = Nobody
        /\ buf' = <<>>
        /\ loaded' = [n \in Lists |-> {}]

Init ==
    /\ HandoverInit
    /\ cfg \in {c \in Configs : c.path = "kernel" => ForwardValid(c)}
    /\ host = Pristine(Forward0)
    /\ phase = [p \in Procs |-> "none"]
    /\ todo = [p \in Procs |-> <<>>]
    /\ undo = [p \in Procs |-> <<>>]
    /\ lists \in {[n \in Lists |-> IF n \in Files THEN seq ELSE Static[n]] : seq \in Contents \ {Bad}}
    /\ loaded = [n \in Lists |-> {}]
    /\ hup = FALSE
    /\ queue = [w \in Reloaders |-> <<>>]
    /\ holder = Nobody
    /\ buf = <<>>
    /\ deaths = 0
    /\ dirty = FALSE

Kernel == cfg.path = "kernel"

-----------------------------------------------------------------------------
(* The processes before their datapath, and their deaths.                  *)

\* The processes in gone have died with their scripts, chains and reloads;
\* the tuns of those in freed are closed by the kernel.
Die(gone, freed) ==
    /\ phase' = [p \in Procs |-> IF p \in gone THEN "none" ELSE phase[p]]
    /\ todo' = [p \in Procs |-> IF p \in gone THEN <<>> ELSE todo[p]]
    /\ undo' = [p \in Procs |-> IF p \in gone THEN <<>> ELSE undo[p]]
    /\ host' = WithoutLinks(host, {l \in host.links : l.by \in freed})
    /\ IF \E p \in gone : phase[p] # "none"
       THEN Idle /\ deaths < cfg.maxDeaths /\ deaths' = deaths + 1 /\ dirty' = TRUE
       ELSE UNCHANGED <<reload, loaded, deaths, dirty>>
    /\ UNCHANGED <<cfg, lists>>

\* runNode up to the datapath.
BootStep(p) ==
    /\ \/ Start(p) /\ p \in cfg.pids
       \/ Scan(p) \/ ScanFails(p) \/ Terminate(p)
       \/ WaitGone(p) \/ ProceedAnyway(p) \/ Interrupted(p)
    /\ UNCHANGED <<cfg, host, proc, lists, loaded, reload, deaths, dirty>>

KillStep(p) == ForceKill(p) /\ Die(live(p), {})

CrashStep(p) == Crash(p) /\ Die({p}, {p})

ReapStep(p) ==
    /\ Reaped(p)
    /\ host' = WithoutLinks(host, {l \in host.links : l.by = p})
    /\ UNCHANGED <<cfg, proc, lists, loaded, reload, deaths, dirty>>

\* The operator stops a running node; a process that still boots is signalled
\* by the handover of another.
OperatorStops ==
    /\ \E p \in Procs : phase[p] = "up" /\ Signalled(p)
    /\ UNCHANGED <<cfg, host, proc, lists, loaded, reload, deaths, dirty>>

\* The datapath starts, RunWith with some order of its map.
RunStarts(p) ==
    /\ LinksReady(p)
    /\ phase' = [phase EXCEPT ![p] = "apply"]
    /\ IF Kernel
       THEN todo' = [todo EXCEPT ![p] = KernelScript(cfg)]
       ELSE \E devs \in SetToSeqs(DirectDevs(cfg)) :
                todo' = [todo EXCEPT ![p] = NodeScript(cfg, p, devs)]
    /\ UNCHANGED <<cfg, host, undo, lists, loaded, reload, deaths, dirty>>

-----------------------------------------------------------------------------
(* apply and the undo chain.                                               *)

\* loadGeo's batch: the routes up to the first that fails.
Batch(h, g, seq) ==
    [h EXCEPT !.routes = @ \cup {[table |-> g.table, to |-> pfx, dev |-> g.dev] : pfx \in UpToRepeat(seq)}]

\* All of the list went in.
Loads(seq) == seq # Bad /\ IsInjective(seq)

Impossible(c) ==
    CASE c.do = "geo" -> ~Loads(lists[c.arg.set])
      [] c.do = "lower" -> c.arg
      [] OTHER -> Refuses(host, c.do, c.arg)

\* The undo command a success registers; ip_forward is restored only by the
\* process that turned it on.
Registered(c) ==
    IF c.undo = "" \/ (c.do = "forward" /\ host.forward) THEN <<>>
    ELSE <<[do |-> c.undo, arg |-> c.arg]>>

\* The next command of the script succeeds; after the last one the node is up.
Applies(p) ==
    /\ phase[p] = "apply"
    /\ LET c == Head(todo[p]) IN
       /\ ~Impossible(c)
       /\ undo' = [undo EXCEPT ![p] = @ \o Registered(c)]
       /\ IF c.do = "geo"
          THEN /\ host' = Batch(After(host, "flush", c.arg.table), c.arg, lists[c.arg.set])
               /\ loaded' = [loaded EXCEPT ![c.arg.set] = UpToRepeat(lists[c.arg.set])]
          ELSE /\ host' = After(host, c.do, c.arg)
               /\ UNCHANGED loaded
    /\ todo' = [todo EXCEPT ![p] = Tail(@)]
    /\ IF Len(todo[p]) = 1
       THEN phase' = [phase EXCEPT ![p] = "up"] /\ dirty' = FALSE
       ELSE UNCHANGED <<phase, dirty>>
    /\ UNCHANGED <<handover, cfg, lists, reload, deaths>>

\* A command fails.  One whose error is ignored changes nothing; any other
\* starts the undo chain.
ApplyFails(p) ==
    /\ phase[p] = "apply"
    /\ LET c == Head(todo[p]) IN
       \/ /\ c.hard
          /\ phase' = [phase EXCEPT ![p] = "undo"]
          /\ todo' = [todo EXCEPT ![p] = <<>>]
          /\ UNCHANGED dirty
       \/ /\ c.do = "capture"      \* logged; the last command
          /\ phase' = [phase EXCEPT ![p] = "up"]
          /\ todo' = [todo EXCEPT ![p] = <<>>]
          /\ dirty' = FALSE
    /\ UNCHANGED <<handover, cfg, host, undo, lists, loaded, reload, deaths>>

\* ctx.Done ends Run; the deferred chain runs.
Stops(p) ==
    /\ phase[p] = "up"
    /\ term[p]
    /\ phase' = [phase EXCEPT ![p] = "undo"]
    /\ UNCHANGED <<handover, cfg, host, todo, undo, lists, loaded, reload, deaths, dirty>>

\* chain.teardown: the last registered command first.
Undoes(p) ==
    /\ phase[p] = "undo"
    /\ undo[p] # <<>>
    /\ host' = After(host, Last(undo[p]).do, Last(undo[p]).arg)
    /\ undo' = [undo EXCEPT ![p] = Front(@)]
    /\ UNCHANGED <<handover, cfg, phase, todo, lists, loaded, reload, deaths, dirty>>

\* Run has returned, main returns: goroutines and tuns end with the process.
Exits(p) ==
    /\ phase[p] = "undo"
    /\ undo[p] = <<>>
    /\ RunReturns(p)
    /\ phase' = [phase EXCEPT ![p] = "none"]
    /\ host' = WithoutLinks(host, {l \in host.links : l.by = p})
    /\ Idle
    /\ UNCHANGED <<cfg, todo, undo, lists, deaths, dirty>>

-----------------------------------------------------------------------------
(* watchReload: a goroutine for SIGHUP and one for the interval of a file. *)

Serving == \E p \in Procs : stage[p] = "own" /\ phase[p] \in {"up", "undo"}

Geos == IF Kernel THEN geo(cfg) ELSE <<>>

\* A new list is put in place while the node runs; it may well find it only
\* at a restart.
Rewrite ==
    /\ Serving /\ Geos # <<>>
    /\ \E n \in Files, seq \in Contents :
         /\ lists[n] # seq
         /\ lists' = [lists EXCEPT ![n] = seq]
    /\ UNCHANGED <<handover, cfg, host, proc, loaded, reload, deaths, dirty>>

\* SIGHUP: one waits in the channel, further ones are dropped.
Hangup ==
    /\ \E p \in Procs : phase[p] = "up"
    /\ Geos # <<>>
    /\ hup' = TRUE
    /\ UNCHANGED <<handover, cfg, host, proc, lists, loaded, queue, holder, buf, deaths, dirty>>

\* The slip: a signal that comes while a reload is under way counts as done.
TakeHup_coalesced ==
    /\ Serving
    /\ hup
    /\ hup' = FALSE
    /\ queue' = [queue EXCEPT !["hup"] = IF @ = <<>> THEN Geos ELSE @]
    /\ UNCHANGED <<handover, cfg, host, proc, lists, loaded, holder, buf, deaths, dirty>>

\* The goroutine takes the signal and starts on all sets; once the context is
\* done it may still do so.
TakeHup ==
    /\ Serving
    /\ hup /\ queue["hup"] = <<>>
    /\ hup' = FALSE
    /\ queue' = [queue EXCEPT !["hup"] = Geos]
    /\ UNCHANGED <<handover, cfg, host, proc, lists, loaded, holder, buf, deaths, dirty>>

Tick ==
    /\ Serving
    /\ queue["tick"] = <<>>
    /\ \E j \in DOMAIN Geos :
         /\ Geos[j].set \in Files
         /\ queue' = [queue EXCEPT !["tick"] = <<Geos[j]>>]
    /\ UNCHANGED <<handover, cfg, host, proc, lists, loaded, hup, holder, buf, deaths, dirty>>

\* loadGeo: lock and flush.
LockFlush(w) ==
    /\ queue[w] # <<>>
    /\ holder = Nobody
    /\ holder' = w
    /\ host' = After(host, "flush", Head(queue[w]).table)
    /\ loaded' = [loaded EXCEPT ![Head(queue[w]).set] = {}]
    /\ UNCHANGED <<handover, cfg, proc, lists, hup, queue, buf, deaths, dirty>>

Unlock(w) ==
    /\ holder' = Nobody
    /\ buf' = <<>>
    /\ queue' = [queue EXCEPT ![w] = Tail(@)]

\* readPrefixes: an error or an empty list ends this load with the table empty.
ReadPrefixes(w) ==
    /\ holder = w /\ buf = <<>>
    /\ LET seq == lists[Head(queue[w]).set] IN
       \/ seq \in {Bad, <<>>} /\ Unlock(w)
       \/ seq \notin {Bad, <<>>} /\ buf' = seq /\ UNCHANGED <<holder, queue>>
    /\ UNCHANGED <<handover, cfg, host, proc, lists, loaded, hup, deaths, dirty>>

RunBatch(w) ==
    /\ holder = w /\ buf # <<>>
    /\ host' = Batch(host, Head(queue[w]), buf)
    /\ loaded' = [loaded EXCEPT ![Head(queue[w]).set] = UpToRepeat(buf)]
    /\ Unlock(w)
    /\ UNCHANGED <<handover, cfg, proc, lists, hup, deaths, dirty>>

-----------------------------------------------------------------------------

DatapathStep(p) == \/ RunStarts(p) \/ Applies(p) \/ ApplyFails(p)
                   \/ Stops(p) \/ Undoes(p) \/ Exits(p)

\* The steps of a process's main goroutine.
MainStep(p) == BootStep(p) \/ KillStep(p) \/ DatapathStep(p)

ReloadStep(w) == LockFlush(w) \/ ReadPrefixes(w) \/ RunBatch(w)

Next == \/ \E p \in Procs : MainStep(p) \/ CrashStep(p) \/ ReapStep(p)
        \/ \E w \in Reloaders : ReloadStep(w)
        \/ OperatorStops \/ Rewrite \/ Hangup \/ TakeHup \/ Tick

\* The Go scheduler runs every ready goroutine, grace periods end and the
\* awaited interfaces come up; nothing forces anyone to start a process, stop
\* or crash one, signal or rewrite a file.
Fairness ==
    /\ \A p \in Procs : WF_hostVars(stage[p] # "off" /\ MainStep(p))
    /\ \A w \in Reloaders : WF_hostVars(ReloadStep(w))
    /\ WF_hostVars(TakeHup)

Spec == Init /\ [][Next]_hostVars

FairSpec == Spec /\ Fairness

-----------------------------------------------------------------------------

\* After any history of crashes, failed starts and handovers, once a full
\* apply has succeeded and nobody runs a datapath any more, nothing of
\* dualnet's is left on the host: no rule, no link, no address, no route
\* (chain.teardown and the delete-before-add of apply).  Three leftovers are
\* the code's: ip_forward and, for the userspace datapath, iptables rules stay
\* after a crash, and a geo table may be refilled by a reload that teardown
\* does not wait for.
StopsClean ==
    (\A p \in Procs : phase[p] = "none") /\ ~dirty =>
        /\ host.rules = {}
        /\ host.addrs = {}
        /\ {l \in host.links : l.by = "wg" \/ stage[l.by] # "dead"} = {}
        /\ \A r \in host.routes : \E j \in DOMAIN Geos : r.table = Geos[j].table
        /\ Kernel \/ deaths = 0 => host.ipt = EmptyBag
        /\ deaths = 0 => host.forward = Forward0


\* "WITHOUT this ... the router goes dark": unless a crash left rules behind,
\* connected destinations are reached by their own device at every moment of
\* apply, of a failed apply and of teardown, not only once the node is up.
LanKept ==
    ~dirty =>
        \A o \in Origins, r \in {n \in Native : n.to # Anywhere} :
            \A d \in r.to : Lookup(host, o, d) = {r.dev} \/ o \in {Bound(x) : x \in DirectDevs(cfg)}

\* Every process that starts runs its datapath in the end, or leaves, however
\* the processes it meets behave (waitGone gives up on nobody for ever, two
\* instances do not wait for each other for ever); and one told to stop goes,
\* whatever it was doing.
StartsOrLeaves ==
    \A p \in Procs :
        /\ stage[p] = "start" ~> stage[p] \in {"own", "off", "dead"}
        /\ term[p] ~> stage[p] \in {"off", "dead"}

\* After SIGHUP the node comes to forward by the file as it is, unless the file
\* changes once more: the signal is kept until a reload that reads the file
\* starts, however it met the interval's reload or one already under way.
LatestList ==
    \A n \in Files, seq \in Contents \ {Bad} :
        (hup /\ lists[n] = seq /\ Loads(seq) /\ n \in {Geos[j].set : j \in DOMAIN Geos})
          ~> \/ loaded[n] = ToSet(seq) \/ lists[n] # seq
             \/ \A p \in Procs : phase[p] # "up"
=============================================================================
