------------------------------ MODULE Handover ------------------------------
(***************************************************************************)
(* How instances of the binary take over from one another: runNode of      *)
(* main.go up to the datapath, singleton.TakeExclusive, netwait.Wait.      *)
(*                                                                         *)
(* A process is its pid, and a pid may be used again once it is free.      *)
(* stage[p] is where runNode stands:                                       *)
(*   "off"     no such process                                             *)
(*   "start"   running, before it has listed the other processes           *)
(*   "signal"  has listed others, not yet signalled them                   *)
(*   "wait"    waitGone polls the pids in seen[p]                          *)
(*   "links"   netwait.Wait polls the interfaces                           *)
(*   "own"     past both: it configures, serves or unconfigures the host   *)
(*   "dead"    hit by SIGKILL but still listed: takes no further step      *)
(* term[p] is its cancelled context, forced[p] waitGone's flag of the same *)
(* name.  Deadlines are not measured: a grace period may end at any poll   *)
(* that still finds a process, which covers every length of it.            *)
(***************************************************************************)
EXTENDS FiniteSets

CONSTANT Procs     \* the pids

VARIABLES stage, term, seen, forced

handover == <<stage, term, seen, forced>>

Stages == {"off", "start", "signal", "wait", "links", "own", "dead"}

\* What kill(pid, 0) and the scan of /proc see: "dead" is still a process.
Present == {p \in Procs : stage[p] # "off"}

\* The processes that still execute code.
Running == {p \in Procs : stage[p] \notin {"off", "dead"}}

HandoverInit ==
    /\ stage = [p \in Procs |-> "off"]
    /\ term = [p \in Procs |-> FALSE]
    /\ seen = [p \in Procs |-> {}]
    /\ forced = [p \in Procs |-> FALSE]

\* p is no longer there; a later process may get its pid.
Gone(p) ==
    /\ stage' = [stage EXCEPT ![p] = "off"]
    /\ term' = [term EXCEPT ![p] = FALSE]
    /\ seen' = [seen EXCEPT ![p] = {}]
    /\ forced' = [forced EXCEPT ![p] = FALSE]

Move(p, to) ==
    /\ stage' = [stage EXCEPT ![p] = to]
    /\ UNCHANGED <<term, forced>>

\* main: the signal context is installed first, then the flags and the config
\* are read.  A config that does not parse or validate is a process that
\* never gets here.
Start(p) ==
    /\ stage[p] = "off"
    /\ Move(p, "start")
    /\ UNCHANGED seen

\* The slip: only the processes that already run a datapath are taken over.
Scan_owners(p) ==
    /\ stage[p] = "start"
    /\ LET owners == {q \in Procs \ {p} : stage[q] = "own"} IN
       /\ seen' = [seen EXCEPT ![p] = owners]
       /\ Move(p, IF owners = {} THEN "links" ELSE "signal")

\* others: one listing of /proc.  A killed process is listed or not: the exe
\* link of a zombie cannot be read.  With nobody else there is nothing to
\* wait for, whatever signal has arrived meanwhile.
Scan(p) ==
    /\ stage[p] = "start"
    /\ \E killed \in SUBSET (Present \ Running) :
         LET others == (Running \cup killed) \ {p} IN
         /\ seen' = [seen EXCEPT ![p] = others]
         /\ Move(p, IF others = {} THEN "links" ELSE "signal")

\* os.Executable or /proc cannot be read: runNode returns the error.
ScanFails(p) ==
    /\ stage[p] = "start"
    /\ Gone(p)

\* SIGTERM to every listed pid; one that is gone only logs an error.
Terminate(p) ==
    /\ stage[p] = "signal"
    /\ stage' = [stage EXCEPT ![p] = "wait"]
    /\ term' = [q \in Procs |-> term[q] \/ q \in seen[p] \cap Running]
    /\ UNCHANGED <<seen, forced>>

live(p) == seen[p] \cap Present

\* waitGone: nobody of the list is left.
WaitGone(p) ==
    /\ stage[p] = "wait"
    /\ live(p) = {}
    /\ Move(p, "links")
    /\ UNCHANGED seen

\* The grace has passed: SIGKILL to the survivors.
ForceKill(p) ==
    /\ stage[p] = "wait"
    /\ ~forced[p]
    /\ live(p) # {}
    /\ stage' = [q \in Procs |-> IF q \in live(p) THEN "dead" ELSE stage[q]]
    /\ term' = [q \in Procs |-> term[q] /\ q \notin live(p)]
    /\ seen' = [q \in Procs |-> IF q \in live(p) THEN {} ELSE seen[q]]
    /\ forced' = [q \in Procs |-> q = p \/ (forced[q] /\ q \notin live(p))]

\* The slip: after the SIGKILL, wait until they are gone.
ProceedAnyway_patient(p) ==
    /\ stage[p] = "wait"
    /\ forced[p]
    /\ live(p) = {}
    /\ Move(p, "links")
    /\ UNCHANGED seen

\* forceGrace has passed as well: proceed with the survivors still listed.
ProceedAnyway(p) ==
    /\ stage[p] = "wait"
    /\ forced[p]
    /\ live(p) # {}
    /\ Move(p, "links")
    /\ UNCHANGED seen

\* ctx.Done in either wait: runNode returns nil.  Both look at the processes
\* or the interfaces once more before they look at the context.
Interrupted(p) ==
    /\ term[p]
    /\ \/ stage[p] = "wait" /\ live(p) # {}
       \/ stage[p] = "links"
    /\ Gone(p)

\* netwait.Wait finds every required interface up, at this poll or a later
\* one; the datapath starts.
LinksReady(p) ==
    /\ stage[p] = "links"
    /\ Move(p, "own")
    /\ UNCHANGED seen

\* SIGTERM or SIGINT from the operator.
Signalled(p) ==
    /\ p \in Running
    /\ ~term[p]
    /\ term' = [term EXCEPT ![p] = TRUE]
    /\ UNCHANGED <<stage, seen, forced>>

\* A panic, the OOM killer, an operator's kill -9.
Crash(p) ==
    /\ p \in Running
    /\ Gone(p)

\* The kernel finally frees a killed process.
Reaped(p) ==
    /\ stage[p] = "dead"
    /\ Gone(p)

\* The datapath's Run has returned and the process exits.
RunReturns(p) ==
    /\ stage[p] = "own"
    /\ Gone(p)

\* The steps of p before its datapath runs.
Boot(p) == \/ Start(p) \/ Scan(p) \/ ScanFails(p) \/ Terminate(p)
           \/ WaitGone(p) \/ ProceedAnyway(p)
           \/ Interrupted(p) \/ LinksReady(p)

HandoverNext == \E p \in Procs : \/ Boot(p) \/ ForceKill(p) \/ Signalled(p)
                                 \/ Crash(p) \/ Reaped(p) \/ RunReturns(p)

HandoverSpec == HandoverInit /\ [][HandoverNext]_handover

-----------------------------------------------------------------------------

HandoverTypeOK ==
    /\ stage \in [Procs -> Stages]
    /\ term \in [Procs -> BOOLEAN]
    /\ seen \in [Procs -> SUBSET Procs]
    /\ forced \in [Procs -> BOOLEAN]

\* TakeExclusive runs "before touching the network, so two nodes never fight
\* over the tun/routes/sockets": no two processes run a datapath at once,
\* however many start together, crash, ignore SIGTERM or reuse a pid.
OneOwner == \A p, q \in Procs : stage[p] = "own" /\ stage[q] = "own" => p = q
=============================================================================
