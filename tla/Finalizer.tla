------------------------------ MODULE Finalizer ------------------------------
(***************************************************************************)
(* internal/finalizer/finalizer.go: the gateway's return-path table.  A    *)
(* packet submitted to the internet leaves {owner, reply target} under its *)
(* inner source address; replies are sent back along it.  Submit runs on   *)
(* the receive goroutine of every connection, Run on one of its own, GC on *)
(* the node's maintenance goroutine, and Run's ticker refreshes the clock  *)
(* they stamp with.  Lock and unlock delimit the steps.                    *)
(***************************************************************************)
EXTENDS Integers, FiniteSets, Functions

CONSTANTS
  Threads,    \* receive goroutines
  IPs,        \* inner source addresses
  Paths,      \* {owner, reply target} pairs
  MaxTrack,   \* f.maxTrack, 0 for no cap
  TTL,        \* f.ttl
  ClockTick,  \* longest time between two refreshes of f.clock
  MaxStall,   \* longest time a goroutine takes over one packet
  MaxTime     \* bound: the time a behaviour covers

ASSUME TimeAssumption ==
  {MaxTrack, TTL, ClockTick, MaxStall, MaxTime} \subseteq Nat
ASSUME NameAssumption == "run" \notin Threads

VARIABLES
  now,     \* time.Now
  clock,   \* f.clock, the coarse time
  track,   \* f.track: address -> [path, seen]
  job,     \* goroutine -> the packet it works on (see Job); "run" is Run
  awaited, \* addresses with a packet out on the internet
  bound,   \* tracked address -> the path last bound to it
  used     \* tracked address -> arrival of the newest packet whose handling reached the entry

vars == <<now, clock, track, job, awaited, bound, used>>

Goroutines == Threads \cup {"run"}
Entry == [path : Paths, seen : 0..MaxTime]

(* at: the clock as loaded; from: the time of arrival.                       *)
Job == [pc : {"look", "store", "out"}, ip : IPs, path : Paths, at : 0..MaxTime, from : 0..MaxTime]
Taken == [pc : {"taken"}, ip : IPs, at : 0..MaxTime, from : 0..MaxTime]
Idle == [pc |-> "idle"]

Init ==
  /\ now = 0 /\ clock = 0
  /\ track = [ip \in {} |-> Idle]
  /\ job = [g \in Goroutines |-> Idle]
  /\ awaited = {} /\ bound = [ip \in {} |-> Idle] /\ used = [ip \in {} |-> 0]

Put(f, x, v) == [y \in DOMAIN f \cup {x} |-> IF y = x THEN v ELSE f[y]]
Newer(f, x, t) == IF x \in DOMAIN f /\ f[x] > t THEN f ELSE Put(f, x, t)

(* Submit: a data packet; the clock is loaded before any lock.  A ping is    *)
(* reflected to the target here and leaves no trace.                         *)
Submit(g, ip, p) ==
  /\ job[g] = Idle
  /\ job' = [job EXCEPT ![g] = [pc |-> "look", ip |-> ip, path |-> p, at |-> clock, from |-> now]]
  /\ UNCHANGED <<now, clock, track, awaited, bound, used>>

(* Slip: an entry with the same path counts as fresh however old its stamp.  *)
Fresh_anyAge(j) == j.ip \in DOMAIN track /\ track[j.ip].path = j.path

Fresh(j) == j.ip \in DOMAIN track /\ track[j.ip] = [path |-> j.path, seen |-> j.at]

(* Under the read lock: nothing to write if the entry is as it should be.    *)
SubmitLook(g) ==
  /\ g # "run" /\ job[g].pc = "look"
  /\ job' = [job EXCEPT ![g].pc = IF Fresh(job[g]) THEN "out" ELSE "store"]
  /\ used' = IF Fresh(job[g]) THEN Newer(used, job[g].ip, job[g].from) ELSE used
  /\ bound' = IF Fresh(job[g]) THEN Put(bound, job[g].ip, job[g].path) ELSE bound
  /\ UNCHANGED <<now, clock, track, awaited>>

Admitted(j) ==
  j.ip \in DOMAIN track \/ MaxTrack = 0 \/ Cardinality(DOMAIN track) < MaxTrack

(* Under the write lock: rebind an existing flow, or record a new one while  *)
(* under the cap.                                                            *)
SubmitStore(g) ==
  LET j == job[g] IN
  /\ g # "run" /\ j.pc = "store"
  /\ job' = [job EXCEPT ![g].pc = "out"]
  /\ IF Admitted(j)
     THEN /\ track' = Put(track, j.ip, [path |-> j.path, seen |-> j.at])
          /\ bound' = Put(bound, j.ip, j.path) /\ used' = Newer(used, j.ip, j.from)
     ELSE UNCHANGED <<track, bound, used>>
  /\ UNCHANGED <<now, clock, awaited>>

(* The packet goes into the inject batch and out.                            *)
Inject(g) ==
  /\ g # "run" /\ job[g].pc = "out"
  /\ job' = [job EXCEPT ![g] = Idle] /\ awaited' = awaited \cup {job[g].ip}
  /\ UNCHANGED <<now, clock, track, bound, used>>

----------------------------------------------------------------------------
(* Run takes a reply from the egress and loads the clock.                    *)
ReplyTake(ip) ==
  /\ job["run"] = Idle /\ ip \in awaited
  /\ job' = [job EXCEPT !["run"] = [pc |-> "taken", ip |-> ip, at |-> clock, from |-> now]]
  /\ UNCHANGED <<now, clock, track, awaited, bound, used>>

(* Under the read lock: the entry found is the one it will send along.  An   *)
(* unknown reply is dropped.                                                 *)
ReplyLook ==
  LET j == job["run"] known == j.ip \in DOMAIN track stamped == track[j.ip].seen = j.at IN
  /\ j.pc = "taken"
  /\ job' = [job EXCEPT !["run"] =
       IF known THEN [pc |-> IF stamped THEN "out" ELSE "store",
                      ip |-> j.ip, path |-> track[j.ip].path, at |-> j.at, from |-> j.from]
       ELSE Idle]
  /\ used' = IF known /\ stamped THEN Newer(used, j.ip, j.from) ELSE used
  /\ UNCHANGED <<now, clock, track, awaited, bound>>

(* Slip: the entry read before the lock is written back whole.               *)
ReplyBump_whole ==
  LET j == job["run"] IN
  /\ j.pc = "store"
  /\ job' = [job EXCEPT !["run"].pc = "out"]
  /\ IF j.ip \in DOMAIN track
     THEN track' = Put(track, j.ip, [path |-> j.path, seen |-> j.at]) /\ used' = Newer(used, j.ip, j.from)
     ELSE UNCHANGED <<track, used>>
  /\ UNCHANGED <<now, clock, awaited, bound>>

(* The clock had moved: stamp the entry, if there still is one.              *)
ReplyBump ==
  LET j == job["run"] IN
  /\ j.pc = "store"
  /\ job' = [job EXCEPT !["run"].pc = "out"]
  /\ IF j.ip \in DOMAIN track
     THEN track' = [track EXCEPT ![j.ip].seen = j.at] /\ used' = Newer(used, j.ip, j.from)
     ELSE UNCHANGED <<track, used>>
  /\ UNCHANGED <<now, clock, awaited, bound>>

(* The reply is sent to the target of the entry looked up.                   *)
ReplySend ==
  /\ job["run"].pc = "out"
  /\ job' = [job EXCEPT !["run"] = Idle]
  /\ UNCHANGED <<now, clock, track, awaited, bound, used>>

Expired(ip) == track[ip].seen < now - TTL

(* GC drops the entries idle beyond the ttl.                                 *)
GC ==
  /\ \E ip \in DOMAIN track : Expired(ip)
  /\ LET kept == {ip \in DOMAIN track : ~Expired(ip)} IN
     track' = Restrict(track, kept) /\ bound' = Restrict(bound, kept) /\ used' = Restrict(used, kept)
  /\ UNCHANGED <<now, clock, job, awaited>>

(* refreshClock, on Run's ticker.                                            *)
RefreshClock ==
  /\ clock # now /\ clock' = now
  /\ UNCHANGED <<now, track, job, awaited, bound, used>>

(* Time passes, but not past a late refresh or a goroutine's slowest pace.   *)
Pass ==
  /\ now < MaxTime /\ now - clock < ClockTick
  /\ \A g \in Goroutines : job[g] # Idle => now - job[g].from < MaxStall
  /\ now' = now + 1
  /\ UNCHANGED <<clock, track, job, awaited, bound, used>>

Next ==
  \/ \E g \in Threads :
       \/ \E ip \in IPs, p \in Paths : Submit(g, ip, p)
       \/ SubmitLook(g) \/ SubmitStore(g) \/ Inject(g)
  \/ \E ip \in IPs : ReplyTake(ip)
  \/ ReplyLook \/ ReplyBump \/ ReplySend \/ GC \/ RefreshClock \/ Pass

Spec == Init /\ [][Next]_vars

----------------------------------------------------------------------------
(* Types.                                                                    *)
TypeOK ==
  /\ now \in 0..MaxTime /\ clock \in 0..now
  /\ DOMAIN track \subseteq IPs /\ \A ip \in DOMAIN track : track[ip] \in Entry
  /\ job \in [Goroutines -> {Idle} \cup Taken \cup Job]
  /\ awaited \subseteq IPs
  /\ bound \in [DOMAIN track -> Paths] /\ used \in [DOMAIN track -> 0..now]

(* "caps the number of concurrently-tracked return flows" (finalizer.go:64): *)
(* also when several new flows arrive at once.                               *)
FlowsCapped == MaxTrack > 0 => Cardinality(DOMAIN track) <= MaxTrack

(* An address that moved to another owner or target stays moved: neither a   *)
(* reply looked up before the move nor an expiry in between brings the old   *)
(* path back ("only the timestamp is bumped", finalizer.go:173).             *)
LatestPath == \A ip \in DOMAIN track : track[ip].path = bound[ip]

(* "existing flows keep working" (finalizer.go:68): an entry disappears only *)
(* after an idle ttl.  The stamp may lag behind the traffic, and even turn   *)
(* back, by a clock tick and one slow goroutine, and by no more.             *)
ActiveFlowKept ==
  [][\A ip \in DOMAIN track \ DOMAIN track' :
       now - used[ip] > TTL - ClockTick - MaxStall]_vars

=============================================================================
