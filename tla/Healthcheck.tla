----------------------------- MODULE Healthcheck -----------------------------
(***************************************************************************)
(* internal/healthcheck/healthcheck.go: the driver that pings one path end *)
(* to end, reconnects it on silence and reports it healthy or not; with    *)
(* the path itself, which carries or loses pings.                          *)
(*                                                                         *)
(* Time is discrete, and every instant the code stores is kept as its age, *)
(* capped at Never once it no longer matters.                              *)
(***************************************************************************)
EXTENDS Integers

CONSTANTS
  Cadences,   \* the intervals: > 0 fixed, 0 lazy (a negative one ends Run at once)
  Timeout,    \* silence before down
  UpGrace,    \* sustained liveness before up
  MaxRTT,     \* longest round trip of a ping that is not lost
  MaxBlock    \* longest time the Reconnect calls of one step take

ASSUME TimingAssumption ==
  /\ Cadences \subseteq Nat /\ Timeout \in Nat \ {0} /\ UpGrace \in Nat \ {0}
  /\ MaxRTT \in Nat /\ MaxBlock \in Nat
  /\ 0 \in Cadences => Timeout % 3 = 0    \* units in which a third of the timeout is whole

VARIABLES
  interval,  \* this driver's cadence
  seenAge,   \* since lastSeen
  fresh,     \* lastSeen differs from lastObserved
  sentAge,   \* since lastSent
  sentTick,
  healthy,
  candAge,   \* since candidateSince, None if it is the zero time
  wasActive,
  activeAge, \* since activeSince
  stepAge,   \* age of step's `now' while it is in the Reconnect calls
  pc,        \* Run: "wait" for a tick, "reconnect", "resync" (lastObserved)
  tickAge,   \* since the last tick
  pings,     \* ages of the pings under way
  up,        \* the path carries packets
  soundAge,  \* since the path was last down
  heardAge,  \* since a packet really came back
  quietAge   \* since the path last had been silent for more than Lull

state == <<seenAge, fresh, sentAge, sentTick, healthy, candAge, wasActive, activeAge>>
healthVars  == <<interval, state, stepAge, pc, tickAge, pings, up, soundAge, heardAge, quietAge>>

None == -1

(* Run's tick: the interval, or a third of the timeout but at least a unit.  *)
TickLen == IF interval > 0 THEN interval
           ELSE IF Timeout \div 3 < 1 THEN 1 ELSE Timeout \div 3

Lull  == 2 * TickLen
Never == Timeout + UpGrace + Lull + MaxRTT + MaxBlock + 1

Older(a) == IF a = None \/ a = Never THEN a ELSE a + 1

(* Run starts: init at the first moment.                                     *)
HealthInit ==
  /\ interval \in Cadences
  /\ seenAge = 0 /\ fresh = FALSE /\ sentAge = Never /\ sentTick = FALSE
  /\ healthy = FALSE /\ candAge = None /\ wasActive = FALSE /\ activeAge = Never
  /\ stepAge = 0 /\ pc = "wait" /\ tickAge = 0
  /\ pings = {} /\ up \in BOOLEAN /\ soundAge = 0 /\ heardAge = Never /\ quietAge = 0

----------------------------------------------------------------------------
(* A tick's view of the world: step's first lines.                           *)
Active == interval > 0 \/ sentAge < Timeout

ActiveAge == IF Active /\ ~wasActive THEN 0 ELSE activeAge

(* Slip: in lazy mode silence is measured from before an idle gap.           *)
Silent_noFloor == seenAge

Silent ==
  IF interval = 0 /\ ActiveAge < seenAge THEN ActiveAge ELSE seenAge

(* Slip: the silence of two timeouts is asked for.                           *)
TooSilent_twice == Active /\ Silent > 2 * Timeout

TooSilent == Active /\ Silent > Timeout

Due == pc = "wait" /\ tickAge = TickLen

(* Down edge: unhealthy at once, then the links are reconnected.             *)
StepDown ==
  /\ Due /\ TooSilent
  /\ wasActive' = Active /\ activeAge' = ActiveAge
  /\ healthy' = FALSE /\ candAge' = None
  /\ pc' = "reconnect" /\ stepAge' = 0 /\ tickAge' = 0
  /\ UNCHANGED <<interval, seenAge, fresh, sentAge, sentTick, pings, up, soundAge, heardAge, quietAge>>

(* The Reconnect calls are over: lastSeen is set to the step's now ...       *)
ReconnectDone ==
  /\ pc = "reconnect"
  /\ seenAge' = stepAge /\ fresh' = TRUE /\ pc' = "resync" /\ stepAge' = 0
  /\ UNCHANGED <<interval, sentAge, sentTick, healthy, candAge, wasActive, activeAge,
                 tickAge, pings, up, soundAge, heardAge, quietAge>>

(* ... and lastObserved to whatever lastSeen is by then.                     *)
Resync ==
  /\ pc = "resync"
  /\ fresh' = FALSE /\ pc' = "wait"
  /\ UNCHANGED <<interval, seenAge, sentAge, sentTick, healthy, candAge, wasActive, activeAge,
                 stepAge, tickAge, pings, up, soundAge, heardAge, quietAge>>

(* Slip: a stalled tick leaves the grace window open.                        *)
Candidate_keep ==
  IF healthy \/ ~fresh THEN candAge ELSE IF candAge = None THEN 0 ELSE candAge

(* Slip: every fresh tick opens the window anew.                             *)
Candidate_reopen == IF healthy THEN candAge ELSE IF fresh THEN 0 ELSE None

(* The grace window: opened by a fresh tick, closed by a stalled one.        *)
Candidate ==
  IF healthy THEN candAge
  ELSE IF ~fresh THEN None ELSE IF candAge = None THEN 0 ELSE candAge

(* Fixed cadence probes on every such tick, lazy mode after outbound data.   *)
Probes == interval > 0 \/ sentTick

(* Any other tick: up edge after upGrace of fresh ticks, then maybe a probe, *)
(* which is lost at once if the path is down.                                *)
Step ==
  /\ Due /\ ~TooSilent
  /\ wasActive' = Active /\ activeAge' = ActiveAge
  /\ candAge' = Candidate /\ fresh' = FALSE
  /\ healthy' = (healthy \/ (fresh /\ candAge' >= UpGrace))
  /\ sentTick' = (interval > 0 /\ sentTick)
  /\ pings' = IF Probes /\ up THEN pings \cup {0} ELSE pings
  /\ tickAge' = 0
  /\ UNCHANGED <<interval, seenAge, sentAge, stepAge, pc, up, soundAge, heardAge, quietAge>>

----------------------------------------------------------------------------
(* Seen: a ping came back to the tun.                                        *)
Seen ==
  \E a \in pings :
    /\ up
    /\ pings' = pings \ {a}
    /\ seenAge' = 0 /\ heardAge' = 0 /\ fresh' = TRUE
    /\ UNCHANGED <<interval, sentAge, sentTick, healthy, candAge, wasActive, activeAge,
                   stepAge, pc, tickAge, up, soundAge, quietAge>>

(* SentData: the tun sent a data packet (it only matters in lazy mode).      *)
SentData ==
  /\ interval = 0 /\ ~(sentAge = 0 /\ sentTick)
  /\ sentAge' = 0 /\ sentTick' = TRUE
  /\ UNCHANGED <<interval, seenAge, fresh, healthy, candAge, wasActive, activeAge,
                 stepAge, pc, tickAge, pings, up, soundAge, heardAge, quietAge>>

(* The path fails, with the pings under way, or heals.                       *)
PathFails ==
  /\ up /\ up' = FALSE /\ soundAge' = 0 /\ pings' = {}
  /\ UNCHANGED <<interval, state, stepAge, pc, tickAge, heardAge, quietAge>>

PathHeals ==
  /\ ~up /\ up' = TRUE
  /\ UNCHANGED <<interval, state, stepAge, pc, tickAge, pings, soundAge, heardAge, quietAge>>

(* Time passes, but neither past a due tick, a ping's latest return, nor the *)
(* end of the Reconnect calls.                                               *)
Pass ==
  /\ ~Due /\ MaxRTT \notin pings
  /\ pc = "wait" \/ (pc = "reconnect" /\ stepAge < MaxBlock)
  /\ seenAge' = Older(seenAge) /\ sentAge' = Older(sentAge) /\ candAge' = Older(candAge)
  /\ activeAge' = Older(activeAge) /\ heardAge' = Older(heardAge)
  /\ soundAge' = IF up THEN Older(soundAge) ELSE 0
  /\ quietAge' = IF heardAge > Lull THEN 0 ELSE Older(quietAge)
  /\ stepAge' = IF pc = "reconnect" THEN stepAge + 1 ELSE 0
  /\ tickAge' = IF tickAge = TickLen THEN tickAge ELSE tickAge + 1
  /\ pings' = {a + 1 : a \in pings}
  /\ UNCHANGED <<interval, fresh, sentTick, healthy, wasActive, pc, up>>

HealthNext ==
  \/ StepDown \/ Step \/ ReconnectDone \/ Resync
  \/ Seen \/ SentData \/ PathFails \/ PathHeals \/ Pass

HealthSpec == HealthInit /\ [][HealthNext]_healthVars

(* Time goes on, ticks are handled and pings on a working path return.       *)
HealthFairSpec ==
  HealthSpec /\ WF_healthVars(Pass) /\ WF_healthVars(StepDown) /\ WF_healthVars(Step)
       /\ WF_healthVars(ReconnectDone) /\ WF_healthVars(Resync) /\ WF_healthVars(Seen)

----------------------------------------------------------------------------
(* Ages are naturals up to Never.                                            *)
HealthTypeOK ==
  /\ interval \in Cadences
  /\ seenAge \in 0..Never /\ sentAge \in 0..Never /\ activeAge \in 0..Never
  /\ soundAge \in 0..Never /\ heardAge \in 0..Never /\ quietAge \in 0..Never
  /\ candAge \in {None} \cup 0..Never
  /\ fresh \in BOOLEAN /\ sentTick \in BOOLEAN /\ healthy \in BOOLEAN
  /\ wasActive \in BOOLEAN /\ up \in BOOLEAN
  /\ pc \in {"wait", "reconnect", "resync"}
  /\ stepAge \in 0..MaxBlock /\ tickAge \in 0..TickLen /\ pings \subseteq 0..MaxRTT

(* "goes down immediately on silence": a path reported healthy has been      *)
(* heard within timeout plus one tick, counting from when probing began.     *)
DownOnSilence ==
  healthy /\ (interval > 0 \/ wasActive) =>
    \/ heardAge <= Timeout + TickLen
    \/ interval = 0 /\ activeAge <= Timeout + TickLen

(* "goes up only after sustained liveness for upGrace (anti-flap)": when the *)
(* path is declared up, packets have come back throughout the last upGrace,  *)
(* without a pause of more than two ticks, whatever resets happened between. *)
UpEarned == [][~healthy /\ healthy' => quietAge >= UpGrace]_healthVars

(* A path that has carried everything for a timeout and two ticks is not     *)
(* declared down, in lazy mode neither on the first packet after an idle gap *)
(* (healthcheck.go:125-130).                                                 *)
NoFalseDown == [][healthy /\ ~healthy' => soundAge <= Timeout + Lull]_healthVars

(* A path that works from some point on is reported healthy from some point  *)
(* on (fixed cadence).                                                       *)
Recovers == <>[](interval > 0 /\ up) => <>[]healthy

=============================================================================
