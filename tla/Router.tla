------------------------------- MODULE Router -------------------------------
(***************************************************************************)
(* internal/router/router.go: a node's routing table and the walk of one   *)
(* packet through it.  Compile turns the table into one list of rows per   *)
(* (processed, source); dispatch takes the first row whose target accepts  *)
(* the owner and whose guards pass.  Acceptance, each guard and the send   *)
(* are read at different instants, while peers come and go, a tun gets its *)
(* id, health conditions flip and prefix sets are reloaded.  A walk only   *)
(* reads, so one packet is followed at a time, of one owner.               *)
(***************************************************************************)
EXTENDS Integers, Sequences

CONSTANTS
  Pipes,      \* ConnectOut connections: they accept every owner
  Owned,      \* tun and ListenOut connections: they accept known owners
  Receivers,  \* ConnectIn and ListenIn connections: not senders
  Sources,    \* connections packets of the owner come in on
  Health,     \* names of healthcheck conditions
  DstSets,    \* names of dst_in conditions
  Egresses,   \* names of egresses
  Tables      \* routing tables a node may be configured with

Any == "any"    \* MatchProcessed nil, Source ""
None == "none"  \* Egress ""

VARIABLES
  table,   \* the configured rules
  stage,   \* "config", "up" or "refused"
  state,   \* owned connection -> "no" owner, "held" (accepted, not yet writable), "live"
  pass,    \* condition -> whether it holds (a dst_in one: for the packet's destination)
  walk,    \* the packet being routed (see Walk)
  always,  \* connections live and conditions true ever since the packet arrived
  ever     \* connections accepting and conditions true at some time since

vars == <<table, stage, state, pass, walk, always, ever>>

Conns == Pipes \cup Owned \cup Receivers
Conds == Health \cup DstSets
Flags == {"unproc", "proc"}  \* the envelope's processed bit
Rows == 1..Len(table)

(* conds keeps the order of the rule: guards are evaluated one by one.       *)
Rule == [proc : Flags \cup {Any}, source : Conns \cup {Any}, conds : Seq(Conds),
         egress : Egresses \cup {None}, target : Conns]

(* Connections and conditions are different maps: no name is in both.        *)
ASSUME TableAssumption ==
  Tables \subseteq Seq(Rule) /\ Sources \subseteq Owned \cup Receivers /\ Conns \cap Conds = {}

(* todo: rows left to look at; k: the guard of the first one to evaluate     *)
(* next.  A list of rows keeps the order of the table: the rows stand for it.*)
Walk == [pc : {"accept", "guard", "send"}, src : Sources, proc : Flags, dstOK : BOOLEAN,
         todo : SUBSET Rows, k : Nat]
Idle == [pc |-> "idle", row |-> 0]

Init ==
  /\ table \in Tables /\ stage = "config"
  /\ state = [c \in Owned |-> "no"]
  /\ pass \in [Conds -> BOOLEAN] /\ \A c \in Health : ~pass[c]
  /\ walk = Idle /\ always = {} /\ ever = {}

(* Compile's errors; targets, sources, conditions and egresses are known by  *)
(* the shape of Rule.                                                        *)
Valid(r) == r.egress # None => r.proc = "unproc"

Compile ==
  /\ stage = "config"
  /\ stage' = IF \A i \in Rows : Valid(table[i]) THEN "up" ELSE "refused"
  /\ UNCHANGED <<table, state, pass, walk, always, ever>>

Matches(r, proc) == r.proc \in {Any, proc}

(* r.compiled: the rows of (processed, source), wildcards among them.        *)
Compiled(proc, src) == {i \in Rows : Matches(table[i], proc) /\ table[i].source \in {Any, src}}

(* Slip: the rows of the source before the wildcard rows.                    *)
First_specific(rows) ==
  CHOOSE i \in rows : \A j \in rows :
    IF (table[i].source = Any) = (table[j].source = Any) THEN i <= j ELSE table[j].source = Any

(* The list is in the order of the table.                                    *)
First(rows) == CHOOSE i \in rows : \A j \in rows : i <= j

----------------------------------------------------------------------------
(* What a walk reads.                                                        *)
Accepts(c) == c \in Pipes \/ (c \in Owned /\ state[c] # "no")

(* Send reports delivered; a pipe does so whatever becomes of the packet.    *)
Delivers(c) == c \in Pipes \/ (c \in Owned /\ state[c] = "live")

(* A destination guard fails on a packet whose destination does not parse.   *)
Holds(c, dstOK) == pass[c] /\ (c \in DstSets => dstOK)

Facts(st, ps) == {c \in Owned : st[c] = "live"} \cup {c \in Conds : ps[c]}
Glimpses(st, ps) == {c \in Owned : st[c] # "no"} \cup {c \in Conds : ps[c]}

(* A packet arrives: boundIngress or Route selects its list.                 *)
Arrive(src, proc, dstOK) ==
  /\ stage = "up" /\ walk.pc = "idle"
  /\ walk' = [pc |-> "accept", src |-> src, proc |-> proc, dstOK |-> dstOK,
              todo |-> Compiled(proc, src), k |-> 1]
  /\ always' = Facts(state, pass) /\ ever' = Glimpses(state, pass)
  /\ UNCHANGED <<table, stage, state, pass>>

At == First(walk.todo)
Row == table[At]

NextRow == [walk EXCEPT !.pc = "accept", !.todo = @ \ {At}, !.k = 1]

Reading == UNCHANGED <<table, stage, state, pass, always, ever>>

(* The first row: skip it, or go on to its guards, or to the send.            *)
LookAccepts ==
  /\ walk.pc = "accept" /\ walk.todo # {}
  /\ walk' = IF Accepts(Row.target)
             THEN [walk EXCEPT !.pc = IF Row.conds = <<>> THEN "send" ELSE "guard"]
             ELSE NextRow
  /\ Reading

(* Slip: one passing guard is enough.                                        *)
Judged_anyPass(ok) ==
  CASE ok -> [walk EXCEPT !.pc = "send"]
    [] ~ok /\ walk.k < Len(Row.conds) -> [walk EXCEPT !.k = @ + 1]
    [] OTHER -> NextRow

(* allPass, one guard at a time: what the guard's answer makes of the walk.  *)
Judged(ok) ==
  CASE ~ok -> NextRow
    [] ok /\ walk.k < Len(Row.conds) -> [walk EXCEPT !.k = @ + 1]
    [] OTHER -> [walk EXCEPT !.pc = "send"]

Cond == Row.conds[walk.k]

LookGuard ==
  /\ walk.pc = "guard"
  /\ walk' = Judged(Holds(Cond, walk.dstOK))
  /\ Reading

Done(row) == [pc |-> "idle", row |-> row]

(* A finalize row hands the packet over; another sends it, or goes on to the *)
(* next row when the target has lost the owner meanwhile.                    *)
Send ==
  /\ walk.pc = "send"
  /\ walk' = IF Row.egress # None \/ Delivers(Row.target) THEN Done(At) ELSE NextRow
  /\ Reading

(* No row left.                                                              *)
Drop ==
  /\ walk.pc = "accept" /\ walk.todo = {}
  /\ walk' = Done(0)
  /\ Reading

----------------------------------------------------------------------------
(* Peers register, become writable and go; the tun's id is assigned; health  *)
(* changes; a prefix set is replaced.                                        *)
Changed ==
  /\ IF walk.pc = "idle" THEN UNCHANGED <<always, ever>>
     ELSE /\ always' = always \cap Facts(state', pass')
          /\ ever' = ever \cup Glimpses(state', pass')
  /\ stage = "up" /\ UNCHANGED <<table, stage, walk>>

PeerChanges(c, s) == state[c] # s /\ state' = [state EXCEPT ![c] = s] /\ UNCHANGED pass /\ Changed
CondFlips(c) == pass' = [pass EXCEPT ![c] = ~@] /\ UNCHANGED state /\ Changed

Next ==
  \/ Compile
  \/ \E src \in Sources, proc \in Flags, dstOK \in BOOLEAN : Arrive(src, proc, dstOK)
  \/ LookAccepts \/ LookGuard \/ Send \/ Drop
  \/ \E c \in Owned, s \in {"no", "held", "live"} : PeerChanges(c, s)
  \/ \E c \in Conds : CondFlips(c)

Spec == Init /\ [][Next]_vars

----------------------------------------------------------------------------
(* Types.                                                                    *)
TypeOK ==
  /\ table \in Tables /\ stage \in {"config", "up", "refused"}
  /\ state \in [Owned -> {"no", "held", "live"}] /\ pass \in [Conds -> BOOLEAN]
  /\ walk \in Walk \cup [pc : {"idle"}, row : 0..Len(table)]
  /\ always \subseteq Owned \cup Conds /\ ever \subseteq Owned \cup Conds

Ends == walk.pc # "idle" /\ walk'.pc = "idle"

(* The row is for packets like the one being routed.                         *)
Fits(i) == table[i].proc \in {Any, walk.proc} /\ table[i].source \in {Any, walk.src}

CondSet(i) == {table[i].conds[k] : k \in DOMAIN table[i].conds}

(* The row could have taken the packet at every instant since it arrived.    *)
Steady(i) ==
  /\ table[i].target \in Pipes \cup always
  /\ CondSet(i) \subseteq always /\ (CondSet(i) \cap DstSets # {} => walk.dstOK)

(* "taking the first target that accepts the owner and passes every guard"   *)
(* (router.go:4-5), while the answers change under the walk: a row that was  *)
(* eligible all along is not passed over, for a drop or for a later row.     *)
FirstSteadyWins ==
  [][Ends => \A i \in Rows : Fits(i) /\ Steady(i) => walk'.row # 0 /\ walk'.row <= i]_vars

(* A packet leaves by a row of the table written for it, whose every guard   *)
(* passed and whose target accepted the owner at some time on the way: a     *)
(* health-gated or geo-split row is never taken while shut (router.go:57-58).*)
LeavesByOpenRow ==
  [][Ends /\ walk'.row # 0 =>
       LET i == walk'.row IN
       /\ Fits(i) /\ CondSet(i) \subseteq ever /\ (CondSet(i) \cap DstSets # {} => walk.dstOK)
       /\ table[i].target \in Pipes \cup ever]_vars

=============================================================================
