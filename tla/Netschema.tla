----------------------------- MODULE Netschema -----------------------------
(***************************************************************************)
(* internal/netschema: a network written as nodes, links and paths is      *)
(* compiled into one routing table per node.  validate and Compile with    *)
(* what they refuse, down to config.Validate of every generated node.      *)
(* Userspace nodes; addresses, devices, protocols and deployment are left  *)
(* out.                                                                    *)
(*                                                                         *)
(* A schema s:                                                             *)
(*   s.tuns[n], s.capture[n]  tuns of node n, the capturing one or ""      *)
(*   s.egress[n]              egresses of node n                           *)
(*   s.links[l]               dialer, acceptor, flow, multiple, setter     *)
(*   s.conds[c]               kind "dst", "src" or "health"; the latter    *)
(*                            with the path and the gateway it probes      *)
(*   s.paths                  sequence of [name, node, routes], a route    *)
(*                            being its condition and its tokens           *)
(***************************************************************************)
EXTENDS Integers, FiniteSets, SequencesExt

Nodes(s) == DOMAIN s.tuns

targetOf(l) == IF l.flow = "to-acceptor" THEN l.acceptor ELSE l.dialer
senderOf(l) == IF l.flow = "to-acceptor" THEN l.dialer ELSE l.acceptor

(* The one token in parentheses is the egress; a lone token may go without.  *)
Exits(tokens) == {i \in DOMAIN tokens : tokens[i].paren}
Readable(tokens) ==
  \/ Cardinality(Exits(tokens)) = 1
  \/ Exits(tokens) = {} /\ Len(tokens) = 1

(* Up-links before the egress, down-links behind it.                         *)
parseBranch(route) ==
  LET tokens == route.tokens
      at == IF Exits(tokens) = {} THEN 1 ELSE CHOOSE i \in Exits(tokens) : TRUE
      names == [i \in DOMAIN tokens |-> tokens[i].name]
  IN  [when |-> IF route.cond = "default" THEN <<>> ELSE <<route.cond>>, egress |-> names[at],
       up |-> SubSeq(names, 1, at - 1), down |-> SubSeq(names, at + 1, Len(names))]

Branches(p) == [i \in DOMAIN p.routes |-> parseBranch(p.routes[i])]

(* The tun a path starts from: the capturing one, else the only one.         *)
OriginTuns(s, n) == IF s.capture[n] # "" THEN {s.capture[n]} ELSE s.tuns[n]
HasOrigin(s, n) == Cardinality(OriginTuns(s, n)) = 1
originTun(s, n) == CHOOSE t \in OriginTuns(s, n) : TRUE

(* The gateway is where the last up-link ends, "" for a local branch; the    *)
(* down-path must start there.                                               *)
gatewayOf(s, br) == IF br.up = <<>> THEN "" ELSE targetOf(s.links[Last(br.up)])
GatewayKnown(s, br) ==
  /\ br.up = <<>> => br.down = <<>>
  /\ br.up # <<>> => Last(br.up) \in DOMAIN s.links
  /\ br.down # <<>> => /\ Head(br.down) \in DOMAIN s.links
                       /\ senderOf(s.links[Head(br.down)]) = gatewayOf(s, br)

ValidBranches(s, brs) ==
  /\ \E i \in DOMAIN brs : brs[i].when = <<>>
  /\ \A i, j \in DOMAIN brs : i < j /\ brs[i].when = <<>> => brs[j].when = <<>>
  /\ \A i \in DOMAIN brs :
       /\ \A c \in Range(brs[i].when) : c \in DOMAIN s.conds /\ s.conds[c].kind # "src"
       /\ Range(brs[i].up) \cup Range(brs[i].down) \subseteq DOMAIN s.links

(* Network.validate                                                          *)
validate(s) ==
  /\ \A l \in DOMAIN s.links : {s.links[l].dialer, s.links[l].acceptor} \subseteq Nodes(s)
  /\ \A i, j \in DOMAIN s.paths : i # j =>
       s.paths[i].node # s.paths[j].node /\ (s.paths[i].name # "" => s.paths[i].name # s.paths[j].name)
  /\ \A c \in DOMAIN s.conds : s.conds[c].kind = "health" =>
       s.conds[c].path # "" /\ \E i \in DOMAIN s.paths : s.paths[i].name = s.conds[c].path
  /\ \A i \in DOMAIN s.paths : LET p == s.paths[i] IN
       /\ \A k \in DOMAIN p.routes : Readable(p.routes[k].tokens)
       /\ p.node \in Nodes(s) /\ HasOrigin(s, p.node)
       /\ \A k \in DOMAIN p.routes : GatewayKnown(s, Branches(p)[k])
       /\ ValidBranches(s, Branches(p))

----------------------------------------------------------------------------
(* deriveRoutes: the rules of one branch, from the origin to the gateway and *)
(* back.  `when` and `relay` serve qualifyRules only.                        *)
Rule(n, proc, source, conds, egress, target) ==
  [node |-> n, proc |-> proc, source |-> source, conds |-> conds, egress |-> egress, target |-> target,
   relay |-> FALSE, when |-> <<>>]

OfBranch(r, br) == [r EXCEPT !.relay = TRUE, !.when = br.when]

BranchRules(s, p, br) ==
  LET tun == originTun(s, p.node)
      up == br.up  down == br.down
      hop(l) == targetOf(s.links[l])
      back == IF down = <<>> THEN tun ELSE Head(down)
      relays == [i \in 1..Len(up) - 1 |-> OfBranch(Rule(hop(up[i]), FALSE, up[i], <<>>, "", up[i + 1]), br)]
      returns == [j \in 1..Len(down) - 1 |-> Rule(hop(down[j]), TRUE, down[j], <<>>, "", down[j + 1])]
  IN  IF up = <<>> THEN <<Rule(p.node, FALSE, tun, br.when, br.egress, tun)>>
      ELSE <<Rule(p.node, FALSE, tun, br.when, "", Head(up))>> \o relays
           \o <<OfBranch(Rule(gatewayOf(s, br), FALSE, Last(up), <<>>, br.egress, back), br)>>
           \o (IF down = <<>> THEN <<>> ELSE Append(returns, Rule(p.node, TRUE, Last(down), <<>>, "", tun)))

(* relayNode: each link is sent from where the one before it ends.           *)
Chained(s, links) ==
  \A i \in 1..Len(links) - 1 : targetOf(s.links[links[i]]) = senderOf(s.links[links[i + 1]])

Oriented(s, p, br) ==
  br.up # <<>> =>
    /\ senderOf(s.links[Head(br.up)]) = p.node /\ Chained(s, br.up)
    /\ br.down # <<>> => Chained(s, br.down) /\ targetOf(s.links[Last(br.down)]) = p.node

Pending(s) ==
  FlattenSeq([i \in DOMAIN s.paths |->
    LET p == s.paths[i] IN FlattenSeq([k \in DOMAIN p.routes |-> BranchRules(s, p, Branches(p)[k])])])

(* qualifyRules: where branches arriving together part, each restates the    *)
(* conditions that can be read off the packet.                               *)
Meets(r, q) == q.relay /\ r.relay /\ q.node = r.node /\ q.source = r.source
Diverges(pend, r) == \E q \in Range(pend) : Meets(r, q) /\ <<q.egress, q.target>> # <<r.egress, r.target>>
Restated(s, r) == SelectSeq(r.when, LAMBDA c : s.conds[c].kind = "dst")

(* Slip: the diverging rules keep no condition.                              *)
qualifyRules_none(s, pend) == pend

qualifyRules(s, pend) ==
  [i \in DOMAIN pend |->
    IF Diverges(pend, pend[i]) THEN [pend[i] EXCEPT !.conds = Restated(s, pend[i])] ELSE pend[i]]

Qualifies(s, pend) ==
  \A i \in DOMAIN pend : Diverges(pend, pend[i]) =>
    /\ pend[i].when # <<>> => Restated(s, pend[i]) # <<>>
    /\ Restated(s, pend[i]) # <<>> => ~\E j \in 1..i - 1 : Meets(pend[i], pend[j]) /\ pend[j].when = <<>>

(* emitRules: exact duplicates are dropped, finalize rules that share a      *)
(* match and differ are refused.                                             *)
Match(r) == <<r.node, r.proc, r.source, r.conds>>
Action(r) == <<r.egress, r.target>>

Distinct(rules) ==
  \A q, r \in Range(rules) : Match(q) = Match(r) /\ q.egress # "" /\ r.egress # "" => Action(q) = Action(r)

emitRules(rules, n) ==
  LET fresh == {i \in DOMAIN rules : rules[i].node = n /\
                  ~\E j \in 1..i - 1 : Match(rules[j]) = Match(rules[i]) /\ Action(rules[j]) = Action(rules[i])}
  IN  [k \in 1..Cardinality(fresh) |-> rules[SetToSortSeq(fresh, <)[k]]]

(* Slip: the derivation order is kept.                                       *)
tunFirst_asDerived(s, n, rules) == rules

(* The sort that ends deriveRoutes: replies are offered to the own tun first *)
tunFirst(s, n, rules) ==
  LET own(r) == r.proc /\ r.target = originTun(s, n)
      other(r) == ~own(r)
  IN  IF HasOrigin(s, n) THEN SelectSeq(rules, own) \o SelectSeq(rules, other) ELSE rules

Rules(s) == qualifyRules(s, Pending(s))
Compile(s) == LET rules == Rules(s) IN [n \in Nodes(s) |-> tunFirst(s, n, emitRules(rules, n))]

----------------------------------------------------------------------------
(* gatewayBranch: the branches of its path a healthcheck may mean.           *)
Probed(s, c) == CHOOSE p \in Range(s.paths) : p.name = s.conds[c].path
GatewayBranches(s, c) ==
  LET brs == Branches(Probed(s, c)) IN
  {i \in DOMAIN brs : brs[i].up # <<>> /\ s.conds[c].gateway \in {"", gatewayOf(s, brs[i])}}

Health(s) == {c \in DOMAIN s.conds : s.conds[c].kind = "health"}
gatewayBranch(s, c) == Branches(Probed(s, c))[CHOOSE i \in GatewayBranches(s, c) : TRUE]

(* emitConditions: one branch to probe, its verdict used on its origin only. *)
emitConditions(s) ==
  /\ \A c \in Health(s) : Cardinality(GatewayBranches(s, c)) = 1
  /\ \A p \in Range(s.paths), c \in Health(s) :
       (\E br \in Range(Branches(p)) : c \in Range(br.when)) => Probed(s, c).node = p.node

(* validateConditions: one healthcheck per tun.                              *)
validateConditions(s) == \A c, d \in Health(s) : c # d => Probed(s, c).node # Probed(s, d).node

(* addLinkConnections: an id-setter tun sits on the dialer of a downlink     *)
(* that mints ids.                                                           *)
Setters(s) ==
  \A l \in Range(s.links) : l.setter # "" => l.flow = "to-dialer" /\ l.multiple /\ l.setter \in s.tuns[l.dialer]

Ends(s, n) == {l \in DOMAIN s.links : n \in {s.links[l].dialer, s.links[l].acceptor}}

(* validateUserspace of a generated node: it has connections, with distinct  *)
(* names.                                                                    *)
validateUserspace(s, n) ==
  /\ s.tuns[n] \cup Ends(s, n) # {} /\ s.tuns[n] \cap Ends(s, n) = {}
  /\ \A l \in Ends(s, n) : s.links[l].dialer # s.links[l].acceptor

validateRoutes(s, n, rules) ==
  \A r \in Range(rules) :
    /\ {r.source, r.target} \subseteq s.tuns[n] \cup Ends(s, n)
    /\ r.egress # "" => r.egress \in s.egress[n] /\ ~r.proc
    /\ r.proc => r.conds = <<>>

(* The schemas that Load and Compile let pass.                               *)
Accepted(s) ==
  /\ validate(s) /\ Setters(s)
  /\ \A p \in Range(s.paths) : \A br \in Range(Branches(p)) : Oriented(s, p, br)
  /\ Qualifies(s, Pending(s)) /\ Distinct(Rules(s)) /\ emitConditions(s) /\ validateConditions(s)
  /\ \A n \in Nodes(s) : validateUserspace(s, n) /\ validateRoutes(s, n, Compile(s)[n])

=============================================================================
