------------------------------- MODULE HostNet -------------------------------
(***************************************************************************)
(* The host's network state that dualnet programs, and what the commands   *)
(* it runs do to it: ip route, ip rule, ip addr, ip link, iptables and the *)
(* ip_forward file.  The kernel and these tools are external; they are     *)
(* modelled as run_linux.go and netcfg_linux.go use them.                  *)
(*                                                                         *)
(* A prefix is the set of addresses it covers, so the longest match is the *)
(* smallest set; the default route is Anywhere.  The selector of a rule    *)
(* (from, oif) is the set of origins it selects, an origin being a source  *)
(* address or the device a socket is bound to.                             *)
(***************************************************************************)
EXTENDS Naturals, Sequences, FiniteSets, Bags

CONSTANTS Origins,      \* where packets come from
          Anywhere,     \* the destination addresses
          Native        \* routes of the main table that are not dualnet's

MainTable == 254

MainRule == [prio |-> 32766, from |-> Origins, table |-> MainTable, suppress |-> FALSE]

\* The state of the host h: policy rules [prio, from, table, suppress],
\* dualnet's routes [table, to, dev], a bag of iptables rules, the addresses
\* added to devices, the links created [dev, by], and ip_forward.
Pristine(fwd) ==
    [rules |-> {}, routes |-> {}, ipt |-> EmptyBag, addrs |-> {}, links |-> {}, forward |-> fwd]

\* The longest matching routes of table t for address d.
Matches(h, t, d) ==
    LET hits == {r \in h.routes \cup Native : r.table = t /\ d \in r.to}
    IN {r \in hits : \A s \in hits : Cardinality(r.to) <= Cardinality(s.to)}

\* A rule decides when its table has a route; suppress_prefixlength 0 rejects
\* the default route.
Decides(h, r, o, d) ==
    /\ o \in r.from
    /\ \E m \in Matches(h, r.table, d) : ~(r.suppress /\ m.to = Anywhere)

\* The devices a packet from o to d may leave by: the deciding rule with the
\* lowest priority number wins.
Lookup(h, o, d) ==
    LET deciding == {r \in h.rules \cup {MainRule} : Decides(h, r, o, d)}
        first == {r \in deciding : \A s \in deciding : r.prio <= s.prio}
    IN UNION {{m.dev : m \in Matches(h, r.table, d)} : r \in first}

\* ip route add refuses a prefix its table already has, ip rule add a rule
\* that is there already, ip link add and the opening of a tun a name in use.
Refuses(h, do, x) ==
    CASE do = "route" -> \E r \in h.routes : r.table = x.table /\ r.to = x.to
      [] do = "rule" -> x \in h.rules
      [] do = "link" -> \E l \in h.links : l.dev = x.dev
      [] OTHER -> FALSE

\* Links go, and the routes through them.
WithoutLinks(h, gone) ==
    [h EXCEPT !.links = @ \ gone,
              !.routes = {r \in @ : \A l \in gone : l.dev # r.dev}]

\* ip -batch stops at the first command that fails, so at a repeated prefix.
UpToRepeat(seq) ==
    {seq[i] : i \in {j \in DOMAIN seq : \A m, n \in 1..j : seq[m] = seq[n] => m = n}}

\* What one command makes of the host; a delete of what is not there changes
\* nothing.
After(h, do, x) ==
    CASE do = "route" -> [h EXCEPT !.routes = @ \cup {x}]
      [] do = "replace" -> [h EXCEPT !.routes = {r \in @ : r.table # x.table \/ r.to # x.to} \cup {x}]
      [] do = "delroute" -> [h EXCEPT !.routes = @ \ {x}]
      [] do = "flush" -> [h EXCEPT !.routes = {r \in @ : r.table # x}]
      [] do = "flushof" -> [h EXCEPT !.routes = {r \in @ : r.table # x.table}]
      [] do = "rule" -> [h EXCEPT !.rules = @ \cup {x}]
      [] do = "delrule" -> [h EXCEPT !.rules = @ \ {x}]
      [] do = "delprio" -> [h EXCEPT !.rules = {r \in @ : r.prio # x}]
      [] do = "append" -> [h EXCEPT !.ipt = @ (+) SetToBag({x})]
      [] do = "delete" -> [h EXCEPT !.ipt = @ (-) SetToBag({x})]
      [] do = "addr" -> [h EXCEPT !.addrs = @ \cup {x}]
      [] do = "deladdr" -> [h EXCEPT !.addrs = @ \ {x}]
      [] do = "link" -> [h EXCEPT !.links = @ \cup {x}]
      [] do = "dellink" -> WithoutLinks(h, {l \in h.links : l.dev = x.dev})
      [] do = "forward" -> [h EXCEPT !.forward = TRUE]
      [] do = "unforward" -> [h EXCEPT !.forward = FALSE]
      [] do = "capture" -> [h EXCEPT !.routes = @ \cup x]
      [] do = "release" -> [h EXCEPT !.routes = @ \ x]
      [] OTHER -> h

-----------------------------------------------------------------------------
(* A command of a script: what it does, to what, the command its success   *)
(* registers with the undo chain ("" for none), and whether its failure    *)
(* ends the script.                                                        *)

Hard(do, x, undo) == [do |-> do, arg |-> x, undo |-> undo, hard |-> TRUE]

Soft(do, x, undo) == [do |-> do, arg |-> x, undo |-> undo, hard |-> FALSE]

\* f(seq[1]) \o f(seq[2]) \o ...
Each(seq, f(_)) ==
    LET upTo[n \in 0..Len(seq)] == IF n = 0 THEN <<>> ELSE upTo[n-1] \o f(seq[n])
    IN upTo[Len(seq)]
=============================================================================
