----------------------------- MODULE KernelPlan -----------------------------
(***************************************************************************)
(* The kernel datapath (internal/kernelnode): how a config with an ordered *)
(* forward policy is lowered to policy routing and iptables, as the script *)
(* of commands setupWarpDevices, lower and apply run.                      *)
(*                                                                         *)
(* A config c: c.egresses is the sequence of its egresses in name order,   *)
(* each [mode, exit, tun, ep] (the WAN it leaves by, for a warp egress its *)
(* WireGuard device and endpoint); c.lans the LAN devices; c.forward the   *)
(* branches [when, set, egress], set a list of prefixes for "src" and the  *)
(* name of a prefix list for "dst", egress an index.  Gateways and MTUs    *)
(* are left out.                                                           *)
(***************************************************************************)
EXTENDS HostNet

tableEgressBase == 300
tableGeoBase == 350
prioMain == 10000
prioSrcBase == 11000
prioDstBase == 12000
prioDefault == 13000

\* config.validateForward: src_in branches, then dst_in, then one default.
ForwardValid(c) ==
    LET f == c.forward
        rank(b) == CASE b.when = "src" -> 0 [] b.when = "dst" -> 1 [] OTHER -> 2
    IN /\ f # <<>>
       /\ \A i \in DOMAIN f : f[i].egress \in DOMAIN c.egresses
       /\ \A i, j \in DOMAIN f : i < j => rank(f[i]) <= rank(f[j]) /\ rank(f[i]) < 2
       /\ f[Len(f)].when = "default"

\* resolveWANs: a warp egress leaves by its WireGuard device.
WanDev(e) == IF e.mode = "warp" THEN e.tun ELSE e.exit

\* lower refuses an endpoint that two underlays would have to carry.
PinClash(c) ==
    \E i, j \in DOMAIN c.egresses :
        LET a == c.egresses[i]
            b == c.egresses[j]
        IN a.mode = "warp" /\ b.mode = "warp" /\ a.ep = b.ep /\ a.exit # b.exit

egTable(i) == tableEgressBase + (i - 1)

geoTable(j) == tableGeoBase + (j - 1)

\* The masquerade and the MSS clamp are one item here, the two FORWARD rules
\* of a LAN another: the rules of an item are handled alike.
masqRules(dev, lans) ==
    <<<<"masquerade", dev>>>> \o Each(lans, LAMBDA lan : <<<<"forward", lan, dev>>>>)

hostRoute(e) == [table |-> MainTable, to |-> {e.ep}, dev |-> e.exit]

onLinkRoute(ip, lan) == [table |-> MainTable, to |-> ip, dev |-> lan]

ruleLookup(prio, from, table) ==
    [prio |-> prio, from |-> from, table |-> table, suppress |-> FALSE]

ruleMainSuppress ==
    [prio |-> prioMain, from |-> Origins, table |-> MainTable, suppress |-> TRUE]

Branches(c, kind) == SelectSeq(c.forward, LAMBDA b : b.when = kind)

\* The source prefixes in branch order, each with its egress.
Legs(c) == Each(Branches(c, "src"),
                LAMBDA b : [k \in DOMAIN b.set |-> [ip |-> b.set[k], egress |-> b.egress]])

\* The first occurrences only (epPinned, seenLeg).
Distinct(seq) ==
    Each([i \in DOMAIN seq |-> i],
         LAMBDA i : IF \E j \in 1..(i-1) : seq[j] = seq[i] THEN <<>> ELSE <<seq[i]>>)

mainRoutes(c) ==
    Distinct(Each(c.egresses, LAMBDA e : IF e.mode = "warp" THEN <<hostRoute(e)>> ELSE <<>>))
    \o (IF c.lans = <<>> THEN <<>>
        ELSE Distinct(Each(Legs(c), LAMBDA l : <<onLinkRoute(l.ip, c.lans[1])>>)))

\* The slip: the rule that lets main's specific routes win is added last.
rules_suppressLast(c) ==
    LET legs == Legs(c)
        dsts == Branches(c, "dst")
        last == Branches(c, "default")[1]
    IN [k \in DOMAIN legs |-> ruleLookup(prioSrcBase + (k - 1), legs[k].ip, egTable(legs[k].egress))]
       \o [j \in DOMAIN dsts |-> ruleLookup(prioDstBase + (j - 1), Origins, geoTable(j))]
       \o <<ruleLookup(prioDefault, Origins, egTable(last.egress)), ruleMainSuppress>>

\* Branch order is src, dst, default, so lower's one pass emits them so.
rules(c) ==
    LET legs == Legs(c)
        dsts == Branches(c, "dst")
        last == Branches(c, "default")[1]
    IN <<ruleMainSuppress>>
       \o [k \in DOMAIN legs |-> ruleLookup(prioSrcBase + (k - 1), legs[k].ip, egTable(legs[k].egress))]
       \o [j \in DOMAIN dsts |-> ruleLookup(prioDstBase + (j - 1), Origins, geoTable(j))]
       \o <<ruleLookup(prioDefault, Origins, egTable(last.egress))>>

\* The dst_in branches as geoBindings.
geo(c) ==
    LET dsts == Branches(c, "dst")
    IN [j \in DOMAIN dsts |-> [set |-> dsts[j].set, table |-> geoTable(j),
                               dev |-> WanDev(c.egresses[dsts[j].egress])]]

tables(c) == [i \in DOMAIN c.egresses |-> egTable(i)] \o [j \in DOMAIN geo(c) |-> geo(c)[j].table]

\* The leftover link goes, the link is made again.
SetupKernelDevice(dev) ==
    LET link == [dev |-> dev, by |-> "wg"]
    IN <<Soft("dellink", link, ""), Hard("link", link, "dellink")>>

setupWarpDevices(c) ==
    Each(c.egresses, LAMBDA e : IF e.mode = "warp" THEN SetupKernelDevice(e.tun) ELSE <<>>)

\* The slip: iptables rules are appended without deleting a leaked copy first.
Reassert_stacked(del, add, x) ==
    (IF add = "append" THEN <<>> ELSE <<Soft(del, x, "")>>) \o <<Hard(add, x, del)>>

\* Delete a crash-leaked copy, add, and register the delete.
Reassert(del, add, x) == <<Soft(del, x, ""), Hard(add, x, del)>>

apply(c) ==
    <<Hard("forward", "ip_forward", "unforward")>>
    \o [i \in DOMAIN tables(c) |-> Soft("flush", tables(c)[i], "flush")]
    \o [i \in DOMAIN c.egresses |->
            Hard("route", [table |-> egTable(i), to |-> Anywhere, dev |-> WanDev(c.egresses[i])], "")]
    \o Each(mainRoutes(c), LAMBDA r : Reassert("delroute", "route", r))
    \o Each(rules(c), LAMBDA r : Reassert("delrule", "rule", r))
    \o Each(Each(c.egresses, LAMBDA e : masqRules(WanDev(e), c.lans)),
            LAMBDA r : Reassert("delete", "append", r))
    \o [j \in DOMAIN geo(c) |-> Hard("geo", geo(c)[j], "")]

\* Runtime.Run up to the wait for the end of its context; "lower" is the point
\* where the config may be found impossible.
KernelScript(c) == setupWarpDevices(c) \o <<Hard("lower", PinClash(c), "")>> \o apply(c)

-----------------------------------------------------------------------------

\* What the forward policy means, from its branches alone: the first branch
\* that matches names the egress.  loaded is the set of prefixes of each list.
PolicyExit(c, loaded, o, d) ==
    LET matches(b) == \/ b.when = "default"
                      \/ b.when = "src" /\ \E k \in DOMAIN b.set : o \in b.set[k]
                      \/ b.when = "dst" /\ \E pfx \in loaded[b.set] : d \in pfx
        hits == {i \in DOMAIN c.forward : matches(c.forward[i])}
        first == CHOOSE i \in hits : \A j \in hits : i <= j
    IN WanDev(c.egresses[c.forward[first].egress])
=============================================================================
