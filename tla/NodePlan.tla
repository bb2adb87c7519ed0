------------------------------ MODULE NodePlan ------------------------------
(***************************************************************************)
(* What the userspace datapath does to the host (node.RunWith, buildEgress *)
(* and netcfg on Linux), as a script of commands.                          *)
(*                                                                         *)
(* A config c: c.egresses the named egresses a rule uses, each             *)
(* [mode, exit, tun]; c.sources the (address, device) pairs its links bind *)
(* to; c.tun its tun connection, which captures the default route when     *)
(* c.capture and forwards the devices of c.lans (at most one) into it.     *)
(* The packet engine itself is in the other modules: "serve" stands for    *)
(* building and starting it.                                               *)
(***************************************************************************)
EXTENDS HostNet

ifacePinBaseTable == 220

\* A socket bound to dev is an origin of its own.
Bound(dev) == <<"bound", dev>>

Tun(dev, p) == [dev |-> dev, by |-> p]

\* ConfigureNAT and ConfigureLANForward turn forwarding on, then append; of
\* their five rules the FORWARD rules are one item here, the MASQUERADE and
\* the MSS clamps the other.
Masquerade(ruleSeq) ==
    <<Hard("forward", "ip_forward", "unforward")>>
    \o Each(ruleSeq, LAMBDA r : <<Hard("append", r, "delete")>>)

ConfigureNAT(tun, exit) == Masquerade(<<<<"forward", tun, exit>>, <<"masquerade", tun>>>>)

ConfigureLANForward(lan, tun) == Masquerade(<<<<"forward", lan, tun>>, <<"masquerade", tun>>>>)

\* A kernel egress opens a tun and sets up NAT; direct and warp egresses are
\* a netstack inside the process.
buildEgress(e, p) ==
    IF e.mode = "kernel"
    THEN <<Hard("link", Tun(e.tun, p), "dellink")>> \o ConfigureNAT(e.tun, e.exit)
    ELSE <<>>


PinIfaceDefault(dev, table) ==
    << Soft("flush", table, ""),
       Hard("replace", [table |-> table, to |-> Anywhere, dev |-> dev], "flushof"),
       Soft("delprio", table, ""),
       Hard("rule", [prio |-> table, from |-> {Bound(dev)}, table |-> table, suppress |-> FALSE],
            "delrule") >>

\* One table per distinct device of a direct egress, numbered in the order of
\* a walk over a Go map.
pinDirectEgressIfaces(devs) ==
    Each([i \in DOMAIN devs |-> i], LAMBDA i : PinIfaceDefault(devs[i], ifacePinBaseTable + (i - 1)))

DirectDevs(c) == {e.exit : e \in {c.egresses[i] : i \in {j \in DOMAIN c.egresses :
                                                          c.egresses[j].mode = "direct"}}}

\* The two halves of the address space: both shadow the default route and
\* neither is one.
Halves(c) == {[table |-> MainTable, to |-> half, dev |-> c.tun] : half \in c.halves}

\* Every distinct source address a link binds to.
sourceAddrs(c) == Each(c.sources, LAMBDA a : <<Hard("addr", a, "deladdr")>>)

\* The tun connection.  It has no undo of its own until its connection has
\* started; a capturer's release is registered before anything is captured.
openTun(c, p) ==
    <<Hard("link", Tun(c.tun, p), "")>>
    \o (IF c.capture THEN <<Soft("none", Halves(c), "release")>>
                          \o Each(c.lans, LAMBDA lan : ConfigureLANForward(lan, c.tun))
                     ELSE <<>>)

\* The connections, conditions and the router are built and started: as far
\* as the host goes one step, which fails if any of them does.
serve(c, p) == <<Hard("serve", Tun(c.tun, p), "dellink")>>

\* The capture comes last, once everything runs; its failure is only logged.
Capture(c) == IF c.capture THEN <<Soft("capture", Halves(c), "")>> ELSE <<>>

\* RunWith in process p, the map of egresses walked in the order devs.
NodeScript(c, p, devs) ==
    Each(c.egresses, LAMBDA e : buildEgress(e, p))
    \o pinDirectEgressIfaces(devs)
    \o sourceAddrs(c) \o openTun(c, p) \o serve(c, p) \o Capture(c)
=============================================================================
