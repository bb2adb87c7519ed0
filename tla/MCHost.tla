------------------------------- MODULE MCHost -------------------------------
(***************************************************************************)
(* A host with two WANs and a LAN, for TLC.                                *)
(***************************************************************************)
EXTENDS Host

CONSTANTS p1, p2, p3,   \* pids
          s1, s2,       \* LAN hosts; s1 is a leg of the policy
          l1,           \* an address of the connected LAN
          d1, d2,       \* destinations on the internet
          ep1,          \* the endpoint of the warp egress
          a1            \* a source address

MCAnywhere == {s1, l1, d1, d2, ep1}

MCOrigins == {s1, s2, Bound("wan1"), Bound("wan2")}

MCNative == {[table |-> MainTable, to |-> MCAnywhere, dev |-> "wan1"],
             [table |-> MainTable, to |-> {l1}, dev |-> "lan0"]}

MCLists == {"geo", "one", "both"}

MCFiles == {"geo"}

\* A list, a list with a repeated line, and a file that does not read.
MCContents == {<<{d1}>>, <<{d2}, {d2}, {d1}>>, Bad}

MCStatic == [one |-> <<{d1}>>, both |-> <<{d1, d2}>>]

Out(mode, exit, tun, ep) == [mode |-> mode, exit |-> exit, tun |-> tun, ep |-> ep]

Src(set, e) == [when |-> "src", set |-> set, egress |-> e]

Dst(set, e) == [when |-> "dst", set |-> set, egress |-> e]

Rest(e) == [when |-> "default", set |-> "", egress |-> e]

\* A kernel node, and the bounds it is explored with.
KernelNode(egresses, lans, policy, pids, maxDeaths) ==
    [path |-> "kernel", egresses |-> egresses, lans |-> lans, forward |-> policy,
     pids |-> pids, maxDeaths |-> maxDeaths]

OneWan == <<Out("kernel", "wan1", "", ep1)>>

TwoWans == <<Out("kernel", "wan1", "", ep1), Out("kernel", "wan2", "", ep1)>>

WanAndWarp == <<Out("kernel", "wan1", "", ep1), Out("warp", "wan2", "wg0", ep1)>>

TwoWarps == <<Out("warp", "wan1", "wg0", ep1), Out("warp", "wan2", "wg1", ep1)>>

\* A userspace node, likewise.
UserspaceNode(egresses, sources, capture, lans, pids, maxDeaths) ==
    [path |-> "userspace", egresses |-> egresses, sources |-> sources, tun |-> "tun0",
     capture |-> capture, lans |-> lans, halves |-> {{s1, d1}, {l1, d2, ep1}},
     pids |-> pids, maxDeaths |-> maxDeaths]

\* Every kind of branch, through two crashes; a file that is reloaded, with a
\* crash; two branches of each kind over overlapping lists; a policy that
\* validation refuses; two warp egresses that would need one endpoint by
\* different WANs; a userspace node with each kind of egress, through a crash;
\* and small nodes under two and three processes that take over from one
\* another.
MCConfigs == {
    KernelNode(WanAndWarp, <<"lan0">>, <<Src(<<{s1}>>, 2), Dst("one", 1), Rest(2)>>, {p1}, 2),
    KernelNode(WanAndWarp, <<>>, <<Dst("geo", 1), Rest(2)>>, {p1}, 1),
    KernelNode(TwoWans, <<"lan0">>, <<Src(<<{s1}, {s2}>>, 1), Src(<<{s1}>>, 2),
                                      Dst("one", 2), Dst("both", 1), Rest(2)>>, {p1}, 0),
    KernelNode(TwoWans, <<>>, <<Dst("one", 2), Src(<<{s1}>>, 1), Rest(1)>>, {p1}, 0),
    KernelNode(TwoWarps, <<>>, <<Rest(1)>>, {p1}, 1),
    UserspaceNode(<<Out("kernel", "wan1", "eg0", ep1), Out("direct", "wan1", "", ep1),
                    Out("direct", "wan2", "", ep1)>>, <<a1>>, TRUE, <<"lan0">>, {p1}, 1),
    KernelNode(OneWan, <<>>, <<Rest(1)>>, {p1, p2}, 1),
    UserspaceNode(<<>>, <<>>, FALSE, <<>>, {p1, p2, p3}, 0)}
=============================================================================
