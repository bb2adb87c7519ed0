------------------------------- MODULE MCMesh -------------------------------
(* Networks for Mesh.  In Fork one origin reaches the gateways g and h       *)
(* directly or through the relay r; in Chain the origins o and y share the   *)
(* gateway g and o relays for y (the shape of docs/data-flow.md).            *)
EXTENDS Mesh, TLC

Up(a, b) == [dialer |-> a, acceptor |-> b, flow |-> "to-acceptor", multiple |-> FALSE, setter |-> ""]
Down(a, b) == [Up(b, a) EXCEPT !.flow = "to-dialer"]
Minting(a, b, tun) == [Down(a, b) EXCEPT !.multiple = TRUE, !.setter = tun]

Hop(l) == [name |-> l, paren |-> FALSE]
Exit(e) == [name |-> e, paren |-> TRUE]

Net(nodes, tuns, links, conds, paths) ==
  [tuns |-> tuns, capture |-> [n \in nodes |-> ""], egress |-> [n \in nodes |-> {"e", "f"}],
   links |-> links, conds |-> conds, paths |-> paths]

Geo == [kind |-> "dst"]
Alive(p, gw) == [kind |-> "health", path |-> p, gateway |-> gw]

(* All paths of a node with up to two conditional routes before the default. *)
Paths(name, n, conds, routes) ==
  LET on(c) == {[cond |-> c, tokens |-> t] : t \in routes} IN
  {[name |-> name, node |-> n, routes |-> rs] :
     rs \in {<<d>> : d \in on("default")}
        \cup UNION {{<<a, d>> : a \in on(c), d \in on("default")} : c \in conds}
        \cup UNION {{<<a, b, d>> : a \in on(c[1]), b \in on(c[2]), d \in on("default")} :
                      c \in {cc \in conds \X conds : cc[1] # cc[2]}}}

ForkNodes == {"o", "r", "g", "h"}
ForkLinks ==
  "or" :> Up("o", "r") @@ "og" :> Up("o", "g") @@ "rg" :> Up("r", "g") @@ "rh" :> Up("r", "h") @@
  "go" :> Minting("g", "o", "t") @@ "ho" :> Down("h", "o") @@ "gr" :> Down("g", "r") @@ "ro" :> Down("r", "o")
ForkRoutes ==
  {<<Hop("e")>>, <<Hop("og"), Exit("e"), Hop("go")>>, <<Hop("or"), Hop("rg"), Exit("e"), Hop("go")>>,
   <<Hop("or"), Hop("rg"), Exit("f"), Hop("gr"), Hop("ro")>>, <<Hop("or"), Hop("rh"), Exit("e"), Hop("ho")>>}
ForkConds == "a" :> Geo @@ "b" :> Geo @@ "up" :> Alive("main", "g")
Fork ==
  {Net(ForkNodes, [n \in ForkNodes |-> IF n = "o" THEN {"t"} ELSE {}], ForkLinks, ForkConds, <<p>>) :
     p \in Paths("main", "o", DOMAIN ForkConds, ForkRoutes)}

ChainNodes == {"o", "y", "g"}
ChainLinks ==
  "og" :> Up("o", "g") @@ "yo" :> Up("y", "o") @@ "yg" :> Up("y", "g") @@
  "go" :> Down("g", "o") @@ "oy" :> Down("o", "y")
ChainConds == "a" :> Geo @@ "up" :> Alive("main", "")
Chain ==
  {Net(ChainNodes, [n \in ChainNodes |-> IF n = "g" THEN {} ELSE {"t"}], ChainLinks, ChainConds, ps) :
     ps \in UNION {{<<p, q>>, <<q, p>>} :
       p \in Paths("main", "o", {"a", "up"}, {<<Hop("e")>>} \cup {<<Hop("og"), Exit(e), Hop("go")>> : e \in {"e", "f"}}),
       q \in Paths("", "y", {"a"}, {<<Hop("yg"), Exit("e"), Hop("go"), Hop("oy")>>} \cup
                                   {<<Hop("yo"), Hop("og"), Exit(e), Hop("go"), Hop("oy")>> : e \in {"e", "f"}})}}

(* Paths that meet on a link agree on what follows, but for the replies the  *)
(* meeting node's own tun picks out: qualifyRules tells the branches of one  *)
(* path apart, not those of two.                                             *)
PathsApart(s) ==
  LET of(p) == UNION {Range(BranchRules(s, p, br)) : br \in Range(Branches(p))} IN
  \A p, q \in Range(s.paths) : p # q =>
    \A x \in of(p), y \in of(q) :
      x.node = y.node /\ x.proc = y.proc /\ x.source = y.source =>
        Action(x) = Action(y) \/ (x.proc /\ s.tuns[x.node] \cap {x.target, y.target} # {})

MCSchemas == Fork \cup {s \in Chain : validate(s) /\ PathsApart(s)}
=============================================================================
