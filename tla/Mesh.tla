-------------------------------- MODULE Mesh --------------------------------
(***************************************************************************)
(* A compiled network at work: the nodes run the tables of Netschema, every*)
(* link is up and every peer attached.  One packet is followed from the tun*)
(* it was captured on, hop by hop, out to the internet and back; or one    *)
(* healthcheck ping, injected on the first up-link of the branch it probes.*)
(***************************************************************************)
EXTENDS Netschema

CONSTANTS Schemas   \* networks to try

VARIABLES
  schema,
  table,    \* node -> its routing table
  health,   \* health condition -> the driver's verdict
  pkt,      \* the packet
  want,     \* where the schema says it is finalized: node and egress
  exit      \* where it was

vars == <<schema, table, health, pkt, want, exit>>

Nowhere == <<>>
Unborn == [st |-> "unborn"]

Init ==
  /\ schema \in {s \in Schemas : Accepted(s)}
  /\ table = Compile(schema)
  /\ health \in [Health(schema) -> BOOLEAN]
  /\ pkt = Unborn /\ want = Nowhere /\ exit = Nowhere

(* A tun takes its own owner; a downlink that mints ids takes the owner it   *)
(* assigned; any other sender takes everything.                              *)
Accepts(n, conn, owner) ==
  IF conn \in schema.tuns[n] THEN owner = <<n, conn>>
  ELSE LET l == schema.links[conn] IN
       senderOf(l) = n /\ (l.flow = "to-dialer" /\ l.multiple => owner = <<l.dialer, l.setter>>)

(* dst_in looks at the packet, and a ping has no destination.                *)
Holds(c) == IF schema.conds[c].kind = "dst" THEN c \in pkt.dst ELSE health[c]

(* router.dispatch: the rows of an arrival that would take the packet.       *)
Eligible ==
  {i \in DOMAIN table[pkt.at] : LET r == table[pkt.at][i] IN
     /\ r.proc = pkt.proc /\ r.source = pkt.from
     /\ Accepts(pkt.at, r.target, pkt.owner) /\ \A c \in Range(r.conds) : Holds(c)}

(* Sending on a connection: into the tun, or over the link.                  *)
Sent(p, conn) ==
  IF conn \in schema.tuns[p.at] THEN [p EXCEPT !.st = "home"]
  ELSE [p EXCEPT !.st = "in", !.at = targetOf(schema.links[conn]), !.from = conn]

Born(n, tun, dst, ping) ==
  [st |-> "in", at |-> n, from |-> tun, proc |-> FALSE, owner |-> <<n, tun>>, dst |-> dst, ping |-> ping]

(* What a path promises: the first branch whose condition holds.             *)
FirstBranch(p, dst) ==
  LET brs == Branches(p)
      true(c) == IF schema.conds[c].kind = "dst" THEN c \in dst ELSE health[c]
      open == {i \in DOMAIN brs : \A c \in Range(brs[i].when) : true(c)}
  IN  brs[CHOOSE i \in open : \A j \in open : i <= j]

ExitOf(p, br) == <<IF br.up = <<>> THEN p.node ELSE gatewayOf(schema, br), br.egress>>

(* The tun reads a packet for destinations in dst and the origin routes it.  *)
Capture(p, dst) ==
  /\ pkt.st = "unborn"
  /\ pkt' = Born(p.node, originTun(schema, p.node), dst, FALSE)
  /\ want' = ExitOf(p, FirstBranch(p, dst))
  /\ UNCHANGED <<schema, table, health, exit>>

Probe(c) ==
  LET n == Probed(schema, c).node IN
  /\ pkt.st = "unborn"
  /\ pkt' = Sent(Born(n, originTun(schema, n), {}, TRUE), Head(gatewayBranch(schema, c).up))
  /\ want' = <<gatewayOf(schema, gatewayBranch(schema, c))>>
  /\ UNCHANGED <<schema, table, health, exit>>

(* The first eligible row forwards or finalizes; without one the packet is   *)
(* dropped.  A finalized packet comes back as a reply to the same owner,     *)
(* straight to the row's target; a ping is turned round at once.             *)
Route ==
  /\ pkt.st = "in"
  /\ IF Eligible = {} THEN pkt' = [pkt EXCEPT !.st = "dropped"] /\ UNCHANGED exit
     ELSE LET r == table[pkt.at][CHOOSE i \in Eligible : \A j \in Eligible : i <= j] IN
          /\ pkt' = Sent(IF r.egress = "" THEN pkt ELSE [pkt EXCEPT !.proc = TRUE], r.target)
          /\ exit' = IF r.egress = "" THEN exit ELSE IF pkt.ping THEN <<pkt.at>> ELSE <<pkt.at, r.egress>>
  /\ UNCHANGED <<schema, table, health, want>>

Next ==
  \/ \E p \in Range(schema.paths), dst \in SUBSET {c \in DOMAIN schema.conds : schema.conds[c].kind = "dst"} : Capture(p, dst)
  \/ \E c \in Health(schema) : Probe(c)
  \/ Route

Spec == Init /\ [][Next]_vars
FairSpec == Spec /\ WF_vars(Route)

----------------------------------------------------------------------------
(* Branches part behind a link: a node tells by their conditions the packets *)
(* that came over it.                                                        *)
Parting == \E n \in DOMAIN table : \E r \in Range(table[n]) : r.source \notin schema.tuns[n] /\ r.conds # <<>>

(* schema.go:188 "The first branch whose condition holds routes the packet": *)
(* it leaves at the gateway and by the egress of that branch, however the    *)
(* branches share links and part on the way.  A ping is turned round by the  *)
(* gateway of the branch it probes, unless branches part: it has no          *)
(* destination and goes with the default one there.                          *)
RightExit == exit # Nowhere => exit = want \/ (pkt.ping /\ Parting)

(* A captured packet goes out once and its reply comes back to the tun it    *)
(* was captured on, over any number of relays (docs/data-flow.md:15-22).     *)
Returns == (pkt.st = "in" /\ ~pkt.ping) ~> (pkt.st = "home" /\ pkt.proc)

=============================================================================
