----------------------------- MODULE ReturnPath -----------------------------
(***************************************************************************)
(* What every ListenOut connection promises its node, whatever carries its *)
(* packets: at any time each owner has at most one stream that leads to    *)
(* it; only a fresher control takes an attached owner to another stream;   *)
(* and no more than Cap owners are attached.  Implemented by the registry  *)
(* the udp and tcp carriers share (Peers, and TcpDown under its streams)   *)
(* and by the http carrier's own one (HttpDown).                           *)
(***************************************************************************)
EXTENDS Naturals, FiniteSets

CONSTANTS
  Owners, Streams, Stamps,
  Cap    \* on the owners attached at a time

VARIABLE att   \* owner -> Off, or its stream and the stamp it was attached with

Off == <<>>    \* no stream leads to the owner

Init == att = [o \in Owners |-> Off]

Attached == {o \in Owners : att[o] # Off}

Attach(o, s, t) ==
  /\ IF att[o] = Off THEN Cardinality(Attached) < Cap ELSE t > att[o][2]
  /\ att' = [att EXCEPT ![o] = <<s, t>>]

Detach(os) ==
  att' = [o \in Owners |-> IF o \in os THEN Off ELSE att[o]]

Next ==
  \/ \E o \in Owners, s \in Streams, t \in Stamps : Attach(o, s, t)
  \/ \E os \in SUBSET Attached : Detach(os)

Spec == Init /\ [][Next]_att

=============================================================================
