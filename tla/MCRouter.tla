------------------------------ MODULE MCRouter ------------------------------
(* Tables of a home router: a geo split with failover, a shared downlink, a  *)
(* gateway, tables Compile must refuse, and all pairs of their rows.         *)
EXTENDS PrefixSets

CONSTANTS d, e   \* addresses of one cache slot

R(proc, source, conds, egress, target) ==
  [proc |-> proc, source |-> source, conds |-> conds, egress |-> egress, target |-> target]

Split ==
  <<R("unproc", "tun", <<"iran", "up">>, "local", "tun"), R("unproc", "tun", <<"up">>, None, "pipe"),
    R("unproc", Any, <<>>, "local", "tun")>>
Downlink ==
  <<R("proc", "in", <<>>, None, "tun"), R(Any, Any, <<>>, None, "listen"), R("proc", "in", <<>>, None, "pipe")>>
Gateway ==
  <<R(Any, Any, <<"up">>, None, "in"), R("unproc", "in", <<>>, "local", "listen"), R("proc", Any, <<"iran">>, None, "listen")>>
Loose == <<R(Any, "in", <<>>, "local", "tun"), R("proc", "in", <<>>, None, "pipe")>>
Reprocess == <<R("proc", "in", <<"up">>, "local", "listen")>>

Curated == {Split, Downlink, Gateway, Loose, Reprocess}
Samples == {Split[1], Split[2], Downlink[2], Gateway[3]}
Filed == {<<R("unproc", Any, <<"iran">>, "local", "tun"), R("unproc", Any, <<>>, None, "pipe")>>}

MCTables == Filed \cup Curated \cup {<<a, b>> : a, b \in Samples}
MCAddrs == {d, e}
MCSlotOf == [a \in MCAddrs |-> 0]
MCContents == {{}, {d}}

----------------------------------------------------------------------------
(* Two families.  Where the table is rich, guards are read and flip as in    *)
(* Router.  Where the set behind the guard is looked into, the table is      *)
(* small, and packets come once the tun and the health condition are up.     *)
ComingUp ==
  /\ \A c \in Owned : state'[c] # state[c] => c = "tun" /\ state'[c] = "live"
  /\ \A c \in Health : pass[c] => pass'[c]
  /\ walk.pc = "idle" /\ walk'.pc # "idle" => state["tun"] = "live" /\ \A c \in Health : pass[c]

MCInit == SetsInit /\ (table \notin Filed => timed = {} /\ \A s \in DstSets : file[s] = {})

MCNext ==
  \/ table \notin Filed /\ Next /\ UNCHANGED <<reload, tab, lookup>>
  \/ table \in Filed /\ SetsNext /\ ComingUp

MCSpec == MCInit /\ [][MCNext]_allVars /\ Fairness
=============================================================================
