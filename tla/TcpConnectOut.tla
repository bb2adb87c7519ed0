---------------------------- MODULE TcpConnectOut ----------------------------
(***************************************************************************)
(* internal/conn/tcp.go:83-205, the sending side of a tcp link: dialling   *)
(* in the background with a backoff, the batch flush that writes to the    *)
(* socket under c.mu, Reconnect and Close.  Several links of one node, with*)
(* the two loops that visit them in order: the down edge of the path's     *)
(* healthcheck (Reconnect each) and the node's teardown (Close each, in    *)
(* reverse).                                                               *)
(*                                                                         *)
(* A link's flushes are serialised by its Writer's mutex (PktWriter), so   *)
(* each link has one flusher.  The remote end of a link works, is broken,  *)
(* or keeps the connection open and stops reading.                         *)
(***************************************************************************)
EXTENDS Integers

CONSTANT N  \* number of links

ASSUME LinkAssumption == N \in Nat \ {0}

VARIABLES
  link,    \* the tcpConnectOut of each link, see Link
  remote,  \* its remote end
  visit,   \* the link the healthcheck is calling Reconnect on, 0 for none
  leave    \* the link teardown calls Close on; N + 1 before it starts, 0 when done

vars == <<link, remote, visit, leave>>

Links == 1..N

(* c.mu is held for long only by a flush in its socket write.  conn, bw, obf *)
(* and connected change together.  backoff: now is before c.nextRetry.  out  *)
(* counts the dial goroutines in DialContext, got the ones that came back    *)
(* with an open socket and wait for c.mu; lost: an open socket was replaced. *)
Link == [writing : BOOLEAN, connected : BOOLEAN, dialing : BOOLEAN, closed : BOOLEAN,
         backoff : BOOLEAN, out : 0..1, got : 0..1, lost : BOOLEAN]

Init ==
  /\ link = [l \in Links |->
       [writing |-> FALSE, connected |-> FALSE, dialing |-> FALSE, closed |-> FALSE,
        backoff |-> FALSE, out |-> 0, got |-> 0, lost |-> FALSE]]
  /\ remote \in [Links -> {"ok", "broken"}]
  /\ visit = 0 /\ leave = N + 1

Unlocked(l) == ~link[l].writing

MayDial(l) == ~link[l].dialing /\ ~link[l].closed /\ ~link[l].backoff

(* flush on a link that is down drops the batch and kicks a dial.            *)
KickDialLocked(l) ==
  /\ Unlocked(l) /\ ~link[l].connected /\ MayDial(l)
  /\ link' = [link EXCEPT ![l].dialing = TRUE, ![l].out = @ + 1]
  /\ UNCHANGED <<remote, visit, leave>>

(* flush on an open one writes, holding c.mu ...                             *)
FlushStart(l) ==
  /\ Unlocked(l) /\ link[l].connected
  /\ link' = [link EXCEPT ![l].writing = TRUE]
  /\ UNCHANGED <<remote, visit, leave>>

(* ... until the batch is through ...                                        *)
FlushOK(l) ==
  /\ link[l].writing /\ remote[l] = "ok"
  /\ link' = [link EXCEPT ![l].writing = FALSE]
  /\ UNCHANGED <<remote, visit, leave>>

(* Slip: the error path returns with the lock held.                          *)
FlushErr_keepLock(l) ==
  /\ link[l].writing
  /\ link' = [link EXCEPT ![l].connected = FALSE, ![l].backoff = TRUE]
  /\ UNCHANGED <<remote, visit, leave>>

(* ... or the socket, broken now or earlier, reports an error.               *)
FlushErr(l) ==
  /\ link[l].writing
  /\ link' = [link EXCEPT ![l].writing = FALSE, ![l].connected = FALSE, ![l].backoff = TRUE]
  /\ UNCHANGED <<remote, visit, leave>>

(* dial: DialContext returns an open socket ...                              *)
DialOpens(l) ==
  /\ link[l].out > 0 /\ remote[l] # "broken"
  /\ link' = [link EXCEPT ![l].out = @ - 1, ![l].got = @ + 1]
  /\ UNCHANGED <<remote, visit, leave>>

(* Slip: a failed dial leaves the dialing flag set.                          *)
DialFails_keepFlag(l) ==
  /\ link[l].out > 0 /\ Unlocked(l)
  /\ link' = [link EXCEPT ![l].out = @ - 1, ![l].backoff = TRUE]
  /\ UNCHANGED <<remote, visit, leave>>

(* ... or an error, refused or timed out.                                    *)
DialFails(l) ==
  /\ link[l].out > 0 /\ Unlocked(l)
  /\ link' = [link EXCEPT ![l].out = @ - 1, ![l].dialing = FALSE, ![l].backoff = TRUE]
  /\ UNCHANGED <<remote, visit, leave>>

(* dial, under the lock: the socket is closed again when Close came first or *)
(* WrapWriter cannot produce its nonce.                                      *)
Discard(l) ==
  /\ link[l].got > 0 /\ Unlocked(l)
  /\ link' = [link EXCEPT ![l].got = @ - 1, ![l].dialing = FALSE,
                          ![l].backoff = @ \/ ~link[l].closed]
  /\ UNCHANGED <<remote, visit, leave>>

(* Slip: Close is not looked at.                                             *)
Install_closed(l) ==
  /\ link[l].got > 0 /\ Unlocked(l)
  /\ link' = [link EXCEPT ![l].got = @ - 1, ![l].dialing = FALSE, ![l].connected = TRUE,
                          ![l].lost = @ \/ link[l].connected]
  /\ UNCHANGED <<remote, visit, leave>>

(* Otherwise it is installed, whatever c.conn was.                           *)
Install(l) ==
  /\ link[l].got > 0 /\ Unlocked(l) /\ ~link[l].closed
  /\ link' = [link EXCEPT ![l].got = @ - 1, ![l].dialing = FALSE, ![l].connected = TRUE,
                          ![l].lost = @ \/ link[l].connected]
  /\ UNCHANGED <<remote, visit, leave>>

(* nextRetry passes.                                                         *)
BackoffEnds(l) ==
  /\ link[l].backoff
  /\ link' = [link EXCEPT ![l].backoff = FALSE]
  /\ UNCHANGED <<remote, visit, leave>>

(* The down edge of the healthcheck: Reconnect every link in turn.           *)
DownEdge ==
  /\ visit = 0 /\ visit' = 1
  /\ UNCHANGED <<link, remote, leave>>

Reconnect(l) ==
  /\ visit = l /\ Unlocked(l)
  /\ link' = [link EXCEPT ![l].connected = FALSE, ![l].backoff = FALSE]
  /\ visit' = (IF l = N THEN 0 ELSE l + 1)
  /\ UNCHANGED <<remote, leave>>

(* The node's teardown, last link first.                                     *)
Teardown == leave = N + 1 /\ leave' = N /\ UNCHANGED <<link, remote, visit>>

Close(l) ==
  /\ leave = l /\ Unlocked(l)
  /\ link' = [link EXCEPT ![l].connected = FALSE, ![l].closed = TRUE]
  /\ leave' = leave - 1
  /\ UNCHANGED <<remote, visit>>

(* The remote end and the network in between.                                *)
RemoteChanges(l) ==
  /\ \E r \in {"ok", "broken", "stalled"} \ {remote[l]} : remote' = [remote EXCEPT ![l] = r]
  /\ UNCHANGED <<link, visit, leave>>

FlushEnd(l) == FlushOK(l) \/ FlushErr(l)
DialEnds(l) == DialOpens(l) \/ DialFails(l)
DialDone(l) == Install(l) \/ Discard(l)

Next ==
  \/ DownEdge \/ Teardown
  \/ \E l \in Links :
       \/ KickDialLocked(l) \/ FlushStart(l) \/ FlushEnd(l)
       \/ DialEnds(l) \/ DialDone(l) \/ BackoffEnds(l)
       \/ Reconnect(l) \/ Close(l) \/ RemoteChanges(l)

Spec == Init /\ [][Next]_vars

(* Packets keep coming, so flushes do; a write ends unless the remote end    *)
(* leaves it hanging; dials have a timeout and timers run out; Go's mutex    *)
(* reaches whoever waits.  A remote end that is up again and again is        *)
(* reached at last, and so is the installation of its socket.                *)
Fairness ==
  \A l \in Links :
    /\ WF_vars(KickDialLocked(l)) /\ SF_vars(remote[l] # "stalled" /\ FlushEnd(l))
    /\ WF_vars(DialEnds(l)) /\ SF_vars(DialOpens(l))
    /\ WF_vars(DialDone(l)) /\ SF_vars(Install(l))
    /\ WF_vars(BackoffEnds(l)) /\ SF_vars(Reconnect(l)) /\ SF_vars(Close(l))

FairSpec == Spec /\ Fairness

----------------------------------------------------------------------------
(* Types; "a background dial is in flight (at most one at a time)"           *)
(* (tcp.go:100).                                                             *)
TypeOK ==
  /\ link \in [Links -> Link]
  /\ remote \in [Links -> {"ok", "broken", "stalled"}]
  /\ visit \in 0..N /\ leave \in 0..(N + 1)

(* The dialing flag is set exactly while a dial goroutine is about, over     *)
(* failed dials, resets and Close: a flag left behind would end dialling.    *)
OneDial == \A l \in Links : link[l].out + link[l].got = (IF link[l].dialing THEN 1 ELSE 0)

(* dial installs its socket without looking at c.connected; it never         *)
(* displaces an open one, because no socket is open while a dial is out.     *)
NoSocketLeak == \A l \in Links : ~link[l].lost /\ (link[l].dialing => ~link[l].connected)

(* "Close was called; a dial that completes later must not install a conn"   *)
(* (tcp.go:101): behind the teardown no link is open or writing.             *)
ClosedStaysDown == \A l \in Links : l > leave => ~link[l].connected /\ ~link[l].writing

(* While packets flow and the remote end is back for good, the link comes    *)
(* back, whatever failed dials, broken writes and reconnects came before.    *)
ComesBack == \A l \in Links : <>[](remote[l] = "ok") => (<>(leave <= N) \/ []<>link[l].connected)

(* "the healthcheck driver calls it to re-establish the path when the tunnel *)
(* goes silent" (conn.go:82-83): unless a remote end stops reading for good, *)
(* a Reconnect gets through, link by link, and the node's teardown closes    *)
(* every link and comes to its end.                                          *)
LoopsEnd ==
  (\A l \in Links : []<>(remote[l] # "stalled")) =>
    (\A l \in Links : visit = l ~> visit # l) /\ (leave = N ~> leave = 0)

=============================================================================
