------------------------------- MODULE HttpUp -------------------------------
(***************************************************************************)
(* internal/conn/http.go, the up-path over http: the ConnectOut that       *)
(* streams packets into the body of one long POST (65-193) and the         *)
(* ListenIn with one handler goroutine per POST and its Reader's prefetch  *)
(* goroutine (360-469).  A client that reconnects is known by its channel  *)
(* id: the handler of the new POST supersedes the one before.              *)
(*                                                                         *)
(* One client is followed; other channel ids touch neither it nor its      *)
(* entry.  A frame holds one packet.  Packets are counted: what becomes of *)
(* their order within a stream is PktReader's subject.  Between the two    *)
(* there may be a proxy, so when a path dies the server need not hear of   *)
(* it: it keeps an open body that brings nothing.                          *)
(***************************************************************************)
EXTENDS Integers

CONSTANTS
  Posts,    \* connections, each reused once both ends are done with it
  NoPost,
  WireCap,  \* frames the sockets of a connection hold
  Ahead,    \* frames the prefetch goroutine has read and the loop has not done with (2)
  MaxBad    \* undecodable frames in a row a handler forgives (8)

ASSUME PostAssumption ==
  NoPost \notin Posts /\ WireCap \in Nat \ {0} /\ Ahead \in Nat \ {0} /\ MaxBad \in Nat

VARIABLES
  keyed,     \* both ends have the same key: frames decode
  calm,      \* from now on paths stay up, dials succeed and nobody resets
  call,      \* the Send that holds c.mu: "none", "dial" or "write"
  conn,      \* c.conn, NoPost when not connected
  aged,      \* c.conn is older than maxAge
  backoff,   \* now is before c.nextRetry
  open,      \* connections whose socket the client has open
  dead,      \* connections whose path has died
  wire,      \* connection -> nonce and frames written and not yet read
  active,    \* c.active[id]: the connection of the handler it names, or NoPost
  stage,        \* connection -> its handler, "none" before and after
  former,       \* connection -> the handle its handler has yet to cancel, or NoPost
  deadline,  \* connection -> its read deadline: "none", "armed" or "past"
  fetch,     \* connection -> prefetch: "off", "arm", "read" or "end"
  ahead,     \* connection -> frames read and not yet handled
  bad,       \* connection -> undecodable frames in a row
  last,      \* history: the handler that registered last
  got        \* history: a packet came through since the last Send

client == <<call, conn, aged, backoff>>
path == <<open, dead, wire>>
table == <<active, former, last>>
reader == <<fetch, ahead, bad>>
upVars == <<keyed, calm, client, path, table, stage, deadline, reader, got>>

Of(x) == [s \in Posts |-> x]

UpInit ==
  /\ keyed \in BOOLEAN /\ calm = FALSE
  /\ call = "none" /\ conn = NoPost /\ aged = FALSE /\ backoff = FALSE
  /\ open = {} /\ dead = {} /\ wire = Of(0)
  /\ active = NoPost /\ former = Of(NoPost) /\ last = NoPost
  /\ stage = Of("none") /\ deadline = Of("none")
  /\ fetch = Of("off") /\ ahead = Of(0) /\ bad = Of(0)
  /\ got = FALSE

----------------------------------------------------------------------------
(* The client.  resetLocked: the socket is closed and forgotten.             *)
resetLocked == open' = open \ {conn} /\ conn' = NoPost /\ aged' = FALSE

(* Send takes c.mu: a stream past its age is dropped; without one, either    *)
(* the packet is dropped or the connection dialled.                          *)
Send ==
  /\ call = "none"
  /\ IF conn # NoPost /\ ~aged
     THEN call' = "write" /\ UNCHANGED <<conn, aged, open>>
     ELSE call' = (IF backoff THEN "none" ELSE "dial") /\ resetLocked
  /\ got' = FALSE
  /\ UNCHANGED <<keyed, calm, backoff, dead, wire, table, stage, deadline, reader>>

Unused(s) == s \notin open /\ stage[s] = "none" /\ \A h \in Posts : former[h] # s

(* connectLocked: the request's head is sent, then the cipher's nonce.       *)
DialOK(s) ==
  /\ call = "dial" /\ Unused(s)
  /\ call' = "write" /\ conn' = s /\ aged' = FALSE
  /\ open' = open \cup {s} /\ dead' = dead \ {s} /\ wire' = [wire EXCEPT ![s] = 1]
  /\ stage' = [stage EXCEPT ![s] = "posted"]
  /\ UNCHANGED <<keyed, calm, backoff, table, deadline, reader, got>>

(* The dial or the head's write fails; for want of a slot too (maxHTTPConns).*)
DialErr ==
  /\ call = "dial" /\ (calm => \A s \in Posts : ~Unused(s))
  /\ call' = "none" /\ backoff' = TRUE
  /\ UNCHANGED <<keyed, calm, conn, aged, path, table, stage, deadline, reader, got>>

(* WriteFrame, while the sockets have room; nothing arrives on a dead path   *)
(* or at a server that is done.                                              *)
WriteOK ==
  /\ call = "write" /\ conn \in open /\ wire[conn] < WireCap
  /\ call' = "none" /\ wire' = [wire EXCEPT ![conn] = IF conn \in dead \/ stage[conn] = "none" THEN @ ELSE @ + 1]
  /\ UNCHANGED <<keyed, calm, conn, aged, backoff, open, dead, table, stage, deadline, reader, got>>

(* Slip: the connection that failed is kept.                                 *)
WriteErr_keep ==
  /\ call = "write" /\ conn \notin open
  /\ call' = "none" /\ backoff' = TRUE
  /\ UNCHANGED <<keyed, calm, conn, aged, path, table, stage, deadline, reader, got>>

WriteErr ==
  /\ call = "write" /\ conn \notin open
  /\ call' = "none" /\ backoff' = TRUE /\ resetLocked
  /\ UNCHANGED <<keyed, calm, dead, wire, table, stage, deadline, reader, got>>

BackoffEnds ==
  /\ backoff /\ backoff' = FALSE
  /\ UNCHANGED <<keyed, calm, call, conn, aged, path, table, stage, deadline, reader, got>>

Ages ==
  /\ conn # NoPost /\ ~aged /\ ~calm /\ aged' = TRUE
  /\ UNCHANGED <<keyed, calm, call, conn, backoff, path, table, stage, deadline, reader, got>>

(* Reconnect and Close wait for c.mu; only Reconnect ends the backoff.       *)
Reconnect ==
  /\ call = "none" /\ ~calm
  /\ resetLocked /\ backoff' = FALSE
  /\ UNCHANGED <<keyed, calm, call, dead, wire, table, stage, deadline, reader, got>>

Close ==
  /\ call = "none" /\ ~calm
  /\ resetLocked
  /\ UNCHANGED <<keyed, calm, call, backoff, dead, wire, table, stage, deadline, reader, got>>

----------------------------------------------------------------------------
(* The path.  It dies with what is on it.  The client's kernel gives up on   *)
(* it in the end; and the goroutine that discards the response closes the    *)
(* socket once the server has ended it.                                      *)
Dies(s) ==
  /\ ~calm /\ stage[s] # "none" /\ s \notin dead
  /\ dead' = dead \cup {s} /\ wire' = [wire EXCEPT ![s] = 0]
  /\ UNCHANGED <<keyed, calm, client, open, table, stage, deadline, reader, got>>

SocketEnds(s) ==
  /\ s \in open /\ (s \in dead \/ stage[s] = "none")
  /\ open' = open \ {s}
  /\ UNCHANGED <<keyed, calm, client, dead, wire, table, stage, deadline, reader, got>>

Calms ==
  /\ ~calm /\ calm' = TRUE
  /\ UNCHANGED <<keyed, client, path, table, stage, deadline, reader, got>>

----------------------------------------------------------------------------
(* The handler of a POST.  The head of the request may get lost.             *)
Lost(s) ==
  /\ stage[s] = "posted" /\ s \in dead
  /\ stage' = [stage EXCEPT ![s] = "none"] /\ dead' = dead \ {s}
  /\ UNCHANGED <<keyed, calm, client, open, wire, table, deadline, reader, got>>

(* replace, up to its unlock; a handler may be slow to come to it.           *)
Replace(s) ==
  /\ stage[s] = "posted" /\ s \notin dead
  /\ active' = s /\ last' = s
  /\ former' = [former EXCEPT ![s] = active]
  /\ stage' = [stage EXCEPT ![s] = IF active = NoPost THEN "wrap" ELSE "cancel"]
  /\ UNCHANGED <<keyed, calm, client, path, deadline, reader, got>>

(* old.cancel: the deadline of the handler before, which may have left.      *)
Cancel(s) ==
  /\ stage[s] = "cancel"
  /\ deadline' = [deadline EXCEPT ![former[s]] = IF stage[former[s]] = "none" THEN @ ELSE "past"]
  /\ stage' = [stage EXCEPT ![s] = "wrap"] /\ former' = [former EXCEPT ![s] = NoPost]
  /\ UNCHANGED <<keyed, calm, client, path, active, last, reader, got>>

(* A read succeeds with what is there, which the server may have buffered    *)
(* before the deadline passed; it fails at a deadline, or at the end.        *)
Readable(s) == wire[s] > 0
Fails(s) == deadline[s] = "past" \/ (wire[s] = 0 /\ s \notin open /\ s \notin dead)

(* WrapReader reads the nonce, with no deadline of its own.                  *)
WrapOK(s) ==
  /\ stage[s] = "wrap" /\ Readable(s)
  /\ wire' = [wire EXCEPT ![s] = @ - 1]
  /\ stage' = [stage EXCEPT ![s] = "run"] /\ fetch' = [fetch EXCEPT ![s] = "arm"]
  /\ UNCHANGED <<keyed, calm, client, open, dead, table, deadline, ahead, bad, got>>

WrapErr(s) ==
  /\ stage[s] = "wrap" /\ Fails(s)
  /\ stage' = [stage EXCEPT ![s] = "leave"]
  /\ UNCHANGED <<keyed, calm, client, path, table, deadline, reader, got>>

(* The loop over rd.Next: a packet for the router, or a frame that does not  *)
(* decode, of which it takes only so many.                                   *)
Handle(s) ==
  /\ stage[s] = "run" /\ ahead[s] > 0
  /\ ahead' = [ahead EXCEPT ![s] = @ - 1]
  /\ IF keyed THEN got' = TRUE /\ UNCHANGED <<bad, stage>>
     ELSE /\ bad' = [bad EXCEPT ![s] = @ + 1]
          /\ stage' = IF bad[s] >= MaxBad THEN [stage EXCEPT ![s] = "leave"] ELSE stage
          /\ UNCHANGED got
  /\ UNCHANGED <<keyed, calm, client, path, table, deadline, fetch>>

StreamEnds(s) ==
  /\ stage[s] = "run" /\ ahead[s] = 0 /\ fetch[s] = "end"
  /\ stage' = [stage EXCEPT ![s] = "leave"]
  /\ UNCHANGED <<keyed, calm, client, path, table, deadline, reader, got>>

(* Then net/http ends the response and the connection, prefetch or not.      *)
Returns(s) ==
  /\ stage' = [stage EXCEPT ![s] = "none"] /\ deadline' = [deadline EXCEPT ![s] = "none"]
  /\ wire' = [wire EXCEPT ![s] = 0] /\ dead' = dead \ {s}
  /\ fetch' = [fetch EXCEPT ![s] = "off"] /\ ahead' = [ahead EXCEPT ![s] = 0] /\ bad' = [bad EXCEPT ![s] = 0]
  /\ last' = IF last = s THEN NoPost ELSE last
  /\ UNCHANGED <<keyed, calm, client, open, former, got>>

(* Slip: whatever the channel id names is removed.                           *)
remove_any(s) == stage[s] = "leave" /\ active' = NoPost /\ Returns(s)

(* remove, deferred.                                                         *)
remove(s) ==
  /\ stage[s] = "leave"
  /\ active' = IF active = s THEN NoPost ELSE active
  /\ Returns(s)

----------------------------------------------------------------------------
(* fill, run by the prefetch goroutine when a batch is free.                 *)
Serving(s) == stage[s] = "run"

(* Slip: the deadline is lifted instead of moved.                            *)
Arm_lift(s) ==
  /\ Serving(s) /\ fetch[s] = "arm" /\ ahead[s] < Ahead
  /\ deadline' = [deadline EXCEPT ![s] = "none"] /\ fetch' = [fetch EXCEPT ![s] = "read"]
  /\ UNCHANGED <<keyed, calm, client, path, table, stage, ahead, bad, got>>

(* It moves the deadline, one that a supersede has just set included.        *)
Arm(s) ==
  /\ Serving(s) /\ fetch[s] = "arm" /\ ahead[s] < Ahead
  /\ deadline' = [deadline EXCEPT ![s] = "armed"] /\ fetch' = [fetch EXCEPT ![s] = "read"]
  /\ UNCHANGED <<keyed, calm, client, path, table, stage, ahead, bad, got>>

ReadOK(s) ==
  /\ Serving(s) /\ fetch[s] = "read" /\ Readable(s)
  /\ wire' = [wire EXCEPT ![s] = @ - 1] /\ ahead' = [ahead EXCEPT ![s] = @ + 1]
  /\ fetch' = [fetch EXCEPT ![s] = "arm"]
  /\ UNCHANGED <<keyed, calm, client, open, dead, table, stage, deadline, bad, got>>

ReadErr(s) ==
  /\ Serving(s) /\ fetch[s] = "read" /\ Fails(s)
  /\ fetch' = [fetch EXCEPT ![s] = "end"]
  /\ UNCHANGED <<keyed, calm, client, path, table, stage, deadline, ahead, bad, got>>

(* httpFrameReadTimeout, two minutes, passes without a frame: longer than a  *)
(* write takes on a path that works.                                         *)
Expire(s) ==
  /\ fetch[s] = "read" /\ deadline[s] = "armed" /\ wire[s] = 0
  /\ ~(call = "write" /\ conn = s /\ s \in open \ dead)
  /\ deadline' = [deadline EXCEPT ![s] = "past"]
  /\ UNCHANGED <<keyed, calm, client, path, table, stage, reader, got>>

ClientStep == Send \/ (\E s \in Posts : DialOK(s)) \/ DialErr \/ WriteOK \/ WriteErr

PostStep(s) ==
  \/ Lost(s) \/ Replace(s) \/ Cancel(s) \/ WrapOK(s) \/ WrapErr(s)
  \/ Handle(s) \/ StreamEnds(s) \/ remove(s)

PrefetchStep(s) == Arm(s) \/ ReadOK(s) \/ ReadErr(s)

UpNext ==
  \/ ClientStep \/ BackoffEnds \/ Ages \/ Reconnect \/ Close \/ Calms
  \/ \E s \in Posts :
       PostStep(s) \/ PrefetchStep(s) \/ Expire(s) \/ Dies(s) \/ SocketEnds(s)

UpSpec == UpInit /\ [][UpNext]_upVars

(* Goroutines run, timers fire, kernels give up, and packets keep coming.    *)
UpFairness ==
  /\ WF_upVars(ClientStep) /\ WF_upVars(BackoffEnds)
  /\ \A s \in Posts : /\ WF_upVars(PostStep(s)) /\ WF_upVars(PrefetchStep(s))
                      /\ WF_upVars(Expire(s)) /\ WF_upVars(SocketEnds(s))

UpFairSpec == UpSpec /\ UpFairness

----------------------------------------------------------------------------
(* The registry names the handler that registered last for as long as that   *)
(* one serves: a superseded handler, leaving late, takes only its own entry  *)
(* with it (http.go:465), so the next reconnect finds whom to supersede.     *)
LastIsNamed == \A s \in Posts : last = s /\ stage[s] \in {"cancel", "wrap", "run"} => active = s

(* A superseded handler that the client has left ends and frees its slot,    *)
(* even if its own prefetch moves the deadline the supersede has set and its *)
(* body brings nothing any more, not even an end (http.go:404, 415-420).     *)
SupersededEnds ==
  \A s \in Posts : (stage[s] \in {"wrap", "run"} /\ active # s /\ s \notin open) ~> (stage[s] = "none")

(* Once the path is sound, packets come through again, whatever was lost,    *)
(* aged or reset before, and though the handler of an earlier POST may come  *)
(* late and supersede the one in use (http.go:109-112, 453-461).             *)
PacketsResume == (calm /\ keyed /\ ~got) ~> got

=============================================================================
