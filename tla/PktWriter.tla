------------------------------ MODULE PktWriter ------------------------------
(***************************************************************************)
(* internal/pktbuf/writer.go and flushgroup.go: batching Writers and the   *)
(* one goroutine that flushes their idle partial batches.                  *)
(*                                                                         *)
(* A Writer's buffer is its byte count `used' and packet count `nv'.       *)
(* Producers hold the writer's mutex from Reserve to Commit, so `by' is    *)
(* the mutex; the flush callback runs under it and may take its time       *)
(* (a socket write), which is the state "flush".                           *)
(***************************************************************************)
EXTENDS Integers

CONSTANTS
  Writers,      \* the node's Writers
  Producers,    \* goroutines that send packets
  Ticker,       \* the FlushGroup.Run goroutine
  Closer,       \* the teardown goroutine
  Nobody,       \* mutex free
  ArenaCap,     \* cap(w.arena)
  MaxPackets,   \* cap(w.views)
  Sizes         \* packet sizes a producer reserves

ASSUME CapAssumption ==
  /\ ArenaCap \in Nat \ {0} /\ MaxPackets \in Nat \ {0}
  /\ Sizes \subseteq 1..ArenaCap   \* "arenaCap ... must be at least the largest single packet"
ASSUME NameAssumption ==
  /\ Nobody \notin Producers \cup {Ticker, Closer}
  /\ Ticker \notin Producers /\ Closer \notin Producers /\ Ticker # Closer

VARIABLES
  st,      \* each writer: "free", "build" (Reserve..Commit), "flush" (in the callback)
  by,      \* who holds its mutex
  used,    \* len(w.arena)
  nv,      \* len(w.views)
  want,    \* the length the producer in Reserve/Commit asked for, 0 if none
  slot,    \* where the slice Reserve returned starts
  batch,   \* the number of views handed to the flush callback
  members, \* FlushGroup.writers
  todo,    \* what is left of flushAll's snapshot
  phase    \* the owner's teardown: "open", "removed", "flushing", "closed"

bufs  == <<used, nv, slot, batch>>
group == <<members, todo, phase>>
writerVars  == <<st, by, want, bufs, group>>

WriterInit ==
  /\ st = [w \in Writers |-> "free"] /\ by = [w \in Writers |-> Nobody]
  /\ used = [w \in Writers |-> 0] /\ nv = [w \in Writers |-> 0]
  /\ want = [w \in Writers |-> 0] /\ slot = [w \in Writers |-> 0]
  /\ batch = [w \in Writers |-> 0]
  /\ members = {} /\ todo = {} /\ phase = [w \in Writers |-> "open"]

(* flushLocked returns at once on an empty buffer, else enters the callback. *)
FlushLocked(w, h) ==
  /\ nv[w] > 0
  /\ st' = [st EXCEPT ![w] = "flush"] /\ by' = [by EXCEPT ![w] = h]
  /\ batch' = [batch EXCEPT ![w] = nv[w]]
  /\ UNCHANGED <<used, nv, slot>>

(* Slip: Reserve without the arena-space test.                               *)
Reserve_noFit(p, w, max) ==
  /\ by[w] = Nobody /\ \A v \in Writers : by[v] # p
  /\ want' = [want EXCEPT ![w] = max]
  /\ \/ nv[w] = MaxPackets /\ FlushLocked(w, p)
     \/ /\ nv[w] # MaxPackets
        /\ st' = [st EXCEPT ![w] = "build"] /\ by' = [by EXCEPT ![w] = p]
        /\ slot' = [slot EXCEPT ![w] = used[w]]
        /\ UNCHANGED <<used, nv, batch>>
  /\ UNCHANGED group

(* Reserve takes the mutex and makes room, flushing what is buffered if the  *)
(* batch is full or the packet does not fit.                                 *)
Reserve(p, w, max) ==
  /\ by[w] = Nobody /\ \A v \in Writers : by[v] # p
  /\ want' = [want EXCEPT ![w] = max]
  /\ LET full == nv[w] = MaxPackets \/ used[w] + max > ArenaCap IN
     \/ full /\ FlushLocked(w, p)
     \/ /\ ~full \/ nv[w] = 0
        /\ st' = [st EXCEPT ![w] = "build"] /\ by' = [by EXCEPT ![w] = p]
        /\ slot' = [slot EXCEPT ![w] = used[w]]
        /\ UNCHANGED <<used, nv, batch>>
  /\ UNCHANGED group

(* Commit appends the packet and releases the mutex, unless the batch is now *)
(* full: then it flushes first.                                              *)
Commit(p, w, n) ==
  /\ st[w] = "build" /\ by[w] = p /\ n <= want[w]
  /\ used' = [used EXCEPT ![w] = @ + n] /\ nv' = [nv EXCEPT ![w] = @ + 1]
  /\ want' = [want EXCEPT ![w] = 0]
  /\ LET full == nv'[w] = MaxPackets \/ used'[w] = ArenaCap IN
     /\ st' = [st EXCEPT ![w] = IF full THEN "flush" ELSE "free"]
     /\ by' = [by EXCEPT ![w] = IF full THEN p ELSE Nobody]
     /\ batch' = [batch EXCEPT ![w] = IF full THEN nv'[w] ELSE @]
  /\ UNCHANGED <<slot, group>>

(* The callback returns; with an error or not, the buffer is emptied (the    *)
(* error is only kept for Flush to report).  A Reserve that flushed goes on  *)
(* to build, the others unlock.                                              *)
FlushReturns(w) ==
  /\ st[w] = "flush"
  /\ used' = [used EXCEPT ![w] = 0] /\ nv' = [nv EXCEPT ![w] = 0]
  /\ \/ /\ want[w] > 0
        /\ st' = [st EXCEPT ![w] = "build"] /\ slot' = [slot EXCEPT ![w] = 0]
        /\ UNCHANGED <<by, phase>>
     \/ /\ want[w] = 0
        /\ st' = [st EXCEPT ![w] = "free"] /\ by' = [by EXCEPT ![w] = Nobody]
        /\ phase' = [phase EXCEPT ![w] = IF by[w] = Closer THEN "closed" ELSE @]
        /\ UNCHANGED slot
  /\ UNCHANGED <<want, batch, members, todo>>

----------------------------------------------------------------------------
(* FlushGroup.Add and the owner's teardown: Remove, then the final Flush     *)
(* (Writer.Close), which waits for the mutex.  Senders may still come.       *)
Add(w) ==
  /\ w \notin members /\ phase[w] = "open"
  /\ members' = members \cup {w}
  /\ UNCHANGED <<st, by, want, bufs, todo, phase>>

Remove(w) ==
  /\ w \in members
  /\ members' = members \ {w} /\ phase' = [phase EXCEPT ![w] = "removed"]
  /\ UNCHANGED <<st, by, want, bufs, todo>>

Close(w) ==
  /\ phase[w] = "removed" /\ by[w] = Nobody
  /\ \/ FlushLocked(w, Closer) /\ phase' = [phase EXCEPT ![w] = "flushing"]
     \/ nv[w] = 0 /\ phase' = [phase EXCEPT ![w] = "closed"] /\ UNCHANGED <<st, by, bufs>>
  /\ UNCHANGED <<want, members, todo>>

(* flushAll copies the members under the group lock ...                      *)
TickSnapshot ==
  /\ todo = {} /\ \A w \in Writers : by[w] # Ticker
  /\ todo' = members
  /\ UNCHANGED <<st, by, want, bufs, members, phase>>

(* Slip: the tick flushes without asking for the mutex.                      *)
TryFlush_noLock(w) ==
  /\ w \in todo /\ \A v \in Writers : by[v] # Ticker
  /\ todo' = todo \ {w}
  /\ \/ FlushLocked(w, Ticker)
     \/ nv[w] = 0 /\ UNCHANGED <<st, by, bufs>>
  /\ UNCHANGED <<want, members, phase>>

(* Slip: a tick that gives up the rest of its round at a held mutex.         *)
TryFlush_giveUp(w) ==
  /\ w \in todo /\ \A v \in Writers : by[v] # Ticker
  /\ \/ by[w] = Nobody /\ FlushLocked(w, Ticker) /\ todo' = {}
     \/ (by[w] # Nobody \/ nv[w] = 0) /\ todo' = {} /\ UNCHANGED <<st, by, bufs>>
  /\ UNCHANGED <<want, members, phase>>

(* ... and tries each in turn, in map order, skipping the ones whose mutex   *)
(* is held.  One goroutine: it moves on when its flush has returned.         *)
TryFlush(w) ==
  /\ w \in todo /\ \A v \in Writers : by[v] # Ticker
  /\ todo' = todo \ {w}
  /\ \/ by[w] = Nobody /\ FlushLocked(w, Ticker)
     \/ (by[w] # Nobody \/ nv[w] = 0) /\ UNCHANGED <<st, by, bufs>>
  /\ UNCHANGED <<want, members, phase>>

WriterNext ==
  \/ \E p \in Producers, w \in Writers : \E n \in Sizes : Reserve(p, w, n) \/ Commit(p, w, n)
  \/ \E w \in Writers : FlushReturns(w) \/ Add(w) \/ Remove(w) \/ Close(w) \/ TryFlush(w)
  \/ TickSnapshot

WriterSpec == WriterInit /\ [][WriterNext]_writerVars

(* A producer that reserved commits, the tick goes on, and a socket or     *)
(* device write returns; sync.Mutex does not starve the waiting Close (strong *)
(* fairness).  Producers need not send, owners need not tear down.           *)
WriterFairness ==
  /\ \A p \in Producers, w \in Writers : WF_writerVars(\E n \in Sizes : Commit(p, w, n))
  /\ \A w \in Writers : SF_writerVars(Close(w)) /\ WF_writerVars(TryFlush(w))
  /\ \A w \in Writers : WF_writerVars(FlushReturns(w))
  /\ WF_writerVars(TickSnapshot)

WriterFairSpec == WriterSpec /\ WriterFairness

----------------------------------------------------------------------------
Holders == Producers \cup {Ticker, Closer, Nobody}

(* Every variable has its type; counters stay within their capacities.      *)
WriterTypeOK ==
  /\ st \in [Writers -> {"free", "build", "flush"}]
  /\ by \in [Writers -> Holders]
  /\ used \in [Writers -> 0..ArenaCap] /\ nv \in [Writers -> 0..MaxPackets]
  /\ want \in [Writers -> 0..ArenaCap] /\ slot \in [Writers -> 0..ArenaCap]
  /\ batch \in [Writers -> 0..MaxPackets]
  /\ members \subseteq Writers /\ todo \subseteq Writers
  /\ phase \in [Writers -> {"open", "removed", "flushing", "closed"}]

(* The slice Reserve hands out lies inside the arena, and the views never    *)
(* outgrow theirs: Commit cannot panic (writer.go:47, 51, 58).               *)
InBounds ==
  \A w \in Writers :
    /\ st[w] = "build" => used[w] + want[w] <= ArenaCap /\ nv[w] < MaxPackets
    /\ nv[w] = 0 => used[w] = 0

(* One mutex from Reserve to Commit and through every flush: what the        *)
(* producer wrote is still where Commit looks for it, and no packet joins a  *)
(* batch that is being written, to be cut off unwritten (writer.go:95-96).   *)
BufferStable ==
  \A w \in Writers :
    /\ st[w] = "free" <=> by[w] = Nobody
    /\ st[w] = "build" => slot[w] = used[w] /\ by[w] \in Producers
    /\ st[w] = "flush" => batch[w] = nv[w]
    /\ want[w] > 0 => by[w] \in Producers

(* An unlocked writer always has room: full batches leave with the Commit    *)
(* that filled them.                                                         *)
FullBatchGone ==
  \A w \in Writers : st[w] = "free" => nv[w] < MaxPackets /\ used[w] < ArenaCap

(* "A FlushGroup ticker flushes an idle partial batch so a trickle is never  *)
(* stuck" (writer.go:16-17): a member's buffered packets are written out,    *)
(* however the ticks and the producers interleave; and a teardown's final    *)
(* Flush gets the mutex and returns, although senders and the tick still use *)
(* the writer (tun.go:167-169).                                              *)
TrickleFlushed ==
  \A w \in Writers :
    /\ (w \in members /\ nv[w] > 0) ~> (nv[w] = 0 \/ w \notin members)
    /\ (phase[w] = "removed") ~> (phase[w] = "closed")

=============================================================================
