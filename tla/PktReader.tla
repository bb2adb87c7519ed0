------------------------------ MODULE PktReader ------------------------------
(***************************************************************************)
(* internal/pktbuf/reader.go: the double-buffered packet Reader.           *)
(*                                                                         *)
(* A prefetch goroutine fills one Batch while the consumer drains the      *)
(* other.  The two batches circulate over the channels ready (filled,      *)
(* capacity 1) and spent (drained, capacity 2).  Packets are the numbers   *)
(* 1, 2, 3, ... in the order the source produced them; `got' records those *)
(* Next has returned.                                                      *)
(*                                                                         *)
(* `use' is how a call site uses the Reader: onClose says whether it gave  *)
(* NewReader an onClose, leave how its loop ends before the stream does:   *)
(*   tcp.go:260      onClose, leave = "close"  (r.Close() then return)     *)
(*   http.go:316,428 nil,     leave = "return" (a bare return)             *)
(*   udp.go:300, tun.go:74          nil,     leave = "never"               *)
(*   udp.go:414, finalizer.go:154   onClose, leave = "never"               *)
(***************************************************************************)
EXTENDS Integers, Sequences

CONSTANTS
  Initial,     \* the batch prefetch starts with (Reader.initial)
  Spare,       \* the batch NewReader puts in spent
  NoBatch,     \* nil *Batch
  Uses,        \* the call sites considered
  MaxViews,    \* most packets one fill publishes (maxViews of NewBatch)
  MaxProduced   \* bound: packets the source produces in a behaviour

Batches == {Initial, Spare}
ReadyCap == 1

SpentCap == 2

Leaves == {"never", "close", "return"}

ASSUME BatchAssumption == Initial # Spare /\ NoBatch \notin Batches
ASSUME UsesAssumption == Uses \subseteq [onClose : BOOLEAN, leave : Leaves]
ASSUME BoundAssumption == MaxViews \in Nat /\ MaxProduced \in Nat

VARIABLES
  use,       \* the call site
  ctx,       \* the context given to Start has been cancelled
  srcOpen,   \* the source (socket, device, body) can still be read
  produced,  \* packets read from the source so far
  ready, readyClosed,  \* chan *Batch, cap 1
  spent,     \* chan *Batch, cap 2
  quit,      \* chan struct{}, closed by Close
  closing,   \* progress of the closeOnce body: "no", "quit", "done"
  pf,        \* prefetch goroutine: "new", "fill", "offer", "await", "done"
  pfB,       \* the batch it holds
  views,     \* the packets published in each batch
  cur, idx,  \* the consumer's batch and position
  cons,      \* the consumer: "run", "recv" (blocked in Next), "ended" (Next
             \* returned false), "closing" (in its Close call), "left"
  err,       \* Reader.err is set
  got        \* history: the packets Next returned

vars == <<use, ctx, srcOpen, produced, ready, readyClosed, spent, quit,
          closing, pf, pfB, views, cur, idx, cons, err, got>>

chans    == <<ready, readyClosed, spent>>
consumer == <<cur, idx, cons, got>>
env      == <<use, ctx>>

----------------------------------------------------------------------------
(* NewReader: one batch for prefetch, the other in spent.                  *)
Init ==
  /\ use \in Uses
  /\ ctx = FALSE /\ srcOpen = TRUE /\ produced = 0
  /\ ready = <<>> /\ readyClosed = FALSE /\ spent = <<Spare>>
  /\ quit = FALSE /\ closing = "no"
  /\ pf = "new" /\ pfB = Initial
  /\ views = [b \in Batches |-> <<>>]
  /\ cur = NoBatch /\ idx = 0 /\ cons = "run"
  /\ err = FALSE /\ got = <<>>

(* Start launches prefetch; the AfterFunc it registers is CloseQuit's guard. *)
Start ==
  /\ pf = "new"
  /\ pf' = "fill"
  /\ UNCHANGED <<env, srcOpen, produced, chans, quit, closing, pfB, views, consumer, err>>

(* A fill blocks until it has at least one packet to publish.              *)
FillOK ==
  /\ pf = "fill" /\ srcOpen
  /\ \E n \in 1..MaxViews :
       /\ produced + n <= MaxProduced
       /\ views' = [views EXCEPT ![pfB] = [i \in 1..n |-> produced + i]]
       /\ produced' = produced + n
  /\ pf' = "offer"
  /\ UNCHANGED <<env, srcOpen, chans, quit, closing, pfB, consumer, err>>

(* prefetch returns: the deferred readyOnce closes ready.                  *)
Exit ==
  /\ pf' = "done"
  /\ readyClosed' = TRUE
  /\ UNCHANGED <<env, srcOpen, produced, ready, spent, quit, closing, pfB, views, consumer>>

(* The source is dead, so fill returns an error.                           *)
FillErr ==
  /\ pf = "fill" /\ ~srcOpen
  /\ err' = TRUE
  /\ Exit

(* Slip: keep filling the batch just handed over instead of awaiting spent. *)
Offer_reuse ==
  /\ pf = "offer" /\ Len(ready) < ReadyCap
  /\ ready' = Append(ready, pfB)
  /\ pf' = "fill"
  /\ UNCHANGED <<env, srcOpen, produced, readyClosed, spent, quit, closing, pfB, views, consumer, err>>

(* case r.ready <- b *)
Offer ==
  /\ pf = "offer" /\ Len(ready) < ReadyCap
  /\ ready' = Append(ready, pfB)
  /\ pfB' = NoBatch
  /\ pf' = "await"
  /\ UNCHANGED <<env, srcOpen, produced, readyClosed, spent, quit, closing, views, consumer, err>>

(* case b = <-r.spent, and the b.Reset() that opens the next round *)
Take ==
  /\ pf = "await" /\ spent # <<>>
  /\ pfB' = Head(spent)
  /\ spent' = Tail(spent)
  /\ views' = [views EXCEPT ![Head(spent)] = <<>>]
  /\ pf' = "fill"
  /\ UNCHANGED <<env, srcOpen, produced, ready, readyClosed, quit, closing, consumer, err>>

(* case <-r.quit, in either select *)
SeeQuit ==
  /\ pf \in {"offer", "await"} /\ quit
  /\ UNCHANGED err
  /\ Exit

----------------------------------------------------------------------------
(* Next, while the current batch has a view left.                          *)
NextView ==
  /\ cons = "run" /\ pf # "new"
  /\ cur # NoBatch /\ idx < Len(views[cur])
  /\ got' = Append(got, views[cur][idx + 1])
  /\ idx' = idx + 1
  /\ UNCHANGED <<env, srcOpen, produced, chans, quit, closing, pf, pfB, views, cur, cons, err>>

(* Next, batch exhausted: r.spent <- r.cur (a blocking send), r.cur = nil.  *)
NextRetire ==
  /\ cons = "run" /\ pf # "new"
  /\ IF cur = NoBatch THEN spent' = spent
     ELSE /\ idx >= Len(views[cur])
          /\ Len(spent) < SpentCap
          /\ spent' = Append(spent, cur)
  /\ cur' = NoBatch
  /\ cons' = "recv"
  /\ UNCHANGED <<env, srcOpen, produced, ready, readyClosed, quit, closing, pf, pfB, views, idx, err, got>>

(* Slip: the index of the previous batch is kept.                            *)
NextReceive_keepIdx ==
  /\ cons = "recv" /\ ready # <<>>
  /\ cur' = Head(ready)
  /\ ready' = Tail(ready)
  /\ cons' = "run"
  /\ UNCHANGED <<env, srcOpen, produced, readyClosed, spent, quit, closing, pf, pfB, views, idx, err, got>>

(* b, ok := <-r.ready with a batch to receive *)
NextReceive ==
  /\ cons = "recv" /\ ready # <<>>
  /\ cur' = Head(ready) /\ idx' = 0
  /\ ready' = Tail(ready)
  /\ cons' = "run"
  /\ UNCHANGED <<env, srcOpen, produced, readyClosed, spent, quit, closing, pf, pfB, views, err, got>>

(* Slip: a closed flag tested before the batches still queued.               *)
NextEnd_early ==
  /\ cons = "recv" /\ readyClosed
  /\ cons' = "ended"
  /\ UNCHANGED <<env, srcOpen, produced, chans, quit, closing, pf, pfB, views, cur, idx, err, got>>

(* b, ok := <-r.ready on the closed, drained channel: Next returns false.   *)
NextEnd ==
  /\ cons = "recv" /\ ready = <<>> /\ readyClosed
  /\ cons' = "ended"
  /\ UNCHANGED <<env, srcOpen, produced, chans, quit, closing, pf, pfB, views, cur, idx, err, got>>

(* The call site gives up between two Next calls (a run of undecodable      *)
(* frames).  runStreamReader calls r.Close() first; the http loops return,  *)
(* and returning ends the request and with it the body being read.          *)
Leave ==
  /\ cons = "run" /\ got # <<>>
  /\ \/ /\ use.leave = "close" /\ cons' = "closing" /\ UNCHANGED srcOpen
     \/ /\ use.leave = "return" /\ cons' = "left" /\ srcOpen' = FALSE
  /\ UNCHANGED <<env, produced, chans, quit, closing, pf, pfB, views, cur, idx, err, got>>

(* The consumer's own Close call returns once the closeOnce body has run.   *)
LeaveClosed ==
  /\ cons = "closing" /\ closing = "done"
  /\ cons' = "left"
  /\ UNCHANGED <<env, srcOpen, produced, chans, quit, closing, pf, pfB, views, cur, idx, err, got>>

----------------------------------------------------------------------------
(* Close: close(quit) ...                                                   *)
CloseQuit ==
  /\ closing = "no"
  /\ \/ ctx /\ use.onClose /\ pf # "new"   \* context.AfterFunc(ctx, Close)
     \/ cons = "closing"
  /\ quit' = TRUE
  /\ closing' = "quit"
  /\ UNCHANGED <<env, srcOpen, produced, chans, pf, pfB, views, consumer, err>>

(* Slip: onClose never called.                                               *)
CloseSource_skip ==
  /\ closing = "quit"
  /\ closing' = "done"
  /\ UNCHANGED <<env, srcOpen, produced, chans, quit, pf, pfB, views, consumer, err>>

(* ... then onClose, which closes the source.                               *)
CloseSource ==
  /\ closing = "quit"
  /\ srcOpen' = (srcOpen /\ ~use.onClose)
  /\ closing' = "done"
  /\ UNCHANGED <<env, produced, chans, quit, pf, pfB, views, consumer, err>>

(* The caller cancels the context at any moment.                            *)
Cancel ==
  /\ ~ctx /\ ctx' = TRUE
  /\ UNCHANGED <<use, srcOpen, produced, chans, quit, closing, pf, pfB, views, consumer, err>>

(* The source ends by itself: end of stream, read error.                    *)
SourceEnds ==
  /\ srcOpen /\ srcOpen' = FALSE
  /\ UNCHANGED <<env, produced, chans, quit, closing, pf, pfB, views, consumer, err>>

(* Without an onClose the owner of the source ends it once ctx is done: the *)
(* request context aborts the body, TunConn.Close closes the device.        *)
OwnerCloses == ctx /\ ~use.onClose /\ SourceEnds

(* Nothing moves once the prefetch goroutine and the consumer are gone.     *)
Terminated ==
  /\ pf = "done" /\ cons \in {"ended", "left"}
  /\ UNCHANGED vars

Prefetch == FillOK \/ FillErr \/ Offer \/ Take \/ SeeQuit
Consume  == NextView \/ NextRetire \/ NextReceive \/ NextEnd \/ LeaveClosed
CloseStep   == CloseQuit \/ CloseSource

Next ==
  \/ Start \/ Prefetch \/ Consume \/ Leave \/ CloseStep
  \/ Cancel \/ SourceEnds \/ Terminated

Spec == Init /\ [][Next]_vars

(* Goroutines that can run do run; a consumer that has not left keeps        *)
(* calling Next.  Nothing obliges a source to produce, a caller to cancel or *)
(* a stream to turn bad.                                                     *)
Fairness ==
  /\ WF_vars(Start) /\ WF_vars(FillErr) /\ WF_vars(Offer) /\ WF_vars(Take)
  /\ WF_vars(SeeQuit) /\ WF_vars(Consume) /\ WF_vars(CloseStep)
  /\ WF_vars(OwnerCloses)

FairSpec == Spec /\ Fairness

----------------------------------------------------------------------------
(* Types of the Reader's state and of its environment.                     *)
TypeOK ==
  /\ use \in Uses
  /\ ctx \in BOOLEAN /\ srcOpen \in BOOLEAN /\ produced \in Nat
  /\ ready \in Seq(Batches) /\ readyClosed \in BOOLEAN
  /\ spent \in Seq(Batches)
  /\ quit \in BOOLEAN /\ closing \in {"no", "quit", "done"}
  /\ pf \in {"new", "fill", "offer", "await", "done"}
  /\ pfB \in Batches \cup {NoBatch}
  /\ views \in [Batches -> Seq(Nat)]
  /\ cur \in Batches \cup {NoBatch} /\ idx \in Nat
  /\ cons \in {"run", "recv", "ended", "closing", "left"}
  /\ err \in BOOLEAN /\ got \in Seq(Nat)

Elements(s) == {s[i] : i \in DOMAIN s}

NoRepeats(s) == \A i, j \in DOMAIN s : s[i] = s[j] => i = j

(* "A Batch is owned by exactly one goroutine at a time (the Reader's      *)
(* ready/spent handoff guarantees this), so it needs no locking"           *)
(* (batch.go:5-7): a batch is held by prefetch, held by the consumer, or   *)
(* queued once in one channel; never in two of these places, never lost.   *)
BatchOwnership ==
  /\ cur \in Batches => cur # pfB
  /\ \A b \in Elements(ready) : b \notin Elements(spent) /\ b # cur /\ b # pfB
  /\ \A b \in Elements(spent) : b # cur /\ b # pfB
  /\ Batches \subseteq Elements(ready) \cup Elements(spent) \cup {cur, pfB}
  /\ NoRepeats(ready) /\ NoRepeats(spent)

(* "cap 2 with 2 batches total: never blocks" (reader.go:103): whenever    *)
(* Next is about to send an exhausted batch back, spent has room for it.   *)
SpentNeverBlocks == cur # NoBatch => Len(spent) < SpentCap

(* The inductive invariant behind the two: a waiting prefetch or consumer  *)
(* holds no batch, a filling or offering prefetch does, and ready respects *)
(* its capacity.                                                           *)
HandoffInv ==
  /\ pf \in {"new", "fill", "offer"} => pfB \in Batches
  /\ pf = "await" => pfB = NoBatch
  /\ cons = "recv" => cur = NoBatch
  /\ Len(ready) <= ReadyCap
  /\ BatchOwnership

(* Packets read from the source and not yet returned by Next, in the order *)
(* Next will return them.                                                  *)
Pending ==
  (IF cur = NoBatch THEN <<>> ELSE SubSeq(views[cur], idx + 1, Len(views[cur])))
  \o (IF ready = <<>> THEN <<>> ELSE views[Head(ready)])
  \o (IF pf = "offer" THEN views[pfB] ELSE <<>>)

(* Next returns the packets of the source in order, without loss,          *)
(* duplication or a view overwritten by a later fill; only a Close may     *)
(* discard, and only the one batch prefetch was about to offer.            *)
StreamIntact ==
  LET all == got \o Pending IN
  /\ all = [i \in 1..Len(all) |-> i]
  /\ Len(all) = produced \/ (quit /\ pf = "done" /\ pfB # NoBatch)

(* A packet in hand is not rewritten while the consumer may use it: until  *)
(* the consumer calls Next again, the views of its batch stay as they are. *)
ViewStable ==
  [][cur # NoBatch /\ cur' = cur => views'[cur] = views[cur]]_vars

(* "Close closes the source ... and stops the prefetch goroutine" and "any *)
(* exit path closes ready exactly once, so a consumer blocked in Next sees *)
(* it" (reader.go:21-22, 71): cancelling the context given to Start frees  *)
(* the consumer, and ends prefetch at the call sites that pass an onClose  *)
(* or read until Next says the end.  The http carriers do neither: a loop  *)
(* left after a run of bad frames may leave its prefetch waiting.          *)
CancelEndsBoth ==
  ctx ~> /\ cons \in {"ended", "left"}
         /\ use.onClose \/ use.leave = "never" => pf = "done"

(* A packet the source produced reaches a consumer that keeps reading, or  *)
(* the Reader is closed, or the consumer gives up.                         *)
PacketsDelivered ==
  \A n \in 1..MaxProduced :
    produced >= n ~> Len(got) >= n \/ quit \/ cons \in {"closing", "left"}

=============================================================================
