----------------------------- MODULE PrefixSets -----------------------------
(***************************************************************************)
(* The router over the prefix sets its dst_in guards really look into      *)
(* (internal/ipmatch, startSetReload of node.go).  Where Router reads such *)
(* a guard in one step and lets it flip at any time, here a lookup loads   *)
(* the pointer to the current table, probes the table's cache, asks the    *)
(* table and fills the cache, while other lookups fill the same slots and  *)
(* reloads of a changing file replace the table.                           *)
(*                                                                         *)
(* The packets that are followed go to Dest, an IPv4 address; pass[s] says *)
(* whether the current table of s contains it.  Every set is a file here:  *)
(* one given as a list is a file that never changes.                       *)
(***************************************************************************)
EXTENDS Router

CONSTANTS
  Addrs,     \* IPv4 addresses
  Dest,      \* the destination of the packets that are followed
  SlotOf,    \* address -> its slot of the direct-mapped cache
  Contents,  \* what a file may hold: sets of addresses
  Bad,       \* a file that is missing or malformed
  Timer,     \* the goroutine of the reload interval, if there is one
  Current,   \* held: the table that is current
  Nil

Reloaders == {"hup", Timer}

Slots == {SlotOf[a] : a \in Addrs}
Empty == <<>>

(* A slot is one word: an address and the table's answer for it.  What a     *)
(* reload has read is staged until it is stored.                             *)
Table == [has : SUBSET Addrs, slots : [Slots -> {Empty} \cup (Addrs \X BOOLEAN)]]
Staged == [set : DstSets, has : Contents]

ASSUME SetsAssumption ==
  /\ Dest \in Addrs /\ Contents \subseteq SUBSET Addrs /\ Bad \notin Contents
  /\ Timer # "hup" /\ Current # Nil /\ {Current, Nil} \cap Table = {} /\ Nil \notin Staged
  /\ Health \cap DstSets = {}

VARIABLES
  timed,   \* the sets with an interval
  file,    \* set -> what its file holds now
  tab,     \* set -> its current table, with its cache
  held,    \* the table the packet's lookup works on: Nil, Current, or an old one
  missed,  \* that lookup has not found Dest in the cache
  hup,     \* SIGHUP in the channel
  turn,    \* sets the SIGHUP goroutine has still to reload
  read     \* goroutine -> what it has read but not yet stored, or Nil

reload == <<timed, file, hup, turn, read>>
lookup == <<held, missed>>
allVars == <<vars, reload, tab, lookup>>

(* newSet: a table with an empty cache.                                      *)
Fresh(has) == [has |-> has, slots |-> [i \in Slots |-> Empty]]

(* The table's answer goes into the address's slot.                          *)
Filled(t, a) == [t EXCEPT !.slots[SlotOf[a]] = <<a, a \in t.has>>]

(* RunWith opens every set before the table is compiled, or does not start.  *)
SetsInit ==
  /\ Init
  /\ timed \in SUBSET DstSets /\ file \in [DstSets -> Contents]
  /\ tab = [s \in DstSets |-> Fresh(file[s])]
  /\ \A s \in DstSets : pass[s] = (Dest \in file[s])
  /\ held = Nil /\ missed = FALSE
  /\ hup = FALSE /\ turn = {} /\ read = [w \in Reloaders |-> Nil]

----------------------------------------------------------------------------
(* The packet's lookup.                                                      *)
Searches == walk.pc = "guard" /\ Cond \in DstSets /\ walk.dstOK

(* The table it works on, which may have been replaced meanwhile.            *)
Held == IF held = Current THEN tab[Cond] ELSE held

Slot == Held.slots[SlotOf[Dest]]

Cached == IF Slot = Empty THEN FALSE ELSE Slot[1] = Dest

(* Reloadable.Contains: the pointer is loaded once.                          *)
LoadTable ==
  /\ Searches /\ held = Nil
  /\ held' = Current
  /\ Reading /\ UNCHANGED <<walk, missed, tab, reload>>

Answer(ok) == walk' = Judged(ok) /\ held' = Nil /\ missed' = FALSE

(* cache.contains: a hit answers.                                            *)
Hit ==
  /\ held # Nil /\ ~missed /\ Cached
  /\ Answer(Slot[2])
  /\ Reading /\ UNCHANGED <<tab, reload>>

Miss ==
  /\ held # Nil /\ ~missed /\ ~Cached
  /\ missed' = TRUE
  /\ Reading /\ UNCHANGED <<walk, held, tab, reload>>

(* The table answers.                                                        *)
Fill ==
  /\ held # Nil /\ missed
  /\ tab' = IF held = Current THEN [tab EXCEPT ![Cond] = Filled(@, Dest)] ELSE tab
  /\ Answer(Dest \in Held.has)
  /\ Reading /\ UNCHANGED reload

(* The router's steps; a guard that needs no lookup is read as it is.        *)
RouterStep ==
  /\ \/ Compile
     \/ \E src \in Sources, proc \in Flags, dstOK \in BOOLEAN : Arrive(src, proc, dstOK)
     \/ LookAccepts \/ Send \/ Drop
     \/ walk.pc = "guard" /\ ~Searches /\ LookGuard
     \/ \E c \in Owned, s \in {"no", "held", "live"} : PeerChanges(c, s)
     \/ \E c \in Health : CondFlips(c)
  /\ UNCHANGED <<reload, tab, lookup>>

(* Lookups of other packets fill slots of the current table, or of an old    *)
(* one that they hold as well.                                               *)
OthersFill(s, a) ==
  /\ stage = "up"
  /\ tab' = [tab EXCEPT ![s] = Filled(@, a)]
  /\ UNCHANGED <<vars, reload, lookup>>

OthersFillOld(a) ==
  /\ held \notin {Nil, Current}
  /\ held' = Filled(held, a)
  /\ UNCHANGED <<vars, reload, tab, missed>>

----------------------------------------------------------------------------
(* Reloads.  A file is edited; SIGHUP comes, or is dropped if one is waiting.*)
Edit(s, x) ==
  /\ stage = "up" /\ file[s] # x
  /\ file' = [file EXCEPT ![s] = x]
  /\ UNCHANGED <<vars, timed, hup, turn, read, tab, lookup>>

Signal ==
  /\ stage = "up"
  /\ hup' = TRUE
  /\ UNCHANGED <<vars, timed, file, turn, read, tab, lookup>>

(* Slip: a signal that comes while a reload is under way is taken as done.   *)
TakeHup_coalesced ==
  /\ hup /\ hup' = FALSE
  /\ turn' = IF turn = {} THEN DstSets ELSE turn
  /\ UNCHANGED <<vars, timed, file, read, tab, lookup>>

TakeHup ==
  /\ hup /\ turn = {}
  /\ hup' = FALSE /\ turn' = DstSets
  /\ UNCHANGED <<vars, timed, file, read, tab, lookup>>

Reloads(w, s) == stage = "up" /\ (IF w = Timer THEN s \in timed ELSE s \in turn)

Served(w, s) == turn' = IF w = Timer THEN turn ELSE turn \ {s}

(* Reload reads the file; on an error the table stays.                       *)
Load(w, s) ==
  /\ Reloads(w, s) /\ read[w] = Nil
  /\ IF file[s] = Bad
     THEN Served(w, s) /\ UNCHANGED read
     ELSE read' = [read EXCEPT ![w] = [set |-> s, has |-> file[s]]] /\ UNCHANGED turn
  /\ UNCHANGED <<vars, timed, file, hup, tab, lookup>>

(* Slip: the new table goes on with the old one's cache.                     *)
Swap_keepCache(w) ==
  LET s == read[w].set
      t == [has |-> read[w].has, slots |-> tab[s].slots] IN
  /\ read[w] # Nil
  /\ tab' = [tab EXCEPT ![s] = t]
  /\ IF pass[s] = (Dest \in t.has) THEN UNCHANGED vars ELSE CondFlips(s)
  /\ held' = IF held = Current /\ Cond = s THEN tab[s] ELSE held
  /\ read' = [read EXCEPT ![w] = Nil] /\ Served(w, s)
  /\ UNCHANGED <<timed, file, hup, missed>>

(* cur.Store: the current table is replaced; a lookup under way keeps its.   *)
Swap(w) ==
  LET s == read[w].set
      t == Fresh(read[w].has) IN
  /\ read[w] # Nil
  /\ tab' = [tab EXCEPT ![s] = t]
  /\ IF pass[s] = (Dest \in t.has) THEN UNCHANGED vars ELSE CondFlips(s)
  /\ held' = IF held = Current /\ Cond = s THEN tab[s] ELSE held
  /\ read' = [read EXCEPT ![w] = Nil] /\ Served(w, s)
  /\ UNCHANGED <<timed, file, hup, missed>>

ReloadStep(w) == Swap(w) \/ \E s \in DstSets : Load(w, s)

SetsNext ==
  \/ RouterStep \/ LoadTable \/ Hit \/ Miss \/ Fill
  \/ \E s \in DstSets, a \in Addrs : OthersFill(s, a)
  \/ \E a \in Addrs : OthersFillOld(a)
  \/ \E s \in DstSets, x \in Contents \cup {Bad} : Edit(s, x)
  \/ Signal \/ TakeHup
  \/ \E w \in Reloaders : ReloadStep(w)

SetsSpec == SetsInit /\ [][SetsNext]_allVars

(* The goroutines run and timers fire; nobody has to edit or signal.         *)
Fairness == WF_allVars(TakeHup) /\ \A w \in Reloaders : WF_allVars(ReloadStep(w))

----------------------------------------------------------------------------
(* To the router a lookup is one read of its guard, at the instant the       *)
(* pointer was loaded: whatever hits a slot, and whenever the table goes, it *)
(* answers for the table it loaded (cache.contains, Reloadable.Contains).    *)
Abstract == INSTANCE Router
  WITH walk <- IF held = Nil THEN walk ELSE Judged(Dest \in Held.has)

AtomicGuards == Abstract!Spec

(* After SIGHUP a set comes to hold what its file holds, unless that changes *)
(* once more; and with an interval it does so for good, though a reload that *)
(* read an older file may store it last (ipmatch.go:181).                    *)
LatestSet ==
  \A s \in DstSets, x \in Contents :
    /\ (hup /\ file[s] = x) ~> (tab[s].has = x \/ file[s] # x)
    /\ (s \in timed /\ <>[](file[s] = x)) => <>[](tab[s].has = x)

=============================================================================
