---------------------------- MODULE RouterProofs ----------------------------
(* Proofs about Router and PrefixSets, for every table and every set of      *)
(* connections, conditions and addresses.                                    *)
EXTENDS PrefixSets, WellFoundedInduction, TLAPS

----------------------------------------------------------------------------
(* The first row.                                                            *)
LEMMA LessThan == \A a, b \in Nat : <<a, b>> \in OpToRel(<, Nat) <=> a < b
BY DEF OpToRel

(* First picks the least row, by the well-foundedness of the numbers.        *)
LEMMA FirstIsLeast ==
  ASSUME NEW S, S \subseteq Nat, S # {}
  PROVE  First(S) \in S /\ \A j \in S : First(S) <= j
<1>1. PICK i \in S : \A j \in S : ~(<<j, i>> \in OpToRel(<, Nat))
  BY NatLessThanWellFounded, WFMin, Zenon
<1>2. \A j \in S : i <= j
  <2> TAKE j \in S
  <2>1. ~(<<j, i>> \in OpToRel(<, Nat))
    BY <1>1
  <2>2. ~(j < i)
    BY <2>1, LessThan
  <2> QED BY <2>2
<1> QED BY <1>2 DEF First

----------------------------------------------------------------------------
(* The invariant of a walk: no row passed over has been steady, and what the *)
(* first row has been through so far was so at some time.                    *)
Passed(c) == c \in ever /\ (c \in DstSets => walk.dstOK)

Witnessed == always \subseteq Facts(state, pass) /\ Glimpses(state, pass) \subseteq ever

OnList == /\ \A i \in walk.todo : Fits(i)
          /\ \A i \in Rows : Fits(i) /\ Steady(i) => i \in walk.todo

Progress ==
  /\ walk.pc = "accept" => walk.k = 1
  /\ walk.pc \in {"guard", "send"} => walk.todo # {} /\ Row.target \in Pipes \cup ever
  /\ walk.pc = "guard" => /\ walk.k \in 1..Len(Row.conds)
                          /\ \A j \in 1..(walk.k - 1) : Passed(Row.conds[j])
  /\ walk.pc = "send" => \A j \in 1..Len(Row.conds) : Passed(Row.conds[j])

IInv ==
  /\ table \in Tables
  /\ walk \in Walk \cup [pc : {"idle"}, row : Nat]
  /\ walk.pc # "idle" => Witnessed /\ OnList /\ Progress

(* The rows of the table are rules.                                          *)
LEMMA RowTypes ==
  ASSUME table \in Tables
  PROVE  /\ Rows \subseteq Nat \ {0}
         /\ \A i \in Rows : table[i] \in Rule /\ Len(table[i].conds) \in Nat
                            /\ DOMAIN table[i].conds = 1..Len(table[i].conds)
                            /\ \A k \in 1..Len(table[i].conds) : table[i].conds[k] \in Conds
<1>1. table \in Seq(Rule)
  BY TableAssumption
<1>2. Rows \subseteq Nat \ {0} /\ \A i \in Rows : table[i] \in Rule
  BY <1>1 DEF Rows
<1>3. \A i \in Rows : table[i].conds \in Seq(Conds)
  BY <1>2 DEF Rule
<1> QED BY <1>2, <1>3

(* While rows are left, the first one is one of them.                        *)
LEMMA AtFirst ==
  ASSUME IInv, walk.pc # "idle", walk.todo # {}
  PROVE  At \in walk.todo /\ At \in Rows /\ \A j \in walk.todo : At <= j
<1>1. walk.todo \subseteq Rows
  BY DEF IInv, Walk
<1>2. walk.todo \subseteq Nat
  BY <1>1, RowTypes DEF IInv
<1> QED BY <1>1, <1>2, FirstIsLeast DEF At

(* A row that has been steady is accepted, passes its guards and delivers.   *)
LEMMA SteadyRow ==
  ASSUME IInv, walk.pc # "idle", walk.todo # {}, Steady(At)
  PROVE  /\ Accepts(Row.target) /\ Delivers(Row.target)
         /\ \A k \in 1..Len(Row.conds) : Holds(Row.conds[k], walk.dstOK)
<1> USE DEF Row
<1>1. At \in Rows /\ table[At] \in Rule
  BY AtFirst, RowTypes DEF IInv
<1>2. always \subseteq Facts(state, pass)
  BY DEF IInv, Witnessed
<1>3. table[At].target \in Conns
  BY <1>1 DEF Rule
<1>4. table[At].target \in Pipes \/ (table[At].target \in Owned /\ state[table[At].target] = "live")
  BY <1>2, <1>3, TableAssumption DEF Steady, Facts
<1>5. ASSUME NEW k \in 1..Len(table[At].conds)
      PROVE  Holds(table[At].conds[k], walk.dstOK)
  <2> DEFINE c == table[At].conds[k]
  <2>1. c \in Conds /\ c \in CondSet(At)
    BY <1>1, RowTypes DEF IInv, CondSet
  <2>2. c \in Facts(state, pass)
    BY <1>2, <2>1 DEF Steady
  <2>3. c \notin Owned
    BY <2>1, TableAssumption DEF Conns
  <2>4. pass[c]
    BY <2>2, <2>3 DEF Facts
  <2>5. c \in DstSets => walk.dstOK
    BY <2>1 DEF Steady
  <2> QED BY <2>4, <2>5 DEF Holds
<1> QED BY <1>4, <1>5 DEF Accepts, Delivers

(* Going on to the next row past one that has not been steady.               *)
LEMMA PassesOver ==
  ASSUME IInv, walk.pc # "idle", walk.todo # {}, ~Steady(At), walk' = NextRow, Reading
  PROVE  IInv'
<1>1. At \in walk.todo
  BY AtFirst
<1>2. walk \in Walk
  BY DEF IInv
<1>3. /\ walk'.pc = "accept" /\ walk'.todo = walk.todo \ {At} /\ walk'.k = 1
      /\ walk'.src = walk.src /\ walk'.proc = walk.proc /\ walk'.dstOK = walk.dstOK
      /\ walk' \in Walk
  BY <1>2 DEF NextRow, Walk
<1>4. table' = table /\ always' = always /\ ever' = ever /\ state' = state /\ pass' = pass
  BY DEF Reading
<1>5. Rows' = Rows /\ (\A i : Fits(i)' = Fits(i)) /\ (\A i : Steady(i)' = Steady(i))
  BY <1>3, <1>4 DEF Rows, Fits, Steady, CondSet
<1>6. OnList'
  BY <1>3, <1>5 DEF IInv, OnList
<1>7. Witnessed' /\ Progress'
  BY <1>3, <1>4 DEF IInv, Witnessed, Facts, Glimpses, Progress
<1>8. (walk \in Walk)'
  BY <1>3, <1>5 DEF Walk
<1> QED BY <1>4, <1>6, <1>7, <1>8 DEF IInv

(* Staying at the first row, at another pc or guard, keeps all but Progress. *)
LEMMA StaysAt ==
  ASSUME IInv, walk.pc # "idle", walk' \in Walk, walk'.todo = walk.todo, walk'.src = walk.src,
         walk'.proc = walk.proc, walk'.dstOK = walk.dstOK, Reading, Progress'
  PROVE  IInv'
<1>1. table' = table /\ always' = always /\ ever' = ever /\ state' = state /\ pass' = pass
  BY DEF Reading
<1>2. Rows' = Rows /\ (\A i : Fits(i)' = Fits(i)) /\ (\A i : Steady(i)' = Steady(i))
  BY <1>1 DEF Rows, Fits, Steady, CondSet
<1>3. OnList' /\ Witnessed'
  BY <1>1, <1>2 DEF IInv, OnList, Witnessed, Facts, Glimpses
<1>4. (walk \in Walk)'
  BY <1>2 DEF Walk
<1> QED BY <1>1, <1>3, <1>4 DEF IInv

(* A packet starts with the whole compiled list before it.                   *)
LEMMA ArriveKeeps ==
  ASSUME IInv, NEW src \in Sources, NEW proc \in Flags, NEW dstOK \in BOOLEAN, Arrive(src, proc, dstOK)
  PROVE  IInv'
<1>1. /\ walk'.pc = "accept" /\ walk'.todo = Compiled(proc, src) /\ walk'.src = src /\ walk'.proc = proc
      /\ walk'.dstOK = dstOK /\ walk'.k = 1
  BY DEF Arrive
<1>2. table' = table /\ state' = state /\ pass' = pass /\ Rows' = Rows
  BY DEF Arrive, Rows
<1>3. Compiled(proc, src) = {i \in Rows : Fits(i)'}
  BY <1>1, <1>2 DEF Compiled, Matches, Fits
<1>4. OnList'
  BY <1>1, <1>2, <1>3 DEF OnList
<1>5. Witnessed'
  <2>1. always' = Facts(state, pass) /\ ever' = Glimpses(state, pass)
    BY DEF Arrive
  <2> QED BY <2>1, <1>2 DEF Witnessed, Facts, Glimpses
<1>6. Progress'
  BY <1>1 DEF Progress
<1>7. (walk \in Walk)'
  <2>1. Compiled(proc, src) \in SUBSET Rows'
    BY <1>2, <1>3
  <2> QED BY <2>1 DEF Arrive, Walk
<1> QED BY <1>2, <1>4, <1>5, <1>6, <1>7 DEF IInv

(* A row is skipped only when its target does not accept, and was then not   *)
(* steady.                                                                   *)
LEMMA LookAcceptsKeeps == ASSUME IInv, LookAccepts PROVE IInv'
<1>1. walk.pc = "accept" /\ walk.pc # "idle" /\ walk.todo # {} /\ Reading /\ walk \in Walk
  BY DEF LookAccepts, IInv
<1>2. CASE Accepts(Row.target)
  <2> DEFINE p == IF Row.conds = <<>> THEN "send" ELSE "guard"
  <2>1. walk' = [walk EXCEPT !.pc = p]
    BY <1>2 DEF LookAccepts
  <2>2. At \in Rows /\ table[At] \in Rule /\ table[At].conds \in Seq(Conds)
    BY <1>1, AtFirst, RowTypes DEF IInv, Rule
  <2>3. Row.target \in Pipes \cup ever
    BY <1>1, <1>2 DEF Accepts, Glimpses, IInv, Witnessed
  <2>4. walk'.todo = walk.todo /\ walk'.k = walk.k /\ walk'.pc = p
    BY <2>1, <1>1 DEF Walk
  <2>5. Row' = Row /\ ever' = ever
    BY <2>4, <1>1 DEF Row, At, First, Reading
  <2>6. Progress'
    <3>1. walk.k = 1
      BY <1>1 DEF IInv, Progress
    <3>2. Row.conds # <<>> => 1 \in 1..Len(Row.conds)
      BY <2>2 DEF Row
    <3>3. Row.conds = <<>> => Len(Row.conds) = 0
      OBVIOUS
    <3> QED BY <1>1, <2>3, <2>4, <2>5, <3>1, <3>2, <3>3 DEF Progress
  <2>7. walk' \in Walk /\ walk'.src = walk.src /\ walk'.proc = walk.proc /\ walk'.dstOK = walk.dstOK
    BY <1>1, <2>1 DEF Walk
  <2> QED BY <1>1, <2>4, <2>6, <2>7, StaysAt
<1>3. CASE ~Accepts(Row.target)
  <2>1. walk' = NextRow
    BY <1>3 DEF LookAccepts
  <2>2. ~Steady(At)
    BY <1>1, <1>3, SteadyRow
  <2> QED BY <1>1, <2>1, <2>2, PassesOver
<1> QED BY <1>2, <1>3

(* The same for one guard of a row.                                          *)
LEMMA LookGuardKeeps == ASSUME IInv, LookGuard PROVE IInv'
<1>1. walk.pc = "guard" /\ walk.pc # "idle" /\ Reading /\ walk \in Walk
  BY DEF LookGuard, IInv
<1>2. /\ walk.todo # {} /\ Row.target \in Pipes \cup ever /\ walk.k \in 1..Len(Row.conds)
      /\ \A j \in 1..(walk.k - 1) : Passed(Row.conds[j])
  BY <1>1 DEF IInv, Progress
<1>3. At \in Rows /\ Row \in Rule /\ Len(Row.conds) \in Nat /\ Cond \in Conds
  BY <1>1, <1>2, AtFirst, RowTypes DEF IInv, Row, Cond
<1> DEFINE ok == Holds(Cond, walk.dstOK)
<1>4. CASE ~ok
  <2>1. walk' = NextRow
    BY <1>4 DEF LookGuard, Judged
  <2>2. ~Steady(At)
    BY <1>1, <1>2, <1>4, SteadyRow DEF Cond
  <2> QED BY <1>1, <1>2, <2>1, <2>2, PassesOver
<1>5. CASE ok
  <2>1. Passed(Cond)
    BY <1>1, <1>3, <1>5 DEF Passed, Holds, Glimpses, IInv, Witnessed
  <2>2. \A j \in 1..walk.k : Passed(Row.conds[j])
    <3> TAKE j \in 1..walk.k
    <3>1. j = walk.k \/ j \in 1..(walk.k - 1)
      BY <1>2, <1>3
    <3> QED BY <3>1, <2>1, <1>2 DEF Cond
  <2>3. CASE walk.k < Len(Row.conds)
    <3>1. walk' = [walk EXCEPT !.k = @ + 1]
      BY <1>5, <2>3 DEF LookGuard, Judged
    <3>2. walk'.todo = walk.todo /\ walk'.k = walk.k + 1 /\ walk'.pc = "guard" /\ walk'.dstOK = walk.dstOK
      BY <3>1, <1>1 DEF Walk
    <3>3. Row' = Row /\ ever' = ever
      BY <3>2, <1>1 DEF Row, At, First, Reading
    <3>4. \A c : Passed(c) => Passed(c)'
      BY <3>2, <3>3 DEF Passed
    <3>5. walk'.k \in 1..Len(Row.conds) /\ walk'.k - 1 = walk.k
      BY <1>2, <1>3, <2>3, <3>2
    <3>6. \A j \in 1..(walk'.k - 1) : Passed(Row.conds[j])'
      BY <2>2, <3>3, <3>4, <3>5
    <3>7. Progress'
      BY <1>2, <3>2, <3>3, <3>5, <3>6 DEF Progress
    <3>8. walk' \in Walk /\ walk'.src = walk.src /\ walk'.proc = walk.proc
      BY <1>1, <3>1 DEF Walk
    <3> QED BY <1>1, <3>2, <3>7, <3>8, StaysAt
  <2>4. CASE ~(walk.k < Len(Row.conds))
    <3>1. walk' = [walk EXCEPT !.pc = "send"]
      BY <1>5, <2>4 DEF LookGuard, Judged
    <3>2. walk'.todo = walk.todo /\ walk'.pc = "send" /\ walk'.dstOK = walk.dstOK
      BY <3>1, <1>1 DEF Walk
    <3>3. Row' = Row /\ ever' = ever
      BY <3>2, <1>1 DEF Row, At, First, Reading
    <3>4. \A c : Passed(c) => Passed(c)'
      BY <3>2, <3>3 DEF Passed
    <3>5. Len(Row.conds) = walk.k
      BY <1>2, <1>3, <2>4
    <3>6. \A j \in 1..Len(Row.conds) : Passed(Row.conds[j])'
      BY <2>2, <3>3, <3>4, <3>5
    <3>7. Progress'
      BY <1>2, <3>2, <3>3, <3>6 DEF Progress
    <3>8. walk' \in Walk /\ walk'.src = walk.src /\ walk'.proc = walk.proc
      BY <1>1, <3>1 DEF Walk
    <3> QED BY <1>1, <3>2, <3>7, <3>8, StaysAt
  <2> QED BY <2>3, <2>4
<1> QED BY <1>4, <1>5

(* The packet leaves by a row that has passed everything.                    *)
LEMMA SendKeeps == ASSUME IInv, Send PROVE IInv'
<1>1. walk.pc = "send" /\ walk.pc # "idle" /\ Reading /\ walk.todo # {}
  BY DEF Send, IInv, Progress
<1>2. CASE Row.egress # None \/ Delivers(Row.target)
  <2>1. walk' = Done(At) /\ At \in Nat /\ table' = table
    BY <1>1, <1>2, AtFirst, RowTypes DEF Send, IInv, Reading
  <2> QED BY <2>1 DEF IInv, Done
<1>3. CASE ~(Row.egress # None \/ Delivers(Row.target))
  <2>1. walk' = NextRow
    BY <1>3 DEF Send
  <2>2. ~Steady(At)
    BY <1>1, <1>3, SteadyRow
  <2> QED BY <1>1, <2>1, <2>2, PassesOver
<1> QED BY <1>2, <1>3

(* What the walk reads changes under it: less has been so all along, more    *)
(* has been so at some time.                                                 *)
LEMMA ViewChanges ==
  ASSUME IInv, table' = table, walk' = walk,
         walk.pc # "idle" => /\ always' \subseteq always \cap Facts(state', pass')
                             /\ ever \cup Glimpses(state', pass') \subseteq ever'
  PROVE  IInv'
<1>1. Rows' = Rows
  BY DEF Rows
<1>2. CASE walk.pc = "idle"
  BY <1>1, <1>2 DEF IInv, Walk, Rows
<1>3. CASE walk.pc # "idle"
  <2>1. always' \subseteq always /\ always' \subseteq Facts(state', pass')
    BY <1>3
  <2>2. ever \subseteq ever' /\ Glimpses(state', pass') \subseteq ever'
    BY <1>3
  <2>3. Witnessed'
    BY <2>1, <2>2 DEF Witnessed, Facts, Glimpses
  <2>4. (\A i : Fits(i)' = Fits(i)) /\ (\A i : Steady(i)' => Steady(i))
    BY <1>1, <2>1 DEF Fits, Steady, CondSet
  <2>5. OnList'
    BY <1>1, <1>3, <2>4 DEF IInv, OnList
  <2>6. Row' = Row
    BY <1>1 DEF Row, At, First
  <2>7. \A c : Passed(c) => Passed(c)'
    BY <1>1, <2>2 DEF Passed
  <2>8. Progress'
    BY <1>1, <1>3, <2>2, <2>6, <2>7 DEF IInv, Progress
  <2> QED BY <1>1, <2>3, <2>5, <2>8 DEF IInv, Walk
<1> QED BY <1>2, <1>3

----------------------------------------------------------------------------
(* Every step of the router keeps the invariant.                             *)
LEMMA IInvKept == IInv /\ [Next]_vars => IInv'
<1> SUFFICES ASSUME IInv, [Next]_vars PROVE IInv'
  OBVIOUS
<1>0. ASSUME UNCHANGED <<table, state, pass, walk, always, ever>> PROVE IInv'
  BY <1>0, ViewChanges DEF IInv, Witnessed
<1>1. CASE Compile
  BY <1>0, <1>1 DEF Compile
<1>2. CASE \E src \in Sources, proc \in Flags, dstOK \in BOOLEAN : Arrive(src, proc, dstOK)
  BY <1>2, ArriveKeeps
<1>3. CASE LookAccepts
  BY <1>3, LookAcceptsKeeps
<1>4. CASE LookGuard
  BY <1>4, LookGuardKeeps
<1>5. CASE Send
  BY <1>5, SendKeeps
<1>6. CASE Drop
  <2>1. walk' = Done(0) /\ table' = table
    BY <1>6 DEF Drop, Reading
  <2> QED BY <2>1 DEF IInv, Done
<1>7. ASSUME Changed PROVE IInv'
  BY <1>7, ViewChanges DEF Changed
<1>8. CASE \/ \E c \in Owned, s \in {"no", "held", "live"} : PeerChanges(c, s)
           \/ \E c \in Conds : CondFlips(c)
  BY <1>7, <1>8 DEF PeerChanges, CondFlips
<1>9. CASE UNCHANGED vars
  BY <1>0, <1>9 DEF vars
<1> QED BY <1>1, <1>2, <1>3, <1>4, <1>5, <1>6, <1>8, <1>9 DEF Next

(* The invariant of a walk holds throughout.                                 *)
LEMMA IInvAlways == Spec => []IInv
<1>1. Init => IInv
  BY DEF Init, IInv, Idle
<1> QED BY <1>1, IInvKept, PTL DEF Spec

(* A packet leaves the walk by the first row left, or because none is left.  *)
LEMMA Leaving ==
  ASSUME IInv, [Next]_vars, Ends
  PROVE  \/ walk.pc = "send" /\ walk.todo # {} /\ walk'.row = At
         \/ walk.todo = {} /\ walk'.row = 0
<1>1. walk \in Walk
  BY DEF IInv, Ends
<1>2. walk' # walk
  BY DEF Ends
<1>3. CASE \E src \in Sources, proc \in Flags, dstOK \in BOOLEAN : Arrive(src, proc, dstOK)
  BY <1>3 DEF Arrive, Ends
<1>4. NextRow.pc = "accept"
  BY <1>1 DEF NextRow, Walk
<1>5. CASE LookAccepts
  BY <1>1, <1>4, <1>5 DEF LookAccepts, Ends, Walk
<1>6. CASE LookGuard
  BY <1>1, <1>4, <1>6 DEF LookGuard, Judged, Ends, Walk
<1>7. CASE Send
  BY <1>4, <1>7 DEF Send, Done, Ends, IInv, Progress
<1>8. CASE Drop
  BY <1>8 DEF Drop, Done
<1> QED BY <1>2, <1>3, <1>5, <1>6, <1>7, <1>8 DEF Next, Compile, PeerChanges, CondFlips, Changed, vars

(* Whatever the table and whatever changes under the walk, a row that was    *)
(* eligible all along is not passed over (dispatch).                         *)
THEOREM FirstSteadyRow == Spec => FirstSteadyWins
<1>1. ASSUME IInv, [Next]_vars, Ends, NEW i \in Rows, Fits(i), Steady(i)
      PROVE  walk'.row # 0 /\ walk'.row <= i
  <2>1. i \in walk.todo
    BY <1>1 DEF IInv, OnList, Ends
  <2>2. walk'.row = At
    BY <1>1, <2>1, Leaving
  <2>3. At \in Rows /\ At <= i
    BY <1>1, <2>1, AtFirst DEF Ends
  <2> QED BY <1>1, <2>2, <2>3, RowTypes DEF IInv
<1>2. IInv /\ [Next]_vars =>
        [Ends => \A i \in Rows : Fits(i) /\ Steady(i) => walk'.row # 0 /\ walk'.row <= i]_vars
  BY <1>1
<1> QED BY <1>2, IInvAlways, PTL DEF Spec, FirstSteadyWins

(* A packet leaves only by a row written for it, all of whose guards passed  *)
(* and whose target accepted the owner on the way (dispatch, allPass).       *)
THEOREM OpenRowOnly == Spec => LeavesByOpenRow
<1>1. ASSUME IInv, [Next]_vars, Ends, walk'.row # 0
      PROVE  LET i == walk'.row IN
             /\ Fits(i) /\ CondSet(i) \subseteq ever /\ (CondSet(i) \cap DstSets # {} => walk.dstOK)
             /\ table[i].target \in Pipes \cup ever
  <2>1. walk.pc = "send" /\ walk.todo # {} /\ walk'.row = At
    BY <1>1, Leaving
  <2>2. At \in walk.todo /\ At \in Rows
    BY <1>1, <2>1, AtFirst
  <2>3. Fits(At)
    BY <1>1, <2>1, <2>2 DEF IInv, OnList
  <2>4. \A c \in CondSet(At) : Passed(c)
    BY <1>1, <2>1, <2>2, RowTypes DEF IInv, Progress, Row, CondSet
  <2>5. table[At].target \in Pipes \cup ever
    BY <1>1, <2>1 DEF IInv, Progress, Row
  <2> QED BY <2>1, <2>3, <2>4, <2>5 DEF Passed
<1>2. IInv /\ [Next]_vars =>
        [Ends /\ walk'.row # 0 =>
           LET i == walk'.row IN
           /\ Fits(i) /\ CondSet(i) \subseteq ever /\ (CondSet(i) \cap DstSets # {} => walk.dstOK)
           /\ table[i].target \in Pipes \cup ever]_vars
  BY <1>1
<1> QED BY <1>2, IInvAlways, PTL DEF Spec, LeavesByOpenRow

----------------------------------------------------------------------------
(* The sets.  A table's cache only holds its own answers; pass says what the *)
(* current tables answer for Dest; a lookup is under way only at its guard.  *)
Exact(t) ==
  t \in Table /\ \A i \in Slots : t.slots[i] # Empty => (t.slots[i][2] <=> t.slots[i][1] \in t.has)

WalkInv == walk.pc # "idle" => walk \in Walk /\ stage = "up"
PassInv == pass \in [Conds -> BOOLEAN] /\ \A s \in DstSets : pass[s] <=> Dest \in tab[s].has
FileInv == file \in [DstSets -> Contents \cup {Bad}] /\ read \in [Reloaders -> Staged \cup {Nil}]
TabInv == tab \in [DstSets -> Table] /\ \A s \in DstSets : Exact(tab[s])
HeldInv == held \in {Nil, Current} \/ Exact(held)
LookInv == held # Nil => Searches

SetsInv == WalkInv /\ PassInv /\ FileInv /\ TabInv /\ HeldInv /\ LookInv

(* A table just loaded has an empty cache.                                   *)
LEMMA FreshIsExact == ASSUME NEW has \in Contents PROVE Exact(Fresh(has)) /\ Fresh(has).has = has
<1>1. Fresh(has) \in Table /\ Fresh(has).has = has
  BY SetsAssumption DEF Fresh, Table
<1>2. \A i \in Slots : Fresh(has).slots[i] = Empty
  BY DEF Fresh
<1> QED BY <1>1, <1>2 DEF Exact

(* A cache word carries the answer for the address in it.                    *)
LEMMA WordAnswers == ASSUME NEW a, NEW S, NEW w, w = <<a, a \in S>> PROVE w[2] <=> w[1] \in S
BY Zenon

(* A fill stores the table's own answer.                                     *)
LEMMA FilledIsExact ==
  ASSUME NEW t, Exact(t), NEW a \in Addrs PROVE Exact(Filled(t, a)) /\ Filled(t, a).has = t.has
<1> DEFINE f == Filled(t, a)
<1>1. t \in Table /\ SlotOf[a] \in Slots
  BY DEF Exact, Slots
<1>2. f.has = t.has
  BY <1>1 DEF Filled, Table
<1>3. f.slots = [t.slots EXCEPT ![SlotOf[a]] = <<a, a \in t.has>>]
  BY <1>1 DEF Filled, Table
<1>4. <<a, a \in t.has>> \in Addrs \X BOOLEAN
  <2> DEFINE b == a \in t.has
  <2>1. b \in BOOLEAN
    OBVIOUS
  <2> HIDE DEF b
  <2>2. <<a, b>> \in Addrs \X BOOLEAN
    BY <2>1
  <2> QED BY <2>2 DEF b
<1>5. f.slots \in [Slots -> {Empty} \cup (Addrs \X BOOLEAN)]
  BY <1>1, <1>3, <1>4 DEF Table
<1>6. f \in Table
  BY <1>1, <1>3, <1>5 DEF Filled, Table
<1>7. f.slots[SlotOf[a]] = <<a, a \in t.has>>
  BY <1>1, <1>3 DEF Table
<1>8. \A i \in Slots \ {SlotOf[a]} : f.slots[i] = t.slots[i]
  BY <1>1, <1>3 DEF Table
<1>9. ASSUME NEW i \in Slots, f.slots[i] # Empty
      PROVE  f.slots[i][2] <=> f.slots[i][1] \in f.has
  <2>1. CASE i = SlotOf[a]
    <3>1. f.slots[i] = <<a, a \in t.has>>
      BY <2>1, <1>7
    <3>2. f.slots[i][2] <=> f.slots[i][1] \in t.has
      BY <3>1, WordAnswers
    <3> QED BY <3>2, <1>2
  <2>2. CASE i # SlotOf[a]
    BY <2>2, <1>2, <1>8, <1>9 DEF Exact
  <2> QED BY <2>1, <2>2
<1> QED BY <1>2, <1>6, <1>9 DEF Exact

(* A judgement leaves the packet on its way.                                 *)
LEMMA JudgedWalks == ASSUME walk \in Walk, NEW ok PROVE Judged(ok) \in Walk
<1>1. NextRow \in Walk
  BY DEF NextRow, Walk
<1>2. [walk EXCEPT !.k = @ + 1] \in Walk
  BY DEF Walk
<1>3. [walk EXCEPT !.pc = "send"] \in Walk
  BY DEF Walk
<1> QED BY <1>1, <1>2, <1>3 DEF Judged

(* A walk keeps its shape while the table is the same.                       *)
LEMMA StaysWalk == ASSUME table' = table, walk' \in Walk PROVE (walk \in Walk)'
BY DEF Walk, Rows

(* What the walk invariant speaks of is the table and the walk.              *)
LEMMA SameWalk == ASSUME WalkInv, UNCHANGED <<table, stage, walk>> PROVE WalkInv'
BY StaysWalk DEF WalkInv

(* Which set a lookup is about depends on the walk alone.                    *)
LEMMA SameSearch == ASSUME UNCHANGED <<table, walk>> PROVE Searches' = Searches
BY DEF Searches, Cond, Row, At, First

(* The router's own steps; while a lookup is under way they do not move the  *)
(* packet.                                                                   *)
LEMMA WalkStep ==
  ASSUME SetsInv, RouterStep
  PROVE  /\ WalkInv' /\ table' = table
         /\ held # Nil => walk' = walk
<1>1. held # Nil => walk.pc = "guard"
  BY DEF SetsInv, LookInv, Searches
<1>2. walk.pc # "idle" => walk \in Walk
  BY DEF SetsInv, WalkInv
<1>3. ASSUME walk' = walk, table' = table, stage' = stage
      PROVE  WalkInv'
  BY <1>3, SameWalk DEF SetsInv
<1>4. CASE Compile
  BY <1>1, <1>4 DEF Compile, SetsInv, WalkInv, Walk, Rows
<1>5. CASE \E src \in Sources, proc \in Flags, dstOK \in BOOLEAN : Arrive(src, proc, dstOK)
  <2>1. PICK src \in Sources, proc \in Flags, dstOK \in BOOLEAN : Arrive(src, proc, dstOK)
    BY <1>5
  <2>2. Compiled(proc, src) \in SUBSET Rows
    BY DEF Compiled
  <2>3. walk' \in Walk /\ walk.pc = "idle" /\ table' = table /\ stage' = "up"
    BY <2>1, <2>2 DEF Arrive, Walk
  <2> QED BY <1>1, <2>3, StaysWalk DEF WalkInv
<1>6. CASE LookAccepts
  <2>1. walk \in Walk /\ walk.pc = "accept" /\ table' = table /\ stage' = stage
    BY <1>2, <1>6 DEF LookAccepts, Reading
  <2>2. NextRow \in Walk /\ \A p \in {"guard", "send"} : [walk EXCEPT !.pc = p] \in Walk
    BY <2>1 DEF NextRow, Walk
  <2>3. walk' \in Walk
    BY <1>6, <2>2 DEF LookAccepts
  <2> QED BY <1>1, <2>1, <2>3, StaysWalk DEF SetsInv, WalkInv
<1>7. CASE walk.pc = "guard" /\ ~Searches /\ LookGuard
  <2>1. walk \in Walk /\ held = Nil /\ table' = table /\ stage' = stage
    BY <1>2, <1>7 DEF LookGuard, Reading, SetsInv, LookInv
  <2>2. walk' \in Walk
    BY <1>7, <2>1, JudgedWalks DEF LookGuard
  <2> QED BY <1>7, <2>1, <2>2, StaysWalk DEF SetsInv, WalkInv
<1>8. CASE Send
  <2>1. walk \in Walk /\ walk.pc = "send" /\ table' = table /\ stage' = stage
    BY <1>2, <1>8 DEF Send, Reading
  <2>2. NextRow \in Walk
    BY <2>1 DEF NextRow, Walk
  <2>3. walk'.pc = "idle" \/ walk' \in Walk
    BY <1>8, <2>2 DEF Send, Done
  <2> QED BY <1>1, <2>1, <2>3, StaysWalk DEF SetsInv, WalkInv
<1>9. CASE Drop
  <2>1. walk' = [pc |-> "idle", row |-> 0] /\ walk.pc = "accept" /\ table' = table
    BY <1>9 DEF Drop, Done, Reading
  <2> QED BY <1>1, <2>1 DEF WalkInv
<1>10. CASE \E c \in Owned, s \in {"no", "held", "live"} : PeerChanges(c, s)
  BY <1>3, <1>10 DEF PeerChanges, Changed
<1>11. CASE \E c \in Health : CondFlips(c)
  BY <1>3, <1>11 DEF CondFlips, Changed
<1> QED BY <1>4, <1>5, <1>6, <1>7, <1>8, <1>9, <1>10, <1>11 DEF RouterStep

(* Two truth values that differ are opposite.                                *)
LEMMA Differs == ASSUME NEW b \in BOOLEAN, NEW x, NEW S, b # (x \in S) PROVE ~b <=> x \in S
<1> DEFINE c == x \in S
<1>1. c \in BOOLEAN /\ b # c
  OBVIOUS
<1> HIDE DEF c
<1>2. ~b <=> c
  BY <1>1
<1> QED BY <1>2 DEF c

(* Storing a new table: pass follows it, and a lookup under way keeps the    *)
(* table it has.                                                             *)
LEMMA SwapFacts ==
  ASSUME SetsInv, NEW w \in Reloaders, Swap(w)
  PROVE  \E s \in DstSets, t \in Table :
           /\ Exact(t) /\ tab' = [tab EXCEPT ![s] = t]
           /\ \/ UNCHANGED vars /\ (pass[s] <=> Dest \in t.has)
              \/ CondFlips(s) /\ (~pass[s] <=> Dest \in t.has)
           /\ held' = IF held = Current /\ Cond = s THEN tab[s] ELSE held
           /\ file' = file /\ read' = [read EXCEPT ![w] = Nil]
<1>1. read[w] \in Staged
  BY DEF Swap, SetsInv, FileInv
<1> DEFINE s == read[w].set
           t == Fresh(read[w].has)
<1>2. s \in DstSets /\ read[w].has \in Contents
  BY <1>1 DEF Staged
<1>3. Exact(t) /\ t \in Table
  BY <1>2, FreshIsExact DEF Exact
<1>4. \/ UNCHANGED vars /\ (pass[s] <=> Dest \in t.has)
      \/ CondFlips(s) /\ (~pass[s] <=> Dest \in t.has)
  <2>1. pass[s] \in BOOLEAN
    BY <1>2 DEF SetsInv, PassInv, Conds
  <2>2. \/ UNCHANGED vars /\ pass[s] = (Dest \in t.has)
        \/ CondFlips(s) /\ pass[s] # (Dest \in t.has)
    BY DEF Swap
  <2>3. (pass[s] = (Dest \in t.has)) => (pass[s] <=> Dest \in t.has)
    OBVIOUS
  <2>4. (pass[s] # (Dest \in t.has)) => (~pass[s] <=> Dest \in t.has)
    BY <2>1, Differs
  <2> QED BY <2>2, <2>3, <2>4
<1> HIDE DEF t
<1> QED BY <1>2, <1>3, <1>4, Zenon DEF Swap, t

(* A reload replaces a table as a whole, and a lookup under way keeps the    *)
(* old one.                                                                  *)
LEMMA SwapKeeps == ASSUME SetsInv, NEW w \in Reloaders, Swap(w) PROVE SetsInv'
<1>1. PICK s \in DstSets, t \in Table :
           /\ Exact(t) /\ tab' = [tab EXCEPT ![s] = t]
           /\ \/ UNCHANGED vars /\ (pass[s] <=> Dest \in t.has)
              \/ CondFlips(s) /\ (~pass[s] <=> Dest \in t.has)
           /\ held' = IF held = Current /\ Cond = s THEN tab[s] ELSE held
           /\ file' = file /\ read' = [read EXCEPT ![w] = Nil]
  BY SwapFacts
<1>2. UNCHANGED <<table, walk, stage>>
  BY <1>1 DEF vars, CondFlips, Changed
<1>3. tab'[s] = t /\ \A x \in DstSets \ {s} : tab'[x] = tab[x]
  BY <1>1 DEF SetsInv, TabInv
<1>4. TabInv'
  <2>1. tab' \in [DstSets -> Table]
    BY <1>1 DEF SetsInv, TabInv
  <2>2. \A x \in DstSets : Exact(tab'[x])
    BY <1>1, <1>3 DEF SetsInv, TabInv
  <2> QED BY <2>1, <2>2 DEF TabInv, Exact
<1>5. PassInv'
  <2>1. pass \in [Conds -> BOOLEAN] /\ DstSets \subseteq Conds
    BY DEF SetsInv, PassInv, Conds
  <2>2. CASE UNCHANGED vars /\ (pass[s] <=> Dest \in t.has)
    <3>1. pass' = pass
      BY <2>2 DEF vars
    <3> QED BY <1>3, <2>2, <3>1 DEF SetsInv, PassInv
  <2>3. CASE CondFlips(s) /\ (~pass[s] <=> Dest \in t.has)
    <3>1. pass' = [pass EXCEPT ![s] = ~@]
      BY <2>3 DEF CondFlips
    <3>2. pass' \in [Conds -> BOOLEAN] /\ \A x \in DstSets \ {s} : pass'[x] = pass[x]
      BY <2>1, <3>1
    <3>3. pass'[s] = ~pass[s]
      BY <2>1, <3>1
    <3>4. pass'[s] <=> Dest \in t.has
      BY <2>3, <3>3, Zenon
    <3> QED BY <1>3, <3>2, <3>4 DEF SetsInv, PassInv
  <2> QED BY <1>1, <2>2, <2>3
<1>6. HeldInv'
  <2>1. held' = held \/ held' = tab[s]
    BY <1>1
  <2> QED BY <2>1 DEF SetsInv, HeldInv, TabInv, Exact
<1>7. LookInv'
  <2>1. held' # Nil => held # Nil
    BY <1>1, SetsAssumption
  <2> QED BY <1>2, <2>1, SameSearch DEF SetsInv, LookInv
<1>8. WalkInv'
  BY <1>2, SameWalk DEF SetsInv
<1>9. FileInv'
  BY <1>1 DEF SetsInv, FileInv
<1> QED BY <1>4, <1>5, <1>6, <1>7, <1>8, <1>9 DEF SetsInv

(* Filling a slot changes no answer.                                         *)
Refills == tab' \in [DstSets -> Table] /\ \A s \in DstSets : Exact(tab'[s]) /\ tab'[s].has = tab[s].has

(* The fill at the end of a lookup is such a step.                           *)
LEMMA FillRefills ==
  ASSUME TabInv, NEW s \in DstSets, NEW a \in Addrs, tab' = [tab EXCEPT ![s] = Filled(@, a)]
  PROVE  Refills
<1>1. Exact(Filled(tab[s], a)) /\ Filled(tab[s], a).has = tab[s].has
  BY FilledIsExact DEF TabInv
<1>2. tab'[s] = Filled(tab[s], a) /\ \A x \in DstSets \ {s} : tab'[x] = tab[x]
  BY DEF TabInv
<1>3. tab' \in [DstSets -> Table]
  BY <1>1 DEF TabInv, Exact
<1>4. \A x \in DstSets : Exact(tab'[x]) /\ tab'[x].has = tab[x].has
  BY <1>1, <1>2 DEF TabInv
<1> QED BY <1>3, <1>4 DEF Refills

(* So tables and guards agree as before.                                     *)
LEMMA RefillKeeps ==
  ASSUME SetsInv, Refills, pass' = pass
  PROVE  TabInv' /\ PassInv'
<1>1. TabInv'
  BY DEF Refills, TabInv, Exact
<1>2. PassInv'
  BY DEF Refills, SetsInv, PassInv
<1> QED BY <1>1, <1>2

(* A step that leaves the tables alone refills them trivially.               *)
LEMMA SameTab == ASSUME TabInv, tab' = tab PROVE Refills
BY DEF TabInv, Refills

(* The end of a lookup.                                                      *)
LEMMA AnswerKeeps ==
  ASSUME SetsInv, NEW ok, Answer(ok), Reading, UNCHANGED reload, held # Nil, Refills
  PROVE  SetsInv'
<1>1. walk \in Walk /\ stage = "up"
  BY DEF SetsInv, WalkInv, LookInv, Searches
<1>2. walk' \in Walk
  BY <1>1, JudgedWalks DEF Answer
<1>3. WalkInv'
  BY <1>1, <1>2, StaysWalk DEF Reading, WalkInv
<1>4. TabInv' /\ PassInv'
  BY RefillKeeps DEF Reading
<1>5. FileInv'
  BY DEF SetsInv, FileInv, reload
<1>6. HeldInv' /\ LookInv'
  BY DEF Answer, HeldInv, LookInv
<1> QED BY <1>3, <1>4, <1>5, <1>6 DEF SetsInv

(* Steps beside the walk.                                                    *)
LEMMA BesideKeeps ==
  ASSUME SetsInv, UNCHANGED <<table, stage, pass, walk>>, FileInv', Refills, HeldInv',
         held' # Nil => held # Nil
  PROVE  SetsInv'
<1>1. WalkInv'
  BY SameWalk DEF SetsInv
<1>2. LookInv'
  BY SameSearch DEF SetsInv, LookInv
<1> QED BY <1>1, <1>2, RefillKeeps DEF SetsInv

(* Every step of the router over its sets keeps their invariant.             *)
LEMMA SetsInvKept == SetsInv /\ [SetsNext]_allVars => SetsInv'
<1> SUFFICES ASSUME SetsInv, [SetsNext]_allVars PROVE SetsInv'
  OBVIOUS
<1>1. WalkInv /\ PassInv /\ FileInv /\ TabInv /\ HeldInv /\ LookInv
  BY DEF SetsInv
<1>2. CASE RouterStep
  <2>1. WalkInv' /\ (held # Nil => walk' = walk /\ table' = table)
    BY <1>2, WalkStep
  <2>2. pass' \in [Conds -> BOOLEAN] /\ \A s \in DstSets : pass'[s] <=> pass[s]
    <3>1. CASE pass' = pass
      BY <1>1, <3>1 DEF PassInv
    <3>2. CASE \E c \in Health : CondFlips(c)
      <4>1. PICK c \in Health : pass' = [pass EXCEPT ![c] = ~@]
        BY <3>2 DEF CondFlips
      <4>2. pass \in [Conds -> BOOLEAN] /\ c \in Conds
        BY <1>1 DEF PassInv, Conds
      <4>3. pass' \in [Conds -> BOOLEAN]
        BY <4>1, <4>2
      <4>4. \A s \in DstSets : s # c /\ s \in Conds
        BY SetsAssumption DEF Conds
      <4>5. \A s \in DstSets : pass'[s] = pass[s]
        BY <4>1, <4>2, <4>4
      <4> QED BY <4>3, <4>5
    <3> QED BY <1>2, <3>1, <3>2 DEF RouterStep, Compile, Arrive, LookAccepts, LookGuard, Send, Drop,
                                    Reading, PeerChanges
  <2>3. UNCHANGED <<file, read, tab, held>>
    BY <1>2 DEF RouterStep, reload, lookup
  <2>4. PassInv'
    BY <1>1, <2>2, <2>3 DEF PassInv
  <2>5. LookInv'
    BY <1>1, <2>1, <2>3, SameSearch DEF LookInv
  <2>6. FileInv' /\ TabInv' /\ HeldInv'
    BY <1>1, <2>3 DEF FileInv, TabInv, HeldInv, Exact
  <2> QED BY <2>1, <2>4, <2>5, <2>6 DEF SetsInv
<1>3. CASE LoadTable
  <2>1. /\ UNCHANGED <<table, stage, pass, walk, file, read, tab>>
        /\ held' = Current /\ Searches
    BY <1>3 DEF LoadTable, Reading, reload
  <2>2. HeldInv' /\ LookInv'
    BY <2>1, SameSearch DEF HeldInv, LookInv
  <2>3. FileInv' /\ TabInv' /\ PassInv'
    BY <1>1, <2>1 DEF FileInv, TabInv, PassInv, Exact
  <2> QED BY <1>1, <2>1, <2>2, <2>3, SameWalk DEF SetsInv
<1>4. CASE Hit
  BY <1>1, <1>4, AnswerKeeps, SameTab DEF Hit
<1>5. CASE Fill
  <2>1. Cond \in DstSets /\ Dest \in Addrs
    BY <1>1, <1>5, SetsAssumption DEF Fill, LookInv, Searches
  <2>2. Refills
    BY <1>1, <1>5, <2>1, FillRefills, SameTab DEF Fill
  <2> QED BY <1>5, <2>2, AnswerKeeps DEF Fill
<1>6. ASSUME UNCHANGED <<vars, held, tab>>, FileInv' PROVE SetsInv'
  <2>1. HeldInv' /\ Refills
    BY <1>1, <1>6, SameTab DEF HeldInv, Exact
  <2> QED BY <1>6, <2>1, BesideKeeps DEF vars
<1>7. ASSUME UNCHANGED <<file, read>> PROVE FileInv'
  BY <1>1, <1>7 DEF FileInv
<1>8. CASE Miss
  BY <1>6, <1>7, <1>8 DEF Miss, Reading, reload, vars
<1>9. ASSUME NEW s \in DstSets, NEW a \in Addrs, OthersFill(s, a) PROVE SetsInv'
  <2>1. UNCHANGED <<table, stage, pass, walk, file, read, held>>
    BY <1>9 DEF OthersFill, vars, reload, lookup
  <2>2. Refills
    BY <1>1, <1>9, FillRefills DEF OthersFill
  <2>3. HeldInv'
    BY <1>1, <2>1 DEF HeldInv, Exact
  <2> QED BY <1>7, <2>1, <2>2, <2>3, BesideKeeps
<1>10. ASSUME NEW a \in Addrs, OthersFillOld(a) PROVE SetsInv'
  <2>1. UNCHANGED <<table, stage, pass, walk, file, read, tab>> /\ held # Nil
    BY <1>10 DEF OthersFillOld, vars, reload
  <2>2. Exact(held) /\ held' = Filled(held, a)
    BY <1>1, <1>10 DEF OthersFillOld, HeldInv
  <2>3. Exact(held')
    BY <2>2, FilledIsExact
  <2>4. HeldInv'
    BY <2>3 DEF HeldInv, Exact
  <2> QED BY <1>1, <1>7, <2>1, <2>4, SameTab, BesideKeeps
<1>11. ASSUME NEW s \in DstSets, NEW x \in Contents \cup {Bad}, Edit(s, x) PROVE SetsInv'
  <2>1. UNCHANGED <<vars, held, tab>>
    BY <1>11 DEF Edit, lookup
  <2>2. FileInv'
    BY <1>1, <1>11 DEF Edit, FileInv
  <2> QED BY <1>6, <2>1, <2>2
<1>12. CASE Signal \/ TakeHup
  BY <1>6, <1>7, <1>12 DEF Signal, TakeHup, lookup
<1>13. ASSUME NEW w \in Reloaders, NEW s \in DstSets, Load(w, s) PROVE SetsInv'
  <2>1. UNCHANGED <<vars, held, tab>>
    BY <1>13 DEF Load, lookup
  <2>2. file[s] # Bad => [set |-> s, has |-> file[s]] \in Staged
    BY <1>1 DEF FileInv, Staged
  <2>3. FileInv'
    BY <1>1, <1>13, <2>2 DEF Load, FileInv
  <2> QED BY <1>6, <2>1, <2>3
<1>14. CASE \E w \in Reloaders : Swap(w)
  BY <1>14, SwapKeeps
<1>15. CASE UNCHANGED allVars
  BY <1>6, <1>7, <1>15 DEF allVars, reload, lookup
<1> QED BY <1>2, <1>3, <1>4, <1>5, <1>8, <1>9, <1>10, <1>11, <1>12, <1>13, <1>14, <1>15
        DEF SetsNext, ReloadStep

(* So it holds throughout.                                                   *)
LEMMA SetsInvAlways == SetsSpec => []SetsInv
<1>1. SetsInit => SetsInv
  <2> SUFFICES ASSUME SetsInit PROVE SetsInv
    OBVIOUS
  <2>1. \A s \in DstSets : tab[s] = Fresh(file[s]) /\ Exact(tab[s]) /\ tab[s].has = file[s]
    BY FreshIsExact DEF SetsInit
  <2>2. TabInv
    BY <2>1 DEF SetsInit, TabInv, Exact
  <2>3. PassInv
    BY <2>1 DEF SetsInit, Init, PassInv
  <2>4. FileInv
    BY DEF SetsInit, FileInv
  <2> QED BY <2>2, <2>3, <2>4 DEF SetsInit, SetsInv, WalkInv, HeldInv, LookInv, Init, Idle
<1> QED BY <1>1, SetsInvKept, PTL DEF SetsSpec

----------------------------------------------------------------------------
(* The walk as Router sees it.                                               *)
Seen == IF held = Nil THEN walk ELSE Judged(Dest \in Held.has)

(* Between lookups Router sees the walk as it is.                            *)
LEMMA SeesWalk ==
  ASSUME held = Nil
  PROVE  /\ Seen = walk /\ Abstract!At = At /\ Abstract!Row = Row /\ Abstract!Cond = Cond
         /\ Abstract!NextRow = NextRow /\ \A ok : Abstract!Judged(ok) = Judged(ok)
<1>1. Seen = walk
  BY DEF Seen
<1>2. Abstract!At = At
  BY DEF Abstract!At, Abstract!First, At, First
<1>3. Abstract!Row = Row
  BY <1>2 DEF Abstract!Row, Row
<1>4. Abstract!Cond = Cond
  BY <1>3 DEF Abstract!Cond, Cond
<1>5. Abstract!NextRow = NextRow
  BY <1>2 DEF Abstract!NextRow, NextRow
<1>6. \A ok : Abstract!Judged(ok) = Judged(ok)
  BY <1>3, <1>5 DEF Abstract!Judged, Judged
<1> QED BY <1>1, <1>2, <1>3, <1>4, <1>5, <1>6

(* During one it sees the packet past the guard, whatever slots are filled.  *)
LEMMA SeesJudged ==
  ASSUME SetsInv, held # Nil
  PROVE  Seen \in Walk /\ Seen.pc # "idle" /\ Cond \in DstSets /\ Exact(Held)
<1>1. walk \in Walk /\ Cond \in DstSets
  BY DEF SetsInv, WalkInv, LookInv, Searches
<1>2. Seen \in Walk
  BY <1>1, JudgedWalks DEF Seen
<1>3. Exact(Held)
  BY <1>1 DEF SetsInv, TabInv, HeldInv, Held
<1> QED BY <1>1, <1>2, <1>3 DEF Walk

(* Nothing Router sees changes.                                              *)
LEMMA Unseen ==
  ASSUME UNCHANGED <<table, stage, state, pass, always, ever>>, Seen' = Seen
  PROVE  UNCHANGED Abstract!vars
BY DEF Abstract!vars, Seen

(* What the walk reads changes: Router sees the same, as long as the walk it *)
(* sees stays.                                                               *)
LEMMA SeesChange ==
  ASSUME SetsInv, Changed, Seen' = Seen
  PROVE  Abstract!Changed
<1>1. Seen.pc = "idle" <=> walk.pc = "idle"
  <2>1. CASE held = Nil
    BY <2>1 DEF Seen
  <2>2. CASE held # Nil
    BY <2>2, SeesJudged DEF SetsInv, LookInv, Searches
  <2> QED BY <2>1, <2>2
<1> QED BY <1>1 DEF Changed, Abstract!Changed, Facts, Abstract!Facts, Glimpses, Abstract!Glimpses,
                    Conds, Abstract!Conds, Seen

(* A step of the router is the same step of the abstract router.             *)
LEMMA RouterStepMaps ==
  ASSUME SetsInv, RouterStep
  PROVE  Abstract!Next
<1>1. UNCHANGED <<held, tab>>
  BY DEF RouterStep, lookup
<1>2. CASE held = Nil
  <2>1. Seen = walk /\ Seen' = walk'
    BY <1>1, <1>2 DEF Seen
  <2>2. CASE Compile
    <3>1. Abstract!Rows = Rows /\ \A i \in Rows : Abstract!Valid(table[i]) = Valid(table[i])
      BY DEF Rows, Abstract!Rows, Valid, Abstract!Valid, None, Abstract!None
    <3>2. Abstract!Compile
      BY <2>1, <2>2, <3>1, Zenon DEF Compile, Abstract!Compile, Seen
    <3> QED BY <3>2 DEF Abstract!Next
  <2>3. ASSUME NEW src \in Sources, NEW proc \in Flags, NEW dstOK \in BOOLEAN, Arrive(src, proc, dstOK)
        PROVE  Abstract!Next
    <3>1. Abstract!Compiled(proc, src) = Compiled(proc, src)
      BY DEF Compiled, Abstract!Compiled, Rows, Abstract!Rows, Matches, Abstract!Matches, Any, Abstract!Any
    <3>2. /\ Abstract!Facts(state, pass) = Facts(state, pass)
          /\ Abstract!Glimpses(state, pass) = Glimpses(state, pass)
      BY DEF Facts, Abstract!Facts, Glimpses, Abstract!Glimpses, Conds, Abstract!Conds
    <3>3. Abstract!Arrive(src, proc, dstOK)
      BY <2>1, <2>3, <3>1, <3>2, Zenon DEF Arrive, Abstract!Arrive, Seen
    <3> QED BY <3>3 DEF Abstract!Next, Abstract!Flags, Flags
  <2>4. CASE LookAccepts
    <3>1. Abstract!Accepts(Row.target) = Accepts(Row.target)
      BY DEF Accepts, Abstract!Accepts
    <3>2. Abstract!LookAccepts
      BY <1>2, <2>1, <2>4, <3>1, SeesWalk
         DEF LookAccepts, Abstract!LookAccepts, Reading, Abstract!Reading, Seen
    <3> QED BY <3>2 DEF Abstract!Next
  <2>5. CASE LookGuard
    <3>1. \A c : Abstract!Holds(c, walk.dstOK) = Holds(c, walk.dstOK)
      BY DEF Holds, Abstract!Holds
    <3>2. Abstract!LookGuard
      BY <1>2, <2>1, <2>5, <3>1, SeesWalk, Zenon
         DEF LookGuard, Abstract!LookGuard, Reading, Abstract!Reading, Seen
    <3> QED BY <3>2 DEF Abstract!Next
  <2>6. CASE Send
    <3>1. Abstract!Delivers(Row.target) = Delivers(Row.target) /\ Abstract!Done(At) = Done(At)
      BY SMTT(20) DEF Delivers, Abstract!Delivers, Done, Abstract!Done
    <3>2. Abstract!Send
      BY <1>2, <2>1, <2>6, <3>1, SeesWalk DEF Send, Abstract!Send, None, Abstract!None, Reading,
                                              Abstract!Reading, Seen
    <3> QED BY <3>2 DEF Abstract!Next
  <2>7. CASE Drop
    <3>1. Abstract!Drop
      BY <2>1, <2>7 DEF Drop, Abstract!Drop, Done, Abstract!Done, Reading, Abstract!Reading, Seen
    <3> QED BY <3>1 DEF Abstract!Next
  <2>8. ASSUME NEW c \in Owned, NEW x \in {"no", "held", "live"}, PeerChanges(c, x) PROVE Abstract!Next
    <3>1. Seen' = Seen
      BY <2>1, <2>8 DEF PeerChanges, Changed
    <3>2. Abstract!PeerChanges(c, x)
      BY <2>8, <3>1, SeesChange DEF PeerChanges, Abstract!PeerChanges
    <3> QED BY <3>2 DEF Abstract!Next
  <2>9. ASSUME NEW c \in Health, CondFlips(c) PROVE Abstract!Next
    <3>1. Seen' = Seen
      BY <2>1, <2>9 DEF CondFlips, Changed
    <3>2. Abstract!CondFlips(c)
      BY <2>9, <3>1, SeesChange DEF CondFlips, Abstract!CondFlips
    <3> QED BY <3>2 DEF Abstract!Next, Abstract!Conds
  <2> QED BY <2>2, <2>3, <2>4, <2>5, <2>6, <2>7, <2>8, <2>9 DEF RouterStep
<1>3. CASE held # Nil
  <2>1. walk.pc = "guard" /\ Searches /\ stage = "up"
    BY <1>3 DEF SetsInv, WalkInv, LookInv, Searches
  <2>2. walk' = walk /\ table' = table
    BY <1>3, WalkStep
  <2>3. Seen' = Seen
    BY <1>1, <2>2 DEF Seen, Held, Cond, Judged, NextRow, Row, At, First
  <2>4. \/ \E c \in Owned, x \in {"no", "held", "live"} : PeerChanges(c, x)
        \/ \E c \in Health : CondFlips(c)
    BY <2>1 DEF RouterStep, Compile, Arrive, LookAccepts, Send, Drop
  <2>5. ASSUME NEW c \in Owned, NEW x \in {"no", "held", "live"}, PeerChanges(c, x) PROVE Abstract!Next
    <3>1. Abstract!PeerChanges(c, x)
      BY <2>3, <2>5, SeesChange DEF PeerChanges, Abstract!PeerChanges
    <3> QED BY <3>1 DEF Abstract!Next
  <2>6. ASSUME NEW c \in Health, CondFlips(c) PROVE Abstract!Next
    <3>1. Abstract!CondFlips(c)
      BY <2>3, <2>6, SeesChange DEF CondFlips, Abstract!CondFlips
    <3> QED BY <3>1 DEF Abstract!Next, Abstract!Conds
  <2> QED BY <2>4, <2>5, <2>6
<1> QED BY <1>2, <1>3

(* Loading the pointer is Router's reading of the guard.                     *)
LEMMA LoadMaps == ASSUME SetsInv, LoadTable PROVE Abstract!LookGuard
<1>1. held = Nil /\ held' = Current /\ walk' = walk /\ table' = table /\ tab' = tab /\ Searches
  BY DEF LoadTable, Reading
<1>2. Seen' = Judged(Dest \in tab[Cond].has)
  <2>1. Held' = tab[Cond]
    BY <1>1 DEF Held, Cond, Row, At, First
  <2>2. NextRow' = NextRow /\ Row' = Row
    BY <1>1 DEF NextRow, Row, At, First
  <2>3. Seen' = Judged(Dest \in Held.has)'
    BY <1>1, SetsAssumption DEF Seen
  <2> QED BY <1>1, <2>1, <2>2, <2>3 DEF Judged
<1>3. Holds(Cond, walk.dstOK) <=> Dest \in tab[Cond].has
  BY <1>1 DEF Holds, Searches, SetsInv, PassInv
<1>4. Judged(Holds(Cond, walk.dstOK)) = Judged(Dest \in tab[Cond].has)
  BY <1>3 DEF Judged
<1>5. Abstract!Holds(Cond, walk.dstOK) = Holds(Cond, walk.dstOK)
  BY DEF Holds, Abstract!Holds
<1>6. Seen = walk /\ Seen' = Judged(Holds(Cond, walk.dstOK))
  BY <1>1, <1>2, <1>4 DEF Seen
<1> QED BY <1>1, <1>5, <1>6, SeesWalk
        DEF Abstract!LookGuard, Abstract!Reading, LoadTable, Reading, Searches, Seen

(* A lookup that holds a table with the same prefixes sees the same.         *)
LEMMA SameHeld ==
  ASSUME UNCHANGED <<table, walk>>, held' = Nil <=> held = Nil, held # Nil => Held'.has = Held.has
  PROVE  Seen' = Seen
BY DEF Seen, Judged, NextRow, Row, At, First

(* An answer, from the cache or the table, is what Router saw already.       *)
LEMMA AnswerUnseen ==
  ASSUME SetsInv, held # Nil, NEW ok, ok <=> Dest \in Held.has, Answer(ok), Reading
  PROVE  UNCHANGED Abstract!vars
<1>1. Seen' = Judged(ok)
  BY DEF Answer, Seen
<1>2. Judged(ok) = Judged(Dest \in Held.has)
  BY DEF Judged
<1> QED BY <1>1, <1>2, Unseen DEF Seen, Reading

(* A reload is a flip of the guard, or nothing when the answer stays the     *)
(* same.                                                                     *)
LEMMA SwapMaps ==
  ASSUME SetsInv, NEW w \in Reloaders, Swap(w)
  PROVE  Abstract!Next \/ UNCHANGED Abstract!vars
<1>1. PICK s \in DstSets, t \in Table :
           /\ Exact(t) /\ tab' = [tab EXCEPT ![s] = t]
           /\ \/ UNCHANGED vars /\ (pass[s] <=> Dest \in t.has)
              \/ CondFlips(s) /\ (~pass[s] <=> Dest \in t.has)
           /\ held' = IF held = Current /\ Cond = s THEN tab[s] ELSE held
           /\ file' = file /\ read' = [read EXCEPT ![w] = Nil]
  BY SwapFacts
<1>2. UNCHANGED <<table, walk>>
  BY <1>1 DEF vars, CondFlips, Changed
<1>3. Cond' = Cond
  BY <1>2 DEF Cond, Row, At, First
<1>4. tab[s] \in Table /\ tab[s] # Nil /\ tab[s] # Current
  BY SetsAssumption DEF SetsInv, TabInv
<1>5. held' = Nil <=> held = Nil
  BY <1>1, <1>4, SetsAssumption
<1>6. held # Nil => Held' = Held
  <2>1. CASE held = Current /\ Cond = s
    BY <1>1, <1>4, <2>1 DEF Held
  <2>2. CASE held = Current /\ Cond # s
    <3>1. held' = Current /\ Cond \in DstSets
      BY <1>1, <2>2, SeesJudged, SetsAssumption
    <3>2. tab'[Cond] = tab[Cond]
      BY <1>1, <2>2, <3>1 DEF SetsInv, TabInv
    <3> QED BY <1>3, <2>2, <3>1, <3>2 DEF Held
  <2>3. CASE held # Current
    <3>1. held' = held
      BY <1>1, <2>3
    <3> QED BY <2>3, <3>1 DEF Held
  <2> QED BY <2>1, <2>2, <2>3
<1>7. Seen' = Seen
  BY <1>2, <1>5, <1>6, SameHeld
<1>8. CASE UNCHANGED vars
  BY <1>7, <1>8, Unseen DEF vars
<1>9. CASE CondFlips(s)
  <2>1. Abstract!CondFlips(s)
    BY <1>7, <1>9, SeesChange DEF CondFlips, Abstract!CondFlips
  <2> QED BY <2>1 DEF Abstract!Next, Abstract!Conds
<1>10. UNCHANGED vars \/ CondFlips(s)
  BY <1>1
<1> QED BY <1>8, <1>9, <1>10

(* Every step over cached and reloaded sets is one of the abstract router,   *)
(* or none.                                                                  *)
LEMMA StepMaps == SetsInv /\ [SetsNext]_allVars => [Abstract!Next]_(Abstract!vars)
<1> SUFFICES ASSUME SetsInv, [SetsNext]_allVars PROVE Abstract!Next \/ UNCHANGED Abstract!vars
  OBVIOUS
<1>1. CASE RouterStep
  BY <1>1, RouterStepMaps
<1>2. CASE LoadTable
  BY <1>2, LoadMaps DEF Abstract!Next
<1>3. CASE Hit
  <2>1. Exact(Held) /\ SlotOf[Dest] \in Slots
    BY <1>3, SeesJudged, SetsAssumption DEF Hit, Slots
  <2>2. Slot # Empty /\ Slot[1] = Dest
    BY <1>3 DEF Hit, Cached
  <2>3. Slot[2] <=> Dest \in Held.has
    BY <2>1, <2>2 DEF Exact, Slot
  <2>4. held # Nil /\ Answer(Slot[2]) /\ Reading
    BY <1>3 DEF Hit
  <2> QED BY <2>3, <2>4, AnswerUnseen
<1>4. ASSUME UNCHANGED <<vars, held>>, held # Nil => Held'.has = Held.has
      PROVE  UNCHANGED Abstract!vars
  BY <1>4, SameHeld, Unseen DEF vars
<1>5. ASSUME UNCHANGED <<vars, held, tab>> PROVE UNCHANGED Abstract!vars
  <2>1. Held' = Held
    BY <1>5 DEF Held, Cond, Row, At, First, vars
  <2> QED BY <1>4, <1>5, <2>1
<1>6. CASE Miss
  BY <1>5, <1>6 DEF Miss, Reading, vars
<1>7. CASE Fill
  <2>1. held # Nil /\ Answer(Dest \in Held.has) /\ Reading
    BY <1>7 DEF Fill
  <2> QED BY <2>1, AnswerUnseen, Zenon
<1>8. ASSUME NEW s \in DstSets, NEW a \in Addrs, OthersFill(s, a) PROVE UNCHANGED Abstract!vars
  <2>1. \A x \in DstSets : tab'[x].has = tab[x].has
    BY <1>8, FillRefills, Zenon DEF OthersFill, SetsInv, Refills
  <2>2. UNCHANGED <<vars, held>> /\ Cond' = Cond
    BY <1>8 DEF OthersFill, lookup, vars, Cond, Row, At, First
  <2>3. held # Nil => Held'.has = Held.has
    BY <2>1, <2>2, SeesJudged DEF Held
  <2> QED BY <1>4, <2>2, <2>3
<1>9. ASSUME NEW a \in Addrs, OthersFillOld(a) PROVE UNCHANGED Abstract!vars
  <2>1. Exact(held) /\ held # Nil /\ held # Current /\ UNCHANGED vars
    BY <1>9 DEF OthersFillOld, SetsInv, HeldInv
  <2>2. Exact(held') /\ held'.has = held.has
    BY <1>9, <2>1, FilledIsExact DEF OthersFillOld
  <2>3. held' # Nil /\ held' # Current
    BY <2>2, SetsAssumption DEF Exact
  <2>4. Held'.has = Held.has
    BY <2>1, <2>2, <2>3 DEF Held
  <2> QED BY <2>1, <2>3, <2>4, SameHeld, Unseen DEF vars
<1>10. CASE \E s \in DstSets, x \in Contents \cup {Bad} : Edit(s, x)
  BY <1>5, <1>10 DEF Edit, lookup
<1>11. CASE Signal \/ TakeHup
  BY <1>5, <1>11 DEF Signal, TakeHup, lookup
<1>12. CASE \E w \in Reloaders, s \in DstSets : Load(w, s)
  BY <1>5, <1>12 DEF Load, lookup
<1>13. CASE \E w \in Reloaders : Swap(w)
  BY <1>13, SwapMaps
<1>14. CASE UNCHANGED allVars
  BY <1>5, <1>14 DEF allVars, lookup
<1> QED BY <1>1, <1>2, <1>3, <1>6, <1>7, <1>8, <1>9, <1>10, <1>11, <1>12, <1>13, <1>14
        DEF SetsNext, ReloadStep

(* Over caches that other lookups fill and tables that reloads replace, a    *)
(* guard is still one reading of the set, for every table and every set      *)
(* (Reloadable.Contains, cache.contains).                                    *)
THEOREM GuardsAreAtomic == SetsSpec => AtomicGuards
<1>1. SetsInit => Abstract!Init
  BY DEF SetsInit, Init, Abstract!Init, Idle, Abstract!Idle, Abstract!Conds, Conds
<1> QED BY <1>1, SetsInvAlways, StepMaps, PTL DEF SetsSpec, AtomicGuards, Abstract!Spec
=============================================================================
